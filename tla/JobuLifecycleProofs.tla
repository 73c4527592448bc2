------------------------- MODULE JobuLifecycleProofs -------------------------
(***************************************************************************)
(* How the live runs of a job relate to the job and to each other, for     *)
(* every value of the constants: a recurring job has exactly one live      *)
(* schedule-owned run, a manual run is alone, live runs follow their job   *)
(* and a planned run carries the newest definition.                        *)
(*                                                                         *)
(* The four properties need each other.  A successor is unique because the *)
(* run it follows was; Run Now finds a planned run, not a running one,     *)
(* because there is only one; an ended job has no live run left because    *)
(* live runs only belong to open jobs.                                     *)
(***************************************************************************)
EXTENDS JobuExecutionProofs

Open == {"active", "suspending", "suspended"}
Gone == {"absent", "deleted"}

\* Live runs belong to open jobs and sit in the queues of those jobs.
LiveRunsOwned ==
    \A r \in Runs : runs[r].state \in LiveStates =>
        /\ jobs[runs[r].job].state \in Open
        /\ runs[r].queue = jobs[runs[r].job].queue

\* A job has at most one live schedule-owned run and one live manual run.
LiveRunsUnique ==
    \A r, s \in Runs :
        /\ runs[r].state \in LiveStates /\ runs[s].state \in LiveStates
        /\ runs[r].job = runs[s].job /\ runs[r].manual = runs[s].manual
        => r = s

\* The unused ids hold no recurring definition.
AbsentIsPlain == \A j \in Jobs : jobs[j].state = "absent" => ~jobs[j].recurring

\* A recurring job has a live schedule-owned run.
RecurringHasRun ==
    \A j \in Jobs : jobs[j].recurring /\ jobs[j].state \notin Gone =>
        \E r \in Runs : runs[r].state \in LiveStates /\ runs[r].job = j /\ ~runs[r].manual

\* Next to a live manual run, the schedule-owned run is only planned.
ManualExcludes ==
    \A m, r \in Runs :
        /\ runs[m].state \in LiveStates /\ runs[r].state \in LiveStates
        /\ runs[m].job = runs[r].job /\ runs[m].manual /\ ~runs[r].manual
        => runs[r].state = "scheduled"

\* A planned schedule-owned run carries the newest definition.
PlannedIsNewest ==
    \A r \in Runs : runs[r].state = "scheduled" /\ ~runs[r].manual =>
        runs[r].def = jobs[runs[r].job].def

LifecycleInv ==
    /\ LiveRunsOwned
    /\ LiveRunsUnique
    /\ AbsentIsPlain
    /\ RecurringHasRun
    /\ ManualExcludes
    /\ PlannedIsNewest

-----------------------------------------------------------------------------
(* Steps that only move jobs and runs between states that the invariant    *)
(* does not tell apart.                                                    *)

\* Open jobs stay open with the same definition, gone jobs stay gone.
JobsKept ==
    \A j \in Jobs :
        /\ jobs[j].state \in Gone <=> jobs'[j].state \in Gone
        /\ jobs[j].state \in Open => jobs'[j].state \in Open
        /\ jobs'[j].state = "absent" =>
               ~jobs'[j].recurring \/ (jobs[j].state = "absent" /\ jobs[j].recurring)
        /\ jobs[j].state \notin Gone =>
               /\ jobs'[j].queue = jobs[j].queue
               /\ jobs'[j].recurring = jobs[j].recurring
               /\ jobs'[j].def = jobs[j].def

\* The same runs are live and the same runs are planned.
RunsKept ==
    \A r \in Runs :
        /\ runs[r].state \in LiveStates <=> runs'[r].state \in LiveStates
        /\ runs[r].state = "scheduled" <=> runs'[r].state = "scheduled"
        /\ runs[r].state \in LiveStates =>
               /\ runs'[r].job = runs[r].job /\ runs'[r].manual = runs[r].manual
               /\ runs'[r].queue = runs[r].queue /\ runs'[r].def = runs[r].def

\* Such steps preserve the invariant.
LEMMA KeptInv ==
    ASSUME StoreInv, LifecycleInv, JobsKept, RunsKept
    PROVE  LifecycleInv'
<1>0. \A r \in Runs : runs[r].state \in LiveStates => runs[r].job \in Jobs
  BY DEF StoreInv, RowsHaveOwners, LiveStates
<1>1. LiveRunsOwned'
  BY <1>0 DEF LifecycleInv, LiveRunsOwned, JobsKept, RunsKept, Open, Gone
<1>2. LiveRunsUnique'
  BY DEF LifecycleInv, LiveRunsUnique, RunsKept
<1>3. RecurringHasRun'
  BY DEF LifecycleInv, RecurringHasRun, JobsKept, RunsKept
<1>4. ManualExcludes'
  BY DEF LifecycleInv, ManualExcludes, RunsKept
<1>5. PlannedIsNewest'
  BY <1>0 DEF LifecycleInv, PlannedIsNewest, LiveRunsOwned, JobsKept, RunsKept, Open, Gone, LiveStates
<1>6. AbsentIsPlain'
  BY DEF LifecycleInv, AbsentIsPlain, JobsKept
<1> QED BY <1>1, <1>2, <1>3, <1>4, <1>5, <1>6 DEF LifecycleInv

\* Completing a job suspension keeps every job.
LEMMA DrainJobKept ==
    ASSUME StoreInv, NEW rs, NEW j, jobs' = DrainJob(jobs, rs, j)
    PROVE  JobsKept
<1>1. jobs \in [Jobs -> JobRow] BY DEF StoreInv, StoreType
<1> QED BY <1>1 DEF DrainJob, JobsKept, JobRow, Open, Gone

\* Unchanged tables are kept.
LEMMA SameJobsKept ==
    ASSUME jobs' = jobs
    PROVE  JobsKept
BY DEF JobsKept

\* The same for the runs.
LEMMA SameRunsKept ==
    ASSUME runs' = runs
    PROVE  RunsKept
BY DEF RunsKept

-----------------------------------------------------------------------------
(* Requests.                                                               *)

\* create_job: a fresh job with one planned run.
LEMMA CreateJobInv ==
    ASSUME StoreInv, LifecycleInv, NEW j \in Jobs, NEW q \in Queues, NEW recurring \in BOOLEAN,
           NEW due \in BOOLEAN, NEW r \in Runs, CreateJob(j, q, recurring, due, r)
    PROVE  LifecycleInv'
<1> DEFINE row == [state |-> "active", queue |-> q, recurring |-> recurring, def |-> 0]
           new == ScheduledRun(row, j, due)
<1>1. jobs \in [Jobs -> JobRow] /\ runs \in [Runs -> RunRow] BY DEF StoreInv, StoreType
<1>2. /\ jobs[j].state = "absent" /\ runs[r].state = "absent"
      /\ jobs' = [jobs EXCEPT ![j] = row] /\ runs' = [runs EXCEPT ![r] = new]
  BY DEF CreateJob
<1>3. /\ new.state = "scheduled" /\ new.job = j /\ new.queue = row.queue /\ ~new.manual
      /\ new.def = row.def /\ row.state = "active"
  BY DEF ScheduledRun
<1> HIDE DEF row, new
<1>4. /\ jobs'[j] = row /\ \A x \in Jobs : x # j => jobs'[x] = jobs[x]
      /\ runs'[r] = new /\ \A x \in Runs : x # r => runs'[x] = runs[x]
  BY <1>1, <1>2
<1>5. \A x \in Runs : runs[x].state \in LiveStates => runs[x].job \in Jobs /\ runs[x].job # j
  BY <1>2 DEF LifecycleInv, LiveRunsOwned, Open, StoreInv, RowsHaveOwners, LiveStates
<1>6. LiveRunsOwned'
  BY <1>3, <1>4, <1>5 DEF LifecycleInv, LiveRunsOwned, Open
<1>7. LiveRunsUnique'
  BY <1>3, <1>4, <1>5 DEF LifecycleInv, LiveRunsUnique
<1>8. RecurringHasRun'
  <2>1. ASSUME NEW x \in Jobs, jobs'[x].recurring, jobs'[x].state \notin Gone
        PROVE  \E s \in Runs : runs'[s].state \in LiveStates /\ runs'[s].job = x /\ ~runs'[s].manual
    <3>1. CASE x = j BY <1>3, <1>4, <3>1 DEF LiveStates
    <3>2. CASE x # j
      <4>1. PICK s \in Runs : runs[s].state \in LiveStates /\ runs[s].job = x /\ ~runs[s].manual
        BY <1>4, <2>1, <3>2 DEF LifecycleInv, RecurringHasRun
      <4>2. s # r BY <1>2, <4>1 DEF LiveStates
      <4> QED BY <1>4, <4>1, <4>2
    <3> QED BY <3>1, <3>2
  <2> QED BY <2>1 DEF RecurringHasRun
<1>9. ManualExcludes'
  BY <1>3, <1>4, <1>5 DEF LifecycleInv, ManualExcludes
<1>10. PlannedIsNewest'
  BY <1>3, <1>4, <1>5 DEF LifecycleInv, PlannedIsNewest, LiveStates
<1>11. AbsentIsPlain' BY <1>3, <1>4 DEF LifecycleInv, AbsentIsPlain
<1> QED BY <1>6, <1>7, <1>8, <1>9, <1>10, <1>11 DEF LifecycleInv

\* run_now: the manual run joins a job whose only live run is planned.
LEMMA RunNowInv ==
    ASSUME StoreInv, LifecycleInv, NEW j \in Jobs, NEW r \in Runs, RunNow(j, r)
    PROVE  LifecycleInv'
<1> DEFINE new == ManualRun(jobs[j], j)
<1>1. runs \in [Runs -> RunRow] BY DEF StoreInv, StoreType
<1>2. /\ jobs[j].state \in Open /\ runs[r].state = "absent"
      /\ jobs' = jobs /\ runs' = [runs EXCEPT ![r] = new]
  BY DEF RunNow, Open
<1>3. new.state = "scheduled" /\ new.job = j /\ new.queue = jobs[j].queue /\ new.manual
  BY DEF ManualRun
<1>4. \A x \in Runs : runs[x].state \in LiveStates /\ runs[x].job = j =>
          runs[x].state = "scheduled" /\ ~runs[x].manual
  BY DEF RunNow, RunNowAllowed, ManualBarrier, LiveRuns, LiveStates
<1> HIDE DEF new
<1>5. runs'[r] = new /\ \A x \in Runs : x # r => runs'[x] = runs[x]
  BY <1>1, <1>2
<1>6. "scheduled" \in LiveStates /\ "absent" \notin LiveStates BY DEF LiveStates
<1>7. LiveRunsOwned'
  BY <1>2, <1>3, <1>5 DEF LifecycleInv, LiveRunsOwned
<1>8. LiveRunsUnique'
  BY <1>3, <1>4, <1>5 DEF LifecycleInv, LiveRunsUnique
<1>9. RecurringHasRun'
  BY <1>2, <1>5, <1>6 DEF LifecycleInv, RecurringHasRun
<1>10. ManualExcludes'
  BY <1>3, <1>4, <1>5 DEF LifecycleInv, ManualExcludes
<1>11. PlannedIsNewest'
  BY <1>2, <1>3, <1>5 DEF LifecycleInv, PlannedIsNewest
<1>12. AbsentIsPlain' BY <1>2 DEF LifecycleInv, AbsentIsPlain
<1> QED BY <1>7, <1>8, <1>9, <1>10, <1>11, <1>12 DEF LifecycleInv

\* update_job: the planned run takes the new definition.
LEMMA UpdateJobInv ==
    ASSUME StoreInv, LifecycleInv, NEW j \in Jobs, NEW recurring \in BOOLEAN, NEW due \in BOOLEAN,
           UpdateJob(j, recurring, due)
    PROVE  LifecycleInv'
<1>1. jobs \in [Jobs -> JobRow] /\ runs \in [Runs -> RunRow] BY DEF StoreInv, StoreType
<1>2. /\ jobs[j].state \in Open
      /\ jobs' = [jobs EXCEPT ![j].recurring = recurring, ![j].def = @ + 1]
      /\ runs' = Refreshed(j, recurring, due)
      /\ \E r \in Runs : runs[r].state \in LiveStates /\ runs[r].job = j /\ ~runs[r].manual
  BY DEF UpdateJob, Open, ScheduleOwned, LiveRuns
<1>3. /\ jobs'[j].state = jobs[j].state /\ jobs'[j].queue = jobs[j].queue
      /\ jobs'[j].def = jobs[j].def + 1
      /\ \A x \in Jobs : x # j => jobs'[x] = jobs[x]
  BY <1>1, <1>2 DEF JobRow
<1>4. \A x \in Runs : /\ runs'[x].state = runs[x].state /\ runs'[x].job = runs[x].job
                      /\ runs'[x].manual = runs[x].manual /\ runs'[x].queue = runs[x].queue
  BY <1>1, <1>2 DEF Refreshed, RunRow
<1>5. \A x \in Runs : runs[x].state = "scheduled" /\ runs[x].job = j /\ ~runs[x].manual =>
          runs'[x].def = jobs[j].def + 1
  BY <1>1, <1>2 DEF Refreshed, ScheduleOwned, LiveRuns, LiveStates, RunRow
<1>6. \A x \in Runs : runs[x].job # j => runs'[x] = runs[x]
  BY <1>1, <1>2 DEF Refreshed, ScheduleOwned, LiveRuns
<1>7. \A x \in Runs : runs[x].state \in LiveStates => runs[x].job \in Jobs
  BY DEF StoreInv, RowsHaveOwners, LiveStates
<1>8. LiveRunsOwned'
  BY <1>3, <1>4, <1>7 DEF LifecycleInv, LiveRunsOwned
<1>9. LiveRunsUnique' /\ ManualExcludes'
  BY <1>4 DEF LifecycleInv, LiveRunsUnique, ManualExcludes
<1>10. RecurringHasRun'
  BY <1>2, <1>3, <1>4 DEF LifecycleInv, RecurringHasRun
<1>11. PlannedIsNewest'
  BY <1>3, <1>4, <1>5, <1>6, <1>7 DEF LifecycleInv, PlannedIsNewest, LiveStates
<1>12. AbsentIsPlain' BY <1>2, <1>3 DEF LifecycleInv, AbsentIsPlain, Open
<1> QED BY <1>8, <1>9, <1>10, <1>11, <1>12 DEF LifecycleInv

\* move_job: every live run goes where the job goes.
LEMMA MoveJobInv ==
    ASSUME StoreInv, LifecycleInv, NEW j \in Jobs, NEW q \in Queues, MoveJob(j, q)
    PROVE  LifecycleInv'
<1>1. jobs \in [Jobs -> JobRow] /\ runs \in [Runs -> RunRow] BY DEF StoreInv, StoreType
<1>2. jobs' = [jobs EXCEPT ![j].queue = q] /\ runs' = Moved(j, q)
  BY DEF MoveJob
<1>3. /\ jobs'[j].queue = q
      /\ \A x \in Jobs : /\ jobs'[x].state = jobs[x].state /\ jobs'[x].def = jobs[x].def
                         /\ jobs'[x].recurring = jobs[x].recurring
                         /\ x # j => jobs'[x] = jobs[x]
  BY <1>1, <1>2 DEF JobRow
<1>4. \A x \in Runs : /\ runs'[x].state = runs[x].state /\ runs'[x].job = runs[x].job
                      /\ runs'[x].manual = runs[x].manual /\ runs'[x].def = runs[x].def
  BY <1>1, <1>2 DEF Moved, RunRow
<1>5. \A x \in Runs : IF runs[x].state \in LiveStates /\ runs[x].job = j
                      THEN runs'[x].queue = q ELSE runs'[x] = runs[x]
  BY <1>1, <1>2 DEF Moved, LiveRuns, RunRow
<1>6. \A x \in Runs : runs[x].state \in LiveStates => runs[x].job \in Jobs
  BY DEF StoreInv, RowsHaveOwners, LiveStates
<1>7. LiveRunsOwned'
  BY <1>3, <1>4, <1>5, <1>6 DEF LifecycleInv, LiveRunsOwned
<1>8. LiveRunsUnique' /\ ManualExcludes'
  BY <1>4 DEF LifecycleInv, LiveRunsUnique, ManualExcludes
<1>9. RecurringHasRun'
  BY <1>3, <1>4 DEF LifecycleInv, RecurringHasRun
<1>10. PlannedIsNewest'
  BY <1>3, <1>4, <1>6 DEF LifecycleInv, PlannedIsNewest, LiveStates
<1>11. AbsentIsPlain' BY <1>3 DEF LifecycleInv, AbsentIsPlain
<1> QED BY <1>7, <1>8, <1>9, <1>10, <1>11 DEF LifecycleInv

\* Deletion: the jobs in D go with all their live runs, the ones in S, and
\* nothing else changes.
Deletes(D, S) ==
    /\ runs' = CancelPending(S)
    /\ \A x \in Jobs : IF x \in D THEN jobs'[x].state = "deleted" ELSE jobs'[x] = jobs[x]
    /\ \A x \in Runs : runs[x].state \in LiveStates =>
           (runs[x].job \in D <=> x \in S) /\ (x \in S => runs[x].state # "running")

\* Deletion preserves the invariant.
LEMMA DeletedInv ==
    ASSUME StoreInv, LifecycleInv, NEW D, NEW S, Deletes(D, S)
    PROVE  LifecycleInv'
<1> USE DEF Deletes
<1>1. runs \in [Runs -> RunRow] BY DEF StoreInv, StoreType
<1>2. \A x \in Runs : runs'[x].state \in LiveStates =>
          runs'[x] = runs[x] /\ runs[x].job \in Jobs /\ runs[x].job \notin D
  <2>1. SUFFICES ASSUME NEW x \in Runs, runs'[x].state \in LiveStates
                 PROVE  runs'[x] = runs[x] /\ runs[x].job \in Jobs /\ runs[x].job \notin D
    OBVIOUS
  <2>2. runs'[x] = runs[x] BY <1>1, <2>1 DEF CancelPending, RunRow, LiveStates
  <2>3. x \notin S BY <1>1, <2>1, <2>2 DEF CancelPending, RunRow, LiveStates
  <2> QED BY <2>1, <2>2, <2>3 DEF StoreInv, RowsHaveOwners, LiveStates
<1>3. \A x \in Runs : runs[x].state \in LiveStates /\ runs[x].job \notin D => runs'[x] = runs[x]
  BY <1>1 DEF CancelPending
<1>4. LiveRunsOwned' BY <1>2 DEF LifecycleInv, LiveRunsOwned
<1>5. LiveRunsUnique' BY <1>2 DEF LifecycleInv, LiveRunsUnique
<1>6. RecurringHasRun'
  <2>1. ASSUME NEW j \in Jobs, jobs'[j].recurring, jobs'[j].state \notin Gone
        PROVE  \E r \in Runs : runs'[r].state \in LiveStates /\ runs'[r].job = j /\ ~runs'[r].manual
    <3>1. j \notin D /\ jobs'[j] = jobs[j] BY <2>1 DEF Gone
    <3>2. PICK r \in Runs : runs[r].state \in LiveStates /\ runs[r].job = j /\ ~runs[r].manual
      BY <2>1, <3>1 DEF LifecycleInv, RecurringHasRun
    <3> QED BY <1>3, <3>1, <3>2
  <2> QED BY <2>1 DEF RecurringHasRun
<1>7. ManualExcludes' BY <1>2 DEF LifecycleInv, ManualExcludes
<1>8. PlannedIsNewest' BY <1>2 DEF LifecycleInv, PlannedIsNewest, LiveStates
<1>9. AbsentIsPlain' BY DEF LifecycleInv, AbsentIsPlain
<1> QED BY <1>4, <1>5, <1>6, <1>7, <1>8, <1>9 DEF LifecycleInv

\* delete_job.
LEMMA DeleteJobInv ==
    ASSUME StoreInv, LifecycleInv, NEW j \in Jobs, DeleteJob(j)
    PROVE  LifecycleInv'
<1> DEFINE S == {r \in Runs : runs[r].job = j}
<1>1. \A x \in Jobs : IF x \in {j} THEN jobs'[x].state = "deleted" ELSE jobs'[x] = jobs[x]
  BY DEF DeleteJob, StoreInv, StoreType, JobRow
<1>2. \A x \in Runs : runs[x].state \in LiveStates =>
          (runs[x].job \in {j} <=> x \in S) /\ (x \in S => runs[x].state # "running")
  BY DEF DeleteJob, RunningInJob
<1>3. runs' = CancelPending(S) BY DEF DeleteJob
<1>4. Deletes({j}, S) BY <1>1, <1>2, <1>3 DEF Deletes
<1> HIDE DEF S
<1> QED BY <1>4, DeletedInv

\* delete_queue.
LEMMA DeleteQueueInv ==
    ASSUME StoreInv, LifecycleInv, NEW q \in Queues, DeleteQueue(q)
    PROVE  LifecycleInv'
<1> DEFINE S == {r \in Runs : runs[r].queue = q}
           D == {j \in Jobs : jobs[j].queue = q}
<1>1. \A x \in Jobs : IF x \in D THEN jobs'[x].state = "deleted" ELSE jobs'[x] = jobs[x]
  BY DEF DeleteQueue, StoreInv, StoreType, JobRow
<1>2. \A x \in Runs : runs[x].state \in LiveStates =>
          (runs[x].job \in D <=> x \in S) /\ (x \in S => runs[x].state # "running")
  BY DEF DeleteQueue, RunningInQueue, LifecycleInv, LiveRunsOwned, StoreInv, RowsHaveOwners, LiveStates
<1>3. runs' = CancelPending(S) BY DEF DeleteQueue
<1>4. Deletes(D, S) BY <1>1, <1>2, <1>3 DEF Deletes
<1> HIDE DEF S, D
<1> QED BY <1>4, DeletedInv

\* The requests and retention steps that the invariant hardly notices.
LEMMA StoreStepLifecycle ==
    ASSUME StoreInv, LifecycleInv, StoreStep
    PROVE  LifecycleInv'
<1>0. jobs \in [Jobs -> JobRow] /\ runs \in [Runs -> RunRow] BY DEF StoreInv, StoreType
<1>1. ASSUME jobs' = jobs, runs' = runs PROVE LifecycleInv'
  BY <1>1, KeptInv, SameJobsKept, SameRunsKept
<1>2. ASSUME NEW q \in Queues, QueueRequest(q) PROVE LifecycleInv'
  BY <1>1, <1>2, DeleteQueueInv
     DEF QueueRequest, CreateQueue, UpdateQueue, SuspendQueue, ResumeQueue
<1>3. ASSUME NEW j \in Jobs, SuspendJob(j) PROVE LifecycleInv'
  <2> DEFINE js == [jobs EXCEPT ![j].state = "suspending"]
  <2>1. js \in [Jobs -> JobRow] BY <1>0 DEF JobRow, JobStates
  <2>2. \A x \in Jobs : /\ js[x].queue = jobs[x].queue /\ js[x].def = jobs[x].def
                        /\ js[x].recurring = jobs[x].recurring
                        /\ x # j => js[x] = jobs[x]
                        /\ x = j => js[x].state \in Open /\ jobs[x].state \in Open
    BY <1>0, <1>3 DEF SuspendJob, JobRow, Open
  <2>3. jobs' = DrainJob(js, runs, j) /\ runs' = runs BY <1>3 DEF SuspendJob
  <2> HIDE DEF js
  <2>4. \A x \in Jobs : /\ jobs'[x].queue = js[x].queue /\ jobs'[x].def = js[x].def
                        /\ jobs'[x].recurring = js[x].recurring
                        /\ x # j => jobs'[x] = js[x]
                        /\ x = j => jobs'[x].state \in {js[x].state, "suspended"}
    BY <2>1, <2>3 DEF DrainJob, JobRow
  <2>5. JobsKept BY <2>2, <2>4 DEF JobsKept, Open, Gone
  <2> QED BY <2>3, <2>5, KeptInv, SameRunsKept
<1>4. ASSUME NEW j \in Jobs, ResumeJob(j) PROVE LifecycleInv'
  <2>1. JobsKept BY <1>0, <1>4 DEF ResumeJob, JobsKept, JobRow, Open, Gone
  <2> QED BY <1>4, <2>1, KeptInv, SameRunsKept DEF ResumeJob
<1>5. ASSUME NEW j \in Jobs, JobRequest(j) PROVE LifecycleInv'
  BY <1>3, <1>4, <1>5, CreateJobInv, UpdateJobInv, MoveJobInv, DeleteJobInv, RunNowInv
     DEF JobRequest
<1>6. CASE RetentionStep
  <2>1. ASSUME NEW r \in Runs, PurgeRun(r) PROVE LifecycleInv'
    <3>1. RunsKept
      BY <1>0, <2>1 DEF PurgeRun, RunsKept, NoRunRow, TerminalRunStates, LiveStates
    <3> QED BY <2>1, <3>1, KeptInv, SameJobsKept DEF PurgeRun
  <2>2. ASSUME NEW j \in Jobs, PurgeJob(j) PROVE LifecycleInv'
    <3>1. JobsKept
      BY <1>0, <2>2 DEF PurgeJob, JobsKept, NoJobRow, Gone, Open
    <3> QED BY <2>2, <3>1, KeptInv, SameRunsKept DEF PurgeJob
  <2> QED BY <1>1, <1>6, <2>1, <2>2 DEF RetentionStep, PurgeQueue
<1> QED BY <1>2, <1>5, <1>6 DEF StoreStep

-----------------------------------------------------------------------------
(* The scheduler and recovery.                                             *)

\* What EndRun does to the jobs: a job that stops being open is one-time and
\* has no live run left.
EndRunJobs ==
    \A x \in Jobs :
        /\ jobs'[x].queue = jobs[x].queue /\ jobs'[x].def = jobs[x].def
        /\ jobs'[x].recurring = jobs[x].recurring
        /\ jobs'[x].state \in Gone => jobs[x].state = jobs'[x].state
        /\ jobs[x].state \in Gone => jobs'[x].state \in Gone \/ ~jobs[x].recurring
        /\ jobs[x].state \in Open /\ jobs'[x].state \notin Open => LiveRuns(runs', x) = {}

\* EndRun writes jobs that way.
LEMMA EndRunJobsHold ==
    ASSUME StoreInv, NEW r \in Runs, NEW outcome \in TerminalRunStates, NEW s \in SuccessorIds(r),
           runs[r].state \in LiveStates, EndRun(r, outcome, s)
    PROVE  EndRunJobs
<1> DEFINE j == runs[r].job
           js == FinishJob(jobs, runs', r)
<1>1. jobs \in [Jobs -> JobRow] /\ runs[r] \in RunRow /\ j \in Jobs
  BY DEF StoreInv, StoreType, RowsHaveOwners, LiveStates
<1>2. EndRunRows(r, outcome, s) BY EndRunWrites
<1>3. runs'[r].job = j /\ runs'[r].state = outcome
  BY <1>1, <1>2 DEF EndRunRows, RunRow
<1>4. TerminalJobState(outcome) \notin Gone /\ TerminalJobState(outcome) \in JobStates
  BY DEF TerminalJobState, Gone, TerminalRunStates, JobStates, TerminalJobStates
<1>5. js = jobs \/ (/\ ~jobs[j].recurring /\ LiveRuns(runs', j) = {}
                    /\ js = [jobs EXCEPT ![j].state = TerminalJobState(outcome)])
  BY <1>3 DEF FinishJob
<1> HIDE DEF js
<1>6. js \in [Jobs -> JobRow] BY <1>1, <1>4, <1>5 DEF JobRow
<1>7. \A x \in Jobs : /\ js[x].queue = jobs[x].queue /\ js[x].def = jobs[x].def
                      /\ js[x].recurring = jobs[x].recurring
                      /\ \/ js[x].state = jobs[x].state
                         \/ /\ js[x].state \notin Gone /\ ~jobs[x].recurring
                            /\ LiveRuns(runs', x) = {}
  BY <1>1, <1>4, <1>5 DEF JobRow
<1>8. jobs' = DrainJob(js, runs', j) BY DEF EndRun, js
<1>9. \A x \in Jobs : /\ jobs'[x].queue = js[x].queue /\ jobs'[x].def = js[x].def
                      /\ jobs'[x].recurring = js[x].recurring
                      /\ \/ jobs'[x].state = js[x].state
                         \/ js[x].state = "suspending" /\ jobs'[x].state = "suspended"
  BY <1>6, <1>8 DEF DrainJob, JobRow
<1> QED BY <1>7, <1>9 DEF EndRunJobs, Open, Gone

\* Ending a live run: its successor, if it needs one, takes its place.
LEMMA EndRunInv ==
    ASSUME StoreInv, LifecycleInv, NEW r \in Runs, NEW outcome \in TerminalRunStates,
           NEW s \in SuccessorIds(r), runs[r].state \in LiveStates, EndRun(r, outcome, s)
    PROVE  LifecycleInv'
<1> DEFINE j == runs[r].job
           new == ScheduledRun(jobs[j], j, FALSE)
<1>1. /\ jobs \in [Jobs -> JobRow] /\ runs[r] \in RunRow /\ j \in Jobs
      /\ jobs[j].state \in Open
      /\ \A x \in Runs : runs[x].state \in LiveStates => runs[x].job \in Jobs
  BY DEF StoreInv, StoreType, RowsHaveOwners, LiveStates, LifecycleInv, LiveRunsOwned
<1>2. EndRunRows(r, outcome, s) BY EndRunWrites
<1>3. EndRunJobs BY EndRunJobsHold
<1>4. /\ runs'[r].state \notin LiveStates
      /\ NeedsSuccessor(r) => /\ s \in Runs /\ runs[s].state = "absent" /\ runs'[s] = new
                              /\ ~runs[r].manual
      /\ \A x \in Runs : x # r /\ (NeedsSuccessor(r) => x # s) => runs'[x] = runs[x]
  BY <1>1, <1>2 DEF EndRunRows, RunRow, LiveStates, TerminalRunStates, NeedsSuccessor
<1>5. /\ new.state = "scheduled" /\ new.job = j /\ new.queue = jobs[j].queue /\ ~new.manual
      /\ new.def = jobs[j].def
  BY DEF ScheduledRun
<1> HIDE DEF new
<1>6. \A x \in Runs : runs'[x].state \in LiveStates =>
          \/ x # r /\ runs'[x] = runs[x]
          \/ NeedsSuccessor(r) /\ x = s /\ runs'[x] = new
  BY <1>4
<1>7. LiveRunsOwned'
  <2>1. SUFFICES ASSUME NEW x \in Runs, runs'[x].state \in LiveStates
                 PROVE  /\ jobs'[runs'[x].job].state \in Open
                        /\ runs'[x].queue = jobs'[runs'[x].job].queue
    BY DEF LiveRunsOwned
  <2> DEFINE k == runs'[x].job
  <2>2. k \in Jobs /\ jobs[k].state \in Open /\ runs'[x].queue = jobs[k].queue
    BY <1>1, <1>5, <1>6, <2>1 DEF LifecycleInv, LiveRunsOwned
  <2>3. x \in LiveRuns(runs', k) BY <2>1 DEF LiveRuns
  <2> QED BY <1>3, <2>2, <2>3 DEF EndRunJobs
<1>8. LiveRunsUnique'
  <2>1. SUFFICES ASSUME NEW x \in Runs, NEW y \in Runs,
                        runs'[x].state \in LiveStates, runs'[y].state \in LiveStates,
                        runs'[x].job = runs'[y].job, runs'[x].manual = runs'[y].manual
                 PROVE  x = y
    BY DEF LiveRunsUnique
  <2>2. NeedsSuccessor(r) => runs[r].manual = new.manual
    BY <1>1, <1>4 DEF RunRow, new, ScheduledRun
  <2>3. \A z \in Runs : runs[z].state \in LiveStates /\ z # r /\ runs[z].job = j
                            => runs[z].manual # runs[r].manual
    BY DEF LifecycleInv, LiveRunsUnique
  <2>4. CASE runs'[x] = runs[x] /\ runs'[y] = runs[y]
    BY <2>1, <2>4 DEF LifecycleInv, LiveRunsUnique
  <2>5. CASE x # r /\ runs'[x] = runs[x] /\ NeedsSuccessor(r) /\ y = s /\ runs'[y] = new
    BY <1>5, <2>1, <2>2, <2>3, <2>5
  <2>6. CASE y # r /\ runs'[y] = runs[y] /\ NeedsSuccessor(r) /\ x = s /\ runs'[x] = new
    BY <1>5, <2>1, <2>2, <2>3, <2>6
  <2> QED BY <1>6, <2>1, <2>4, <2>5, <2>6
<1>9. RecurringHasRun'
  <2>1. SUFFICES ASSUME NEW k \in Jobs, jobs'[k].recurring, jobs'[k].state \notin Gone
                 PROVE  \E x \in Runs : runs'[x].state \in LiveStates /\ runs'[x].job = k
                                        /\ ~runs'[x].manual
    BY DEF RecurringHasRun
  <2>2. jobs[k].recurring /\ jobs[k].state \notin Gone
    BY <1>3, <2>1 DEF EndRunJobs
  <2>3. PICK x \in Runs : runs[x].state \in LiveStates /\ runs[x].job = k /\ ~runs[x].manual
    BY <2>2 DEF LifecycleInv, RecurringHasRun
  <2>4. CASE x = r
    <3>1. NeedsSuccessor(r)
      BY <1>1, <2>2, <2>3, <2>4 DEF NeedsSuccessor, Gone
    <3> QED BY <1>4, <1>5, <2>3, <2>4, <3>1 DEF LiveStates
  <2>5. CASE x # r
    <3>1. runs'[x] = runs[x] BY <1>4, <2>3, <2>5 DEF LiveStates
    <3> QED BY <2>3, <3>1
  <2> QED BY <2>4, <2>5
<1>10. ManualExcludes'
  BY <1>5, <1>6 DEF LifecycleInv, ManualExcludes
<1>11. PlannedIsNewest'
  BY <1>1, <1>3, <1>5, <1>6 DEF LifecycleInv, PlannedIsNewest, EndRunJobs, LiveStates
<1>12. AbsentIsPlain' BY <1>3 DEF LifecycleInv, AbsentIsPlain, EndRunJobs, Gone
<1> QED BY <1>7, <1>8, <1>9, <1>10, <1>11, <1>12 DEF LifecycleInv

\* A running run that waits for its next attempt is as live as before.
LEMMA RetryRunInv ==
    ASSUME StoreInv, LifecycleInv, NEW r \in Runs, NEW due \in BOOLEAN,
           runs[r].state = "running", RetryRun(r, due)
    PROVE  LifecycleInv'
<1>1. runs \in [Runs -> RunRow] BY DEF StoreInv, StoreType
<1>2. runs' = [runs EXCEPT ![r].state = "retry_wait", ![r].due = due]
      /\ jobs' = DrainJob(jobs, runs', runs[r].job)
  BY DEF RetryRun
<1>3. RunsKept BY <1>1, <1>2 DEF RunsKept, RunRow, LiveStates
<1>4. JobsKept BY <1>2, DrainJobKept
<1> QED BY <1>3, <1>4, KeptInv

\* Admission: a schedule-owned run only starts without a manual barrier.
LEMMA DispatchLifecycle ==
    ASSUME StoreInv, LifecycleInv, NEW r \in Runs, Dispatch(r)
    PROVE  LifecycleInv'
<1>1. runs \in [Runs -> RunRow] BY DEF StoreInv, StoreType
<1>2. /\ runs[r].state \in LiveStates /\ runs' = [runs EXCEPT ![r].state = "running"]
      /\ jobs' = jobs
      /\ ~runs[r].manual => \A m \in Runs :
             ~(runs[m].job = runs[r].job /\ runs[m].state \in LiveStates /\ runs[m].manual)
  BY DEF Dispatch, EligibleOwners, ManualBarrier, LiveRuns, LiveStates
<1>3. /\ \A x \in Runs : /\ runs'[x].job = runs[x].job /\ runs'[x].manual = runs[x].manual
                         /\ runs'[x].queue = runs[x].queue /\ runs'[x].def = runs[x].def
                         /\ runs'[x].state \in LiveStates <=> runs[x].state \in LiveStates
                         /\ x # r => runs'[x] = runs[x]
      /\ runs'[r].state = "running"
  BY <1>1, <1>2 DEF RunRow, LiveStates
<1>4. LiveRunsOwned' BY <1>2, <1>3 DEF LifecycleInv, LiveRunsOwned
<1>5. LiveRunsUnique' BY <1>3 DEF LifecycleInv, LiveRunsUnique
<1>6. RecurringHasRun' BY <1>2, <1>3 DEF LifecycleInv, RecurringHasRun
<1>7. ManualExcludes' BY <1>2, <1>3 DEF LifecycleInv, ManualExcludes
<1>8. PlannedIsNewest' BY <1>2, <1>3 DEF LifecycleInv, PlannedIsNewest
<1>9. AbsentIsPlain' BY <1>2 DEF LifecycleInv, AbsentIsPlain
<1> QED BY <1>4, <1>5, <1>6, <1>7, <1>8, <1>9 DEF LifecycleInv

\* recover_job only completes the suspension: RecurringHasRun leaves nothing
\* for repair_missing_successor to do in a database this program wrote.
LEMMA RecoverJobInv ==
    ASSUME StoreInv, LifecycleInv, NEW j \in Jobs, NEW s, RecoverJob(j, s)
    PROVE  LifecycleInv'
<1>1. JobsKept BY DrainJobKept DEF RecoverJob
<1>2. ~MissingSuccessor(j)
  BY DEF MissingSuccessor, ScheduleOwned, LiveRuns, LifecycleInv, AbsentIsPlain,
         RecurringHasRun, Gone
<1> QED BY <1>1, <1>2, KeptInv, SameRunsKept DEF RecoverJob

\* Every step of the daemon preserves the invariant.
LEMMA NextLifecycle ==
    ASSUME ExecutionInv, LifecycleInv, [Next]_vars
    PROVE  LifecycleInv'
<1>0. StoreInv /\ jobs \in [Jobs -> JobRow] /\ runs \in [Runs -> RunRow]
  BY DEF ExecutionInv, TypeOK, StoreInv, StoreType
<1>1. ASSUME jobs' = jobs, runs' = runs PROVE LifecycleInv'
  BY <1>0, <1>1, KeptInv, SameJobsKept, SameRunsKept
<1>2. CASE StoreStep BY <1>0, <1>2, StoreStepLifecycle
<1>3. ASSUME NEW r \in Runs, BecomeDue(r) PROVE LifecycleInv'
  <2>1. RunsKept BY <1>0, <1>3 DEF BecomeDue, RunsKept, RunRow
  <2> QED BY <1>0, <1>3, <2>1, KeptInv, SameJobsKept DEF BecomeDue
<1>4. CASE SchedulerStep
  <2>1. PICK r \in Runs : DispatchStep(r) \/ Launch(r) \/ Completion(r) \/ CancelRequest(r)
    BY <1>4 DEF SchedulerStep
  <2>2. CASE DispatchStep(r) BY <1>0, <2>2, DispatchLifecycle DEF DispatchStep
  <2>3. CASE StartAccepted(r) \/ RequestCancel(r)
    BY <1>1, <2>3 DEF StartAccepted, RequestCancel, store
  <2>4. ASSUME NEW s \in SuccessorIds(r), StartRefused(r, s) PROVE LifecycleInv'
    <3>1. runs[r].state \in LiveStates /\ "failed" \in TerminalRunStates
      BY <2>4 DEF StartRefused, ExecutionInv, MemoryMatchesRows, LiveStates, TerminalRunStates
    <3> QED BY <1>0, <2>4, <3>1, EndRunInv DEF StartRefused
  <2>5. CASE Completion(r)
    <3>1. PICK outcome \in {"succeeded", "failed", "cancelled"}, retryable \in BOOLEAN,
               due \in BOOLEAN, s \in SuccessorIds(r) :
               Complete(r, active[r], outcome, retryable, due, s)
      BY <2>5 DEF Completion
    <3> DEFINE effective == EffectiveOutcome(r, outcome)
    <3>2. effective \in TerminalRunStates BY DEF EffectiveOutcome, TerminalRunStates
    <3>3. <<r, active[r]>> \in executing BY <3>1 DEF Complete
    <3>4. active[r] # 0 BY <3>3 DEF ExecutionInv, ExecutorsMatchMemory
    <3>5. runs[r].state = "running" /\ runs[r].state \in LiveStates
      BY <3>4 DEF ExecutionInv, MemoryMatchesRows, LiveStates
    <3>6. EndRun(r, effective, s) \/ RetryRun(r, due) BY <3>1 DEF Complete
    <3> HIDE DEF effective
    <3> QED BY <1>0, <3>2, <3>5, <3>6, EndRunInv, RetryRunInv
  <2>6. ASSUME NEW s \in SuccessorIds(r), CancelPendingRun(r, s) PROVE LifecycleInv'
    <3>1. runs[r].state \in LiveStates /\ "cancelled" \in TerminalRunStates
      BY <2>6 DEF CancelPendingRun, LiveStates, TerminalRunStates
    <3> QED BY <1>0, <2>6, <3>1, EndRunInv DEF CancelPendingRun
  <2> QED BY <2>1, <2>2, <2>3, <2>4, <2>5, <2>6 DEF Launch, CancelRequest
<1>5. CASE RecoveryStep
  <2>1. ASSUME NEW r \in Runs, NEW due \in BOOLEAN, NEW s \in SuccessorIds(r), RecoverRun(r, due, s)
        PROVE  LifecycleInv'
    <3>1. runs[r].state = "running"
      BY <2>1 DEF RecoverRun, ExecutionInv, RecoveryIsAlone
    <3>2. runs[r].state \in LiveStates /\ "interrupted" \in TerminalRunStates
      BY <3>1 DEF LiveStates, TerminalRunStates
    <3>3. EndRun(r, "interrupted", s) \/ RetryRun(r, due) BY <2>1 DEF RecoverRun
    <3> QED BY <1>0, <3>1, <3>2, <3>3, EndRunInv, RetryRunInv
  <2>2. CASE Validate \/ RunsRecovered \/ JobsRecovered \/ QueuesRecovered
    BY <1>1, <2>2 DEF Validate, RunsRecovered, JobsRecovered, QueuesRecovered, store
  <2>3. ASSUME NEW q \in Queues, RecoverQueue(q) PROVE LifecycleInv'
    BY <1>1, <2>3 DEF RecoverQueue
  <2> QED BY <1>0, <1>5, <2>1, <2>2, <2>3, RecoverJobInv DEF RecoveryStep
<1>6. CASE Start \/ Serve \/ Stop \/ Crash
  BY <1>1, <1>6 DEF Start, Serve, Stop, Crash, store
<1>7. ASSUME NEW r \in Runs, DropCompletion(r) PROVE LifecycleInv'
  BY <1>1, <1>7 DEF DropCompletion, store
<1>8. CASE UNCHANGED vars BY <1>1, <1>8 DEF vars, store
<1> QED BY <1>2, <1>3, <1>4, <1>5, <1>6, <1>7, <1>8 DEF Next

-----------------------------------------------------------------------------
(* The theorems.                                                           *)

\* The invariant holds in every reachable state.
THEOREM LifecycleInvariance == Spec => []LifecycleInv
<1>1. Init => LifecycleInv
  BY DEF Init, StoreInit, LifecycleInv, LiveRunsOwned, LiveRunsUnique, AbsentIsPlain,
         RecurringHasRun, ManualExcludes, PlannedIsNewest, NoRunRow, NoJobRow, LiveStates, Gone
<1>2. ExecutionInv /\ LifecycleInv /\ [Next]_vars => LifecycleInv'
  BY NextLifecycle
<1> QED BY <1>1, <1>2, ExecutionInvariance, PTL DEF Spec

\* A recurring job has exactly one live schedule-owned run, through every
\* completion, cancellation, suspension, update, move, crash and recovery.
THEOREM OneRecurringRun == Spec => []RecurringHasOneRun
<1>1. ExecutionInv /\ LifecycleInv => RecurringHasOneRun
  <2> SUFFICES ASSUME ExecutionInv, LifecycleInv, NEW j \in Jobs, jobs[j].recurring,
                      jobs[j].state \notin {"absent", "deleted"}
               PROVE  \E r \in Runs : ScheduleOwned(runs, j) = {r}
    BY DEF RecurringHasOneRun
  <2>1. PICK r \in Runs : runs[r].state \in LiveStates /\ runs[r].job = j /\ ~runs[r].manual
    BY DEF LifecycleInv, RecurringHasRun, Gone
  <2>2. \A x \in Runs : runs[x].manual \in BOOLEAN
    BY DEF ExecutionInv, TypeOK, StoreType, RunRow
  <2>3. \A x \in Runs : runs[x].state \in LiveStates /\ runs[x].job = j /\ ~runs[x].manual => x = r
    BY <2>1, <2>2 DEF LifecycleInv, LiveRunsUnique
  <2>4. ScheduleOwned(runs, j) = {r}
    BY <2>1, <2>3 DEF ScheduleOwned, LiveRuns
  <2> QED BY <2>4
<1> QED BY <1>1, ExecutionInvariance, LifecycleInvariance, PTL

\* Run Now never overlaps scheduled work of the same job.
THEOREM ManualRunAlone == Spec => []ManualRunIsAlone
<1>1. LifecycleInv => ManualRunIsAlone
  BY DEF LifecycleInv, ManualExcludes, ManualRunIsAlone, ManualBarrier, ScheduleOwned, LiveRuns
<1> QED BY <1>1, LifecycleInvariance, PTL

\* Live runs are always in the queue of their job.
THEOREM LiveRunsFollow == Spec => []LiveRunsFollowJob
<1>1. LifecycleInv => LiveRunsFollowJob
  BY DEF LifecycleInv, LiveRunsOwned, LiveRunsFollowJob, LiveRuns
<1> QED BY <1>1, LifecycleInvariance, PTL

\* A planned run carries the newest definition of its job.
THEOREM FreshPlans == Spec => []PlannedRunIsFresh
<1>1. LifecycleInv => PlannedRunIsFresh
  BY DEF LifecycleInv, PlannedIsNewest, PlannedRunIsFresh, ScheduleOwned, LiveRuns
<1> QED BY <1>1, LifecycleInvariance, PTL

\* The live runs of every job are those its definition calls for.
THEOREM FittingRuns == Spec => []RunsFitJob
<1>1. RecurringHasOneRun /\ PlannedRunIsFresh /\ LiveRunsFollowJob /\ ManualRunIsAlone => RunsFitJob
  BY DEF RunsFitJob
<1> QED BY <1>1, OneRecurringRun, FreshPlans, LiveRunsFollow, ManualRunAlone, PTL

=============================================================================

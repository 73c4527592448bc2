--------------------------------- MODULE Jobu ---------------------------------
(***************************************************************************)
(* The daemon: management, scheduler, retention and recovery over one      *)
(* store, with crashes and restarts.                                       *)
(*                                                                         *)
(* All handlers run on one event-loop thread, so a handler is one step,    *)
(* except that a crash may hit between the durable start of an attempt and *)
(* the call to its executor (launching # None), and between two units of   *)
(* recovery.  A failed transaction latches the scheduler and stops the     *)
(* daemon: Stop, which leaves the store as the last commit left it.        *)
(***************************************************************************)
EXTENDS Management, Retention, Scheduler, Recovery

CONSTANT Requests   \* the RPC methods clients use in an instance

Methods == {"queue.create", "queue.update", "queue.suspend", "queue.delete",
            "job.create", "job.update", "job.suspend", "job.move", "job.delete",
            "job.run_now", "run.cancel"}

ASSUME RequestsAssumption == Requests \subseteq Methods

VARIABLE daemon

process == <<daemon, phase, pending>>
vars == <<store, memory, process>>

Init ==
    /\ StoreInit
    /\ MemoryCleared
    /\ daemon = "down"
    /\ phase = "idle"
    /\ pending = {}

\* Bound: every running run that will leave a successor can get an id for it.
RunIdsSuffice ==
    Cardinality(AbsentRuns)
        >= Cardinality({r \in Runs : runs[r].state = "running" /\ NeedsSuccessor(r)})

-----------------------------------------------------------------------------
(* Requests, retention and time.                                           *)

QueueRequest(q) ==
    \/ /\ "queue.create" \in Requests
       /\ \E limit \in 1..MaxLimit, retry \in BOOLEAN : CreateQueue(q, limit, retry)
    \/ /\ "queue.update" \in Requests
       /\ \E limit \in 1..MaxLimit, retry \in BOOLEAN : UpdateQueue(q, limit, retry)
    \/ "queue.suspend" \in Requests /\ (SuspendQueue(q) \/ ResumeQueue(q))
    \/ "queue.delete" \in Requests /\ DeleteQueue(q)

JobRequest(j) ==
    \/ /\ "job.create" \in Requests
       /\ \E q \in Queues, recurring, due \in BOOLEAN, r \in Runs :
              CreateJob(j, q, recurring, due, r)
    \/ /\ "job.update" \in Requests
       /\ \E recurring, due \in BOOLEAN : UpdateJob(j, recurring, due)
    \/ "job.suspend" \in Requests /\ (SuspendJob(j) \/ ResumeJob(j))
    \/ "job.move" \in Requests /\ \E q \in Queues : MoveJob(j, q)
    \/ "job.delete" \in Requests /\ DeleteJob(j)
    \/ "job.run_now" \in Requests /\ \E r \in Runs : RunNow(j, r)

RetentionStep ==
    \/ \E r \in Runs : PurgeRun(r)
    \/ \E j \in Jobs : PurgeJob(j)
    \/ \E q \in Queues : PurgeQueue(q)

\* Handlers that touch only the store.
StoreStep ==
    /\ daemon = "serving"
    /\ launching = None
    /\ \/ \E q \in Queues : QueueRequest(q)
       \/ \E j \in Jobs : JobRequest(j)
       \/ RetentionStep
    /\ RunIdsSuffice'
    /\ UNCHANGED <<memory, process>>

\* The wall clock reaches runnable_at, whatever the daemon is doing.
BecomeDue(r) ==
    /\ runs[r].state \in {"scheduled", "retry_wait"}
    /\ ~runs[r].due
    /\ runs' = [runs EXCEPT ![r].due = TRUE]
    /\ UNCHANGED <<queues, jobs, attempts, memory, process>>

-----------------------------------------------------------------------------
(* The scheduler.                                                          *)

DispatchStep(r) == Dispatch(r) /\ RunIdsSuffice'

Launch(r) == StartAccepted(r) \/ \E s \in SuccessorIds(r) : StartRefused(r, s)

Completion(r) ==
    \E n \in {active[r]}, outcome \in {"succeeded", "failed", "cancelled"},
       retryable, due \in BOOLEAN, s \in SuccessorIds(r) :
           Complete(r, n, outcome, retryable, due, s)

CancelRequest(r) ==
    /\ "run.cancel" \in Requests
    /\ \/ RequestCancel(r)
       \/ (\E s \in SuccessorIds(r) : CancelPendingRun(r, s)) /\ RunIdsSuffice'

SchedulerStep ==
    /\ daemon = "serving"
    /\ \E r \in Runs :
           DispatchStep(r) \/ Launch(r) \/ Completion(r) \/ CancelRequest(r)
    /\ UNCHANGED process

-----------------------------------------------------------------------------
(* The process.                                                            *)

Start ==
    /\ daemon = "down"
    /\ daemon' = "recovering"
    /\ phase' = "validate"
    /\ UNCHANGED <<store, memory, pending>>

RecoveryStep ==
    /\ daemon = "recovering"
    /\ \/ Validate
       \/ \E r \in Runs, due \in BOOLEAN : \E s \in SuccessorIds(r) : RecoverRun(r, due, s)
       \/ RunsRecovered
       \/ \E j \in Jobs : \E s \in IF MissingSuccessor(j) THEN AbsentRuns ELSE {None} :
              RecoverJob(j, s)
       \/ JobsRecovered
       \/ \E q \in Queues : RecoverQueue(q)
       \/ QueuesRecovered
    /\ UNCHANGED <<memory, daemon>>

\* Recovery's final validation, then Scheduler::start.
Serve ==
    /\ daemon = "recovering"
    /\ phase = "final"
    /\ daemon' = IF StoreRepaired THEN "serving" ELSE daemon
    /\ phase' = IF StoreRepaired THEN "idle" ELSE "refused"
    /\ UNCHANGED <<store, memory, pending>>

\* request_stop, or the failure latch of any service.
Stop ==
    /\ daemon = "serving"
    /\ daemon' = "stopping"
    /\ UNCHANGED <<store, memory, phase, pending>>

\* A completion that arrives after the scheduler was shut down is dropped.
DropCompletion(r) ==
    /\ daemon = "stopping"
    /\ \E n \in {active[r]} :
           /\ <<r, n>> \in executing
           /\ executing' = executing \ {<<r, n>>}
    /\ UNCHANGED <<store, active, cancelling, launching, process>>

\* The process ends: orderly or not, only the store survives.
Crash ==
    /\ daemon # "down"
    /\ daemon' = "down"
    /\ phase' = "idle"
    /\ pending' = {}
    /\ ClearMemory
    /\ UNCHANGED store

Next ==
    \/ StoreStep
    \/ \E r \in Runs : BecomeDue(r)
    \/ SchedulerStep
    \/ Start
    \/ RecoveryStep
    \/ Serve
    \/ Stop
    \/ \E r \in Runs : DropCompletion(r)
    \/ Crash

Spec == Init /\ [][Next]_vars

-----------------------------------------------------------------------------
(* Safety.                                                                 *)

TypeOK ==
    /\ StoreType
    /\ MemoryType
    /\ RecoveryType
    /\ daemon \in {"down", "recovering", "serving", "stopping"}

\* Whatever the daemon was doing when it died, the next start accepts the
\* database: no reachable store fails Recovery::validate(false).
RecoveryAccepts == StoreValid

\* Recovery leaves a store that its own final validation and Scheduler::start
\* accept, so a restart is never refused.
NeverRefused == phase # "refused"

\* A restart is never refused: whatever the daemon was doing when it died, the
\* next start accepts the store, and so does the validation after its repairs.
RestartIsAccepted ==
    RecoveryAccepts /\ NeverRefused

\* The executor holds only attempts whose running state is committed, and the
\* scheduler knows each one by its number: dispatch_selected commits before it
\* calls the executor, and completions never outlive their rows.
ExecutionIsDurable ==
    \A e \in executing :
        LET r == e[1] IN
        /\ active[r] = e[2]
        /\ runs[r].state = "running"
        /\ Len(attempts[r]) = e[2]

\* While the scheduler serves, a running row is owned: by the executor, or by
\* the dispatch in progress.  No run is stranded as running until a restart.
RunningIsOwned ==
    daemon = "serving" =>
        \A r \in Runs : runs[r].state = "running" =>
            launching = r \/ <<r, Len(attempts[r])>> \in executing

\* Store, scheduler and executor agree on what runs: nothing executes that is
\* not durably running, and nothing is durably running that nobody executes.
ExecutionMatchesStore ==
    ExecutionIsDurable /\ RunningIsOwned

\* A recurring job always has exactly one live schedule-owned run, through
\* completion, cancellation, suspension, update, move and recovery.
RecurringHasOneRun ==
    \A j \in Jobs :
        jobs[j].recurring /\ jobs[j].state \notin {"absent", "deleted"} =>
            \E r \in Runs : ScheduleOwned(runs, j) = {r}

\* Live work follows its definition: a job and its live runs never name
\* different queues, so capacity and suspension are counted where the job is.
LiveRunsFollowJob ==
    \A j \in Jobs : \A r \in LiveRuns(runs, j) : runs[r].queue = jobs[j].queue

\* A planned run that has not started carries the newest definition of its job.
PlannedRunIsFresh ==
    \A j \in Jobs : \A r \in ScheduleOwned(runs, j) :
        runs[r].state = "scheduled" => runs[r].def = jobs[j].def

\* Run Now never overlaps scheduled work: while a manual run is live, the
\* schedule-owned run of the job is neither running nor waiting for a retry.
ManualRunIsAlone ==
    \A j \in Jobs : ManualBarrier(runs, j) =>
        \A r \in ScheduleOwned(runs, j) : runs[r].state = "scheduled"

\* The live runs of a job are those its definition calls for: one planned run if
\* it recurs, of the newest definition, in the job's queue, and held back while
\* a manual run is live.
RunsFitJob ==
    /\ RecurringHasOneRun
    /\ PlannedRunIsFresh
    /\ LiveRunsFollowJob
    /\ ManualRunIsAlone

\* Queue suspension waits for exactly the running work: a suspending queue has
\* some (the last completion, cancellation or recovery unit moves it on), and a
\* suspended or deleted one has none.
QueueSuspensionIsExact ==
    \A q \in Queues :
        /\ queues[q].state = "suspending" => RunningInQueue(runs, q) # {}
        /\ queues[q].state \in {"suspended", "deleted"} => RunningInQueue(runs, q) = {}

\* The same for jobs: suspending waits for running work, and a suspended job
\* runs nothing but manual work.
JobSuspensionIsExact ==
    \A j \in Jobs :
        /\ jobs[j].state = "suspending" => RunningInJob(runs, j) # {}
        /\ jobs[j].state = "suspended" =>
               \A r \in RunningInJob(runs, j) : runs[r].manual

\* Suspension of queues and of jobs waits for exactly the running work, through
\* every order of requests, completions, crashes and repairs.
SuspensionIsExact ==
    QueueSuspensionIsExact /\ JobSuspensionIsExact

\* No more attempts run than the global limit of their type allows, also after
\* any number of restarts.
TypeWithinLimit ==
    \A t \in Types : Cardinality(RunningOfType(runs, t)) <= TypeLimit[t]

\* No run is attempted more often than retry.max_attempts, completions and
\* interruptions counted together.
AttemptsWithinLimit == \A r \in Runs : Len(attempts[r]) <= MaxAttempts

-----------------------------------------------------------------------------
(* Action properties.                                                      *)

Starts(r) == runs[r].state # "running" /\ runs'[r].state = "running"

OwnersKeepState ==
    /\ \A q \in Queues : queues'[q].state = queues[q].state
    /\ \A j \in Jobs : jobs'[j].state = jobs[j].state

\* A slot of a queue is taken only within its limit, running attempts and retained
\* blocking retries counted together: whatever was suspended, resumed, updated or
\* recovered before, no step but a resume, which gives waiting retries their slots
\* back, adds a slot above the limit.
AdmissionWithinLimit ==
    [][\A q \in Queues :
          (OwnersKeepState /\ QueueSlots(q)' \ QueueSlots(q) # {}) =>
              Cardinality(QueueSlots(q)') <= queues[q].limit]_vars

\* Neither the limit of a runner type nor that of a queue is exceeded by starting
\* an attempt or by keeping the slot of one that waits for its retry.
WithinLimits ==
    []TypeWithinLimit /\ AdmissionWithinLimit

\* No attempt starts while the running attempts of its queue use up the limit,
\* however the limit or the usage came about.
StartsWithinLimit ==
    [][\A r \in Runs : Starts(r) =>
          Cardinality(RunningInQueue(runs, runs[r].queue)) < queues[runs[r].queue].limit]_vars

CancelledRunsEnd ==
    \A r \in cancelling : runs'[r].state # "running" => runs'[r].state = "cancelled"

\* An accepted cancellation decides the run: the completion that ends it
\* records cancelled, never a success and never a retry.
CancellationIsHonoured == [][CancelledRunsEnd]_vars

FinishedRunsKept ==
    \A r \in Runs : runs[r].state \in TerminalRunStates =>
        \/ runs'[r] = runs[r] /\ attempts'[r] = attempts[r]
        \/ runs'[r] = NoRunRow /\ attempts'[r] = << >>

\* History is immutable: a finished run is never reopened or rewritten, only
\* purged as a whole.
HistoryIsImmutable == [][FinishedRunsKept]_vars

-----------------------------------------------------------------------------
(* Liveness.                                                               *)

\* The executor contract completes every accepted attempt, the event loop
\* finishes the cycle it is in, and recovery runs to its end.
Fairness ==
    /\ WF_vars(Start)
    /\ WF_vars(RecoveryStep \/ Serve)
    /\ \A r \in Runs :
           /\ WF_vars(daemon = "serving" /\ Launch(r) /\ UNCHANGED process)
           /\ WF_vars(daemon = "serving" /\ Completion(r) /\ UNCHANGED process)

FairSpec == Spec /\ Fairness

StaysUp == <>[](daemon = "serving")

\* A suspension request on a queue is not forgotten: unless the daemon keeps
\* dying, the queue leaves suspending.
QueueSuspensionEnds ==
    StaysUp => \A q \in Queues :
        queues[q].state = "suspending" ~> queues[q].state # "suspending"

\* An accepted cancellation of a running run ends with the run terminal,
\* unless the daemon stops first.
CancellationEnds ==
    \A r \in Runs :
        r \in cancelling ~> (runs[r].state \notin LiveStates \/ daemon # "serving")

\* A suspension and a cancellation that were accepted come to their end.
RequestsEnd ==
    QueueSuspensionEnds /\ CancellationEnds

=============================================================================

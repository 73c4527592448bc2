--------------------------- MODULE ReplayRetention ---------------------------
(***************************************************************************)
(* Idempotent creation and the retention sweep that retires its records.   *)
(* A keyed request leaves a row of jobu_idempotency behind, written in the *)
(* transaction that creates the resource; the row names the resource and   *)
(* the scope of the key.  The sweep visits the queues, then finished       *)
(* one-time jobs, deleted jobs and deleted queues, one bounded page per    *)
(* timer callback, and retires a row together with what it names.          *)
(*                                                                         *)
(* Ids are numbers, because pages follow the order of the ids, and an id   *)
(* is used once.  A run that is terminal when a sweep begins is old enough *)
(* for it.  The scheduler is reduced to runs that end (FinishRun).         *)
(***************************************************************************)
EXTENDS Management, Retention, FiniteSetsExt

CONSTANTS
    Keys,      \* client supplied idempotency keys
    NoKey,     \* a request without one
    BatchSize, \* options.batch_size
    MaxStops   \* bound on stops and restarts of the service

VARIABLES
    records,   \* rows of jobu_idempotency
    retired,   \* history: the rows the sweep has erased
    used,      \* history: the ids handed out
    service,   \* RetentionService::Private: activation, timer, sweep_now, cursor
    stops

replay == <<records, retired, used, service, stops>>
replayVars == <<queues, jobs, runs, attempts, records, retired, used, service, stops>>

Methods == {"queue.create", "job.create", "job.run_now"}
Phases == <<"History", "OnceKeys", "DeletedJobs", "DeletedQueues">>
NilScope == 0

\* RetentionService::Private::stop: no activation, no timer, no sweep.
Idle == [on |-> FALSE, armed |-> FALSE, failed |-> FALSE,
         sweeping |-> FALSE, old |-> {}, phase |-> 1, after |-> 0]

ReplayInit ==
    /\ StoreInit
    /\ records = {}
    /\ retired = {}
    /\ used = {}
    /\ service = [Idle EXCEPT !.on = TRUE, !.armed = TRUE]
    /\ stops = 0

-----------------------------------------------------------------------------
(* Keyed requests.                                                         *)

\* IdempotencyRepository::find.
Find(method, scope, key) ==
    {x \in records : x.method = method /\ x.scope = scope /\ x.key = key}

\* IdempotencyRepository::insert, for a request that carries a key.
Recorded(method, scope, key, resource) ==
    IF key = NoKey THEN records
    ELSE records \cup {[method |-> method, scope |-> scope, key |-> key, resource |-> resource]}

\* The ids a new row may get.  The order of the ids matters to the pages of
\* queues; jobs and runs get the next one.
Fresh(kind, ids) ==
    LET free == {i \in ids : <<kind, i>> \notin used} IN
    IF kind = "queue" \/ free = {} THEN free ELSE {Min(free)}

\* create_queue_impl: a key that is known replays its result and changes nothing.
KeyedCreateQueue(q, key) ==
    /\ q \in Fresh("queue", Queues)
    /\ Find("queue.create", NilScope, key) = {}
    /\ CreateQueue(q, 1, FALSE)
    /\ records' = Recorded("queue.create", NilScope, key, q)
    /\ used' = used \cup {<<"queue", q>>}
    /\ UNCHANGED <<retired, service, stops>>

\* create_job_impl: the queue of the request is the scope of the key.
KeyedCreateJob(j, q, r, key) ==
    /\ j \in Fresh("job", Jobs)
    /\ r \in Fresh("run", Runs)
    /\ Find("job.create", q, key) = {}
    /\ CreateJob(j, q, FALSE, FALSE, r)
    /\ records' = Recorded("job.create", q, key, j)
    /\ used' = used \cup {<<"job", j>>, <<"run", r>>}
    /\ UNCHANGED <<retired, service, stops>>

\* run_now_impl: the job is the scope of the key.
KeyedRunNow(j, r, key) ==
    /\ r \in Fresh("run", Runs)
    /\ Find("job.run_now", j, key) = {}
    /\ RunNow(j, r)
    /\ records' = Recorded("job.run_now", j, key, r)
    /\ used' = used \cup {<<"run", r>>}
    /\ UNCHANGED <<retired, service, stops>>

\* The requests that carry no key of their own.
Manage ==
    /\ \/ \E q \in Queues : SuspendQueue(q) \/ DeleteQueue(q)
       \/ \E j \in Jobs : SuspendJob(j) \/ DeleteJob(j)
       \/ \E j \in Jobs, q \in Queues : MoveJob(j, q)
    /\ UNCHANGED replay

\* The scheduler's part: a live run is executed and ends.
FinishRun(r) ==
    /\ runs[r].state = "scheduled"
    /\ runs[r].manual \/ ~ManualBarrier(runs, runs[r].job)
    /\ queues[runs[r].queue].state = "active"
    /\ runs[r].manual \/ jobs[runs[r].job].state = "active"
    /\ EndRun(r, "succeeded", r)
    /\ UNCHANGED <<attempts, replay>>

-----------------------------------------------------------------------------
(* ReplayRetirement.                                                       *)

\* list_referencing: the rows that name an owner as resource or as scope.
Names(x, kind, o) ==
    \/ kind = "queue" /\ \/ x.method = "queue.create" /\ x.resource = o
                         \/ x.method = "job.create" /\ x.scope = o
    \/ kind = "job" /\ \/ x.method = "job.create" /\ x.resource = o
                       \/ x.method = "job.run_now" /\ x.scope = o
    \/ kind = "run" /\ x.method = "job.run_now" /\ x.resource = o

Referencing(kind, o) == {x \in records : Names(x, kind, o)}

\* validate: what a row names still exists and belongs together.
Valid(x) ==
    CASE x.method = "queue.create" -> queues[x.resource].state # "absent"
      [] x.method = "job.create" -> /\ jobs[x.resource].state # "absent"
                                    /\ queues[x.scope].state # "absent"
      [] x.method = "job.run_now" -> /\ runs[x.resource].state # "absent"
                                     /\ runs[x.resource].manual
                                     /\ runs[x.resource].job = x.scope
                                     /\ jobs[x.scope].state # "absent"

\* inspect: the rows to retire with their owner; any other row pins the owner.
Retiring(kind, o) ==
    LET method == CASE kind = "queue" -> "queue.create"
                    [] kind = "job" -> "job.create"
                    [] kind = "run" -> "job.run_now"
    IN {x \in Referencing(kind, o) : x.method = method /\ x.resource = o}

PinnedByResource(kind, o) == FALSE

Pinned(kind, o) == Referencing(kind, o) \ Retiring(kind, o) # {}

-----------------------------------------------------------------------------
(* One visit of the sweep.                                                 *)

\* The first BatchSize ids of a set in the order of the ids, after a cursor.
PageOf(S, after) ==
    {c \in S : c > after /\ Cardinality({d \in S : after < d /\ d < c}) < BatchSize}

NoRunOf(j) == \A r \in Runs : runs[r].job # j

OnceCandidatesWithRuns ==
    {j \in Jobs : /\ Referencing("job", j) # {}
                  /\ ~jobs[j].recurring
                  /\ jobs[j].state \in TerminalJobStates}

\* list_candidates, FinishedOnce: finished one-time jobs without runs whose
\* keys are still held.
OnceCandidates ==
    {j \in Jobs : /\ Referencing("job", j) # {}
                  /\ ~jobs[j].recurring
                  /\ jobs[j].state \in TerminalJobStates
                  /\ NoRunOf(j)}

\* list_candidates, DeletedJob and DeletedQueue.
JobCandidates == {j \in Jobs : jobs[j].state = "deleted" /\ NoRunOf(j)}
QueueCandidates ==
    {q \in Queues : /\ queues[q].state = "deleted"
                    /\ \A j \in Jobs : jobs[j].queue # q
                    /\ \A r \in Runs : runs[r].queue # q}

\* The state a visit leaves when a row fails validation: the transaction is
\* rolled back and the service stops for good.
Fails ==
    /\ service' = [Idle EXCEPT !.failed = TRUE]
    /\ UNCHANGED <<queues, jobs, runs, attempts, records, retired, used, stops>>

\* process_batch, behind the transaction: batch_completed and sweep_completed
\* run their receivers.  A receiver may stop the service or stop and start it;
\* the timer is armed again only for the activation the batch belongs to.
Notified(next) ==
    \/ service' = [next EXCEPT !.armed = TRUE] /\ UNCHANGED stops
    \/ /\ stops < MaxStops
       /\ stops' = stops + 1
       /\ service' \in {Idle, [Idle EXCEPT !.on = TRUE, !.armed = TRUE]}

\* The rows and the cursor after a visit that commits.
Commits(gone, next) ==
    /\ records' = records \ gone
    /\ retired' = retired \cup gone
    /\ Notified(next)
    /\ UNCHANGED used

AllValid(kind, page) == \A o \in page : \A x \in Referencing(kind, o) : Valid(x)

\* The old terminal runs of a queue, and how many of them one visit deletes.
OldRuns(s, q) == {r \in s.old : runs[r].state \in TerminalRunStates /\ runs[r].queue = q}

\* purge_queue_history: a run, its attempts and its record are one unit.  Runs
\* go in the order they completed, which may be any order of the ids.
PurgeHistory(s, q) ==
    \E page \in kSubset(Min({BatchSize, Cardinality(OldRuns(s, q))}), OldRuns(s, q)) :
        IF ~AllValid("run", page) \/ \E r \in page : Pinned("run", r)
        THEN Fails
        ELSE /\ runs' = [r \in Runs |-> IF r \in page THEN NoRunRow ELSE runs[r]]
             /\ attempts' = [r \in Runs |-> IF r \in page THEN << >> ELSE attempts[r]]
             /\ UNCHANGED <<queues, jobs>>
             /\ Commits(UNION {Retiring("run", r) : r \in page}, [s EXCEPT !.after = q, !.old = @ \ page])

\* purge_visit, History: the next queue in the order of the ids, every state included.
VisitHistory(s) ==
    LET next == {q \in Queues : queues[q].state # "absent" /\ q > s.after} IN
    IF next = {}
    THEN /\ Commits({}, [s EXCEPT !.phase = 2, !.after = 0, !.old = {}])
         /\ UNCHANGED <<queues, jobs, runs, attempts>>
    ELSE PurgeHistory(s, Min(next))

AfterSkippedPage(s, page, purged) ==
    IF Cardinality(page) = BatchSize
    THEN IF purged = {} THEN s ELSE [s EXCEPT !.after = Max(page)]
    ELSE IF s.phase = 4
    THEN [s EXCEPT !.phase = 1, !.after = 0, !.sweeping = FALSE]
    ELSE [s EXCEPT !.phase = @ + 1, !.after = 0]

\* The cursor after an owner page: a full page is continued behind its last
\* owner, a short one ends the phase and the last phase ends the sweep.
AfterPage(s, page, purged) ==
    IF Cardinality(page) = BatchSize
    THEN [s EXCEPT !.after = Max(page)]
    ELSE IF s.phase = 4
    THEN [s EXCEPT !.phase = 1, !.after = 0, !.sweeping = FALSE]
    ELSE [s EXCEPT !.phase = @ + 1, !.after = 0]

\* purge_owner_page, FinishedOnce: the creation key goes, the definition stays.
VisitOnceKeys(s) ==
    LET page == PageOf(OnceCandidates, s.after) IN
    IF ~AllValid("job", page) THEN Fails
    ELSE /\ Commits(UNION {Retiring("job", j) : j \in page}, AfterPage(s, page, page))
         /\ UNCHANGED <<queues, jobs, runs, attempts>>

\* purge_owner_page, DeletedJob: a pinned owner is passed over.
VisitDeletedJobs(s) ==
    LET page == PageOf(JobCandidates, s.after)
        purged == {j \in page : ~Pinned("job", j)} IN
    IF ~AllValid("job", page) THEN Fails
    ELSE /\ jobs' = [j \in Jobs |-> IF j \in purged THEN NoJobRow ELSE jobs[j]]
         /\ UNCHANGED <<queues, runs, attempts>>
         /\ Commits(UNION {Retiring("job", j) : j \in purged}, AfterPage(s, page, purged))

\* purge_owner_page, DeletedQueue.
VisitDeletedQueues(s) ==
    LET page == PageOf(QueueCandidates, s.after)
        purged == {q \in page : ~Pinned("queue", q)} IN
    IF ~AllValid("queue", page) THEN Fails
    ELSE /\ queues' = [q \in Queues |-> IF q \in purged THEN NoQueueRow ELSE queues[q]]
         /\ UNCHANGED <<jobs, runs, attempts>>
         /\ Commits(UNION {Retiring("queue", q) : q \in purged}, AfterPage(s, page, purged))

\* purge_next_batch.
PurgeNextBatch(s) ==
    CASE Phases[s.phase] = "History" -> VisitHistory(s)
      [] Phases[s.phase] = "OnceKeys" -> VisitOnceKeys(s)
      [] Phases[s.phase] = "DeletedJobs" -> VisitDeletedJobs(s)
      [] Phases[s.phase] = "DeletedQueues" -> VisitDeletedQueues(s)

-----------------------------------------------------------------------------
(* The service.                                                            *)

\* process_batch: sweep_now is taken once, at the first batch of a sweep.
ProcessBatch ==
    /\ service.on /\ service.armed
    /\ PurgeNextBatch(
           [service EXCEPT !.armed = FALSE, !.sweeping = TRUE,
                           !.old = IF service.sweeping THEN @
                                   ELSE {r \in Runs : runs[r].state \in TerminalRunStates}])

\* RetentionService::start.
StartService ==
    /\ ~service.on /\ ~service.failed
    /\ service' = [Idle EXCEPT !.on = TRUE, !.armed = TRUE]
    /\ UNCHANGED <<queues, jobs, runs, attempts, records, retired, used, stops>>

\* RetentionService::stop, from outside a batch.
StopService ==
    /\ service.on /\ stops < MaxStops
    /\ stops' = stops + 1
    /\ service' = Idle
    /\ UNCHANGED <<queues, jobs, runs, attempts, records, retired, used>>

ReplayNext ==
    \/ \E q \in Queues, key \in Keys \cup {NoKey} : KeyedCreateQueue(q, key)
    \/ \E j \in Jobs, q \in Queues, r \in Runs, key \in Keys \cup {NoKey} : KeyedCreateJob(j, q, r, key)
    \/ \E j \in Jobs, r \in Runs, key \in Keys \cup {NoKey} : KeyedRunNow(j, r, key)
    \/ Manage
    \/ \E r \in Runs : FinishRun(r)
    \/ ProcessBatch
    \/ StartService
    \/ StopService

\* The timer is armed whenever the service is active, and the loop fires it;
\* nothing else is promised to happen.
ReplayFairness == WF_replayVars(ProcessBatch) /\ WF_replayVars(StartService)

ReplaySpec == ReplayInit /\ [][ReplayNext]_replayVars /\ ReplayFairness

-----------------------------------------------------------------------------
(* Properties.                                                             *)

\* Every replay row names rows that still exist and belong together, so that a
\* sweep never fails in ReplayRetirement::validate, and the service whose
\* timer is armed is the one that is active.
RecordsHaveOwners ==
    /\ \A x \in records : Valid(x)
    /\ ~service.failed
    /\ service.armed <=> service.on

\* A key is given up only with what it created: a retired key's queue, job or
\* run is gone, except that the key of a one-time job may go once the job has
\* finished and nothing of its history is left.
KeyFreedWithResource ==
    \A x \in retired :
        CASE x.method = "queue.create" -> queues[x.resource].state = "absent"
          [] x.method = "job.create" ->
                 /\ jobs[x.resource].state \in TerminalJobStates \cup {"deleted", "absent"}
                 /\ NoRunOf(x.resource)
          [] x.method = "job.run_now" -> runs[x.resource].state = "absent"

\* Replay records and the resources they name come and go together.
ReplayIsConsistent ==
    RecordsHaveOwners /\ KeyFreedWithResource

\* While the service stays active, every deleted job is physically removed,
\* however many pinned owners the pages of the sweep are filled with.
DeletedJobsGo ==
    <>[]service.on => \A j \in Jobs : (jobs[j].state = "deleted") ~> (jobs[j].state = "absent")

=============================================================================

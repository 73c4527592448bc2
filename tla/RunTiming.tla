------------------------------ MODULE RunTiming ------------------------------
(***************************************************************************)
(* ExecutionTelemetry and WaitRepository: how long runs were ready to run  *)
(* and had to wait, measured across mutations, checkpoints, orderly stops  *)
(* and crashes.  The model has one job with its scheduled and manual runs; *)
(* waited and late measure the same thing directly, tick by tick.          *)
(***************************************************************************)
EXTENDS Naturals, FiniteSets, FiniteSetsExt

CONSTANTS
    TimedRuns,   \* runs, numbered: the order of their ids
    ManualRuns,  \* those started by run-now
    Threshold,   \* the queue's warning threshold, in ticks
    CheckBatch,  \* rows per checkpoint or settlement page
    MaxTick,     \* bound on the monotonic clock
    MaxEpochs    \* bound on activations

ASSUME ManualAssumption == ManualRuns \subseteq TimedRuns

VARIABLES
    rows,     \* jobu_run_timing, with the run's state and whether it is due
    owners,   \* states of the job and of its queue
    tick,     \* monotonic clock
    observer,    \* the ExecutionTelemetry object
    delivered,\* delayed notifications per run
    waited,   \* ticks each run was ready while measured
    late,     \* of those, the ones before the run was seen to be ready
    unseen    \* runs nobody has looked at since they may have become ready

timingVars == <<rows, owners, tick, observer, delivered, waited, late, unseen>>

Closed == [epoch |-> 0, tick |-> 0]
Pending(row) == row.state \in {"scheduled", "retry_wait"}
Live(row) == row.state \in {"scheduled", "running", "retry_wait"}
NoOwner == [state |-> "none", epoch |-> 0, after |-> 0, stop |-> 0, failed |-> FALSE]
NoRow == [state |-> "none", due |-> FALSE, wait |-> 0, quality |-> "unmeasured", open |-> Closed, warned |-> FALSE]

TimingInit ==
    /\ rows = [r \in TimedRuns |-> NoRow]
    /\ owners = [job |-> "active", queue |-> "active"]
    /\ tick = 1
    /\ observer = NoOwner
    /\ delivered = [r \in TimedRuns |-> 0]
    /\ waited = [r \in TimedRuns |-> 0]
    /\ late = [r \in TimedRuns |-> 0]
    /\ unseen = {}

\* eligible_owners() and RunEligibility::eligible(): a live manual run holds
\* the scheduled ones back, and only manual runs run while the job is suspended.
Eligible(rs, os, r) ==
    /\ Pending(rs[r]) /\ rs[r].due
    /\ os.queue = "active"
    /\ r \notin ManualRuns => os.job = "active" /\ \A m \in ManualRuns : ~Live(rs[m])

-----------------------------------------------------------------------------
(* WaitRepository: one row at a sample [epoch, tick].                      *)

\* validate_sample(): an open interval belongs to this epoch and is not later.
SampleFits(row, s) == row.open # Closed => row.open.epoch = s.epoch /\ row.open.tick <= s.tick

OpenInterval(row, s) ==
    IF row.open # Closed THEN row
    ELSE [row EXCEPT !.open = s, !.quality = IF @ = "unmeasured" THEN "partial" ELSE @]

Accumulate(row, s, close) ==
    IF row.open = Closed THEN row
    ELSE [row EXCEPT !.wait = @ + (s.tick - row.open.tick), !.open = IF close THEN Closed ELSE s]

RepairAsIs(row) == [row EXCEPT !.open = Closed]

RepairAbandoned(row) == IF row.open = Closed THEN row ELSE [row EXCEPT !.open = Closed, !.quality = "partial"]

ClaimAgain(row, s) == row.wait + (IF row.open = Closed THEN 0 ELSE s.tick - row.open.tick) > Threshold

\* claim_warning(): more than the threshold, and not claimed before.
ClaimsWarning(row, s) ==
    ~row.warned /\ row.wait + (IF row.open = Closed THEN 0 ELSE s.tick - row.open.tick) > Threshold

\* list_open(): a page of open rows after a key.
OpenPage(after) ==
    LET open == {r \in TimedRuns : rows[r].open # Closed /\ r > after} IN
    {r \in open : Cardinality({q \in open : q < r}) < CheckBatch}

-----------------------------------------------------------------------------
(* Mutations at one boundary.                                              *)

Sample == [epoch |-> observer.epoch, tick |-> tick]
Measuring == observer.state = "active"

VisitAll(rs, os, s, reopen) ==
    [r \in TimedRuns |->
        IF ~Pending(rs[r]) THEN rs[r]
        ELSE IF reopen /\ Eligible(rs, os, r) THEN OpenInterval(rs[r], s)
        ELSE Accumulate(rs[r], s, TRUE)]

\* begin_timing, settle_scope, the change itself, reconcile_scope: the scope is
\* the job, or the queue with all its jobs.
MutateRun(rs, os) ==
    LET settled == VisitAll(rows, owners, Sample, FALSE)
        changed == [r \in TimedRuns |-> [settled[r] EXCEPT !.state = rs[r].state, !.due = rs[r].due, !.quality = rs[r].quality]]
    IN  /\ rows' = VisitAll(changed, os, Sample, TRUE)
        /\ owners' = os
        /\ unseen' = {}

\* A run is inserted: by a client, or as a recurring successor.
CreateRun(r) ==
    /\ Measuring /\ rows[r] = NoRow
    /\ MutateRun([rows EXCEPT ![r].state = "scheduled", ![r].quality = "complete"], owners)
    /\ UNCHANGED <<tick, observer, delivered, waited, late>>

\* Suspend or resume the job or the queue.
SetOwner(who) ==
    /\ Measuring
    /\ MutateRun(rows, [owners EXCEPT ![who] = IF @ = "active" THEN "suspended" ELSE "active"])
    /\ UNCHANGED <<tick, observer, delivered, waited, late>>

\* An attempt ends: the run retries later or is over, which may free others.
CompleteRun(r) ==
    /\ Measuring /\ rows[r].state = "running"
    /\ \E state \in {"retry_wait", "done"} : MutateRun([rows EXCEPT ![r].state = state, ![r].due = FALSE], owners)
    /\ UNCHANGED <<tick, observer, delivered, waited, late>>

CancelRun(r) ==
    /\ Measuring /\ Pending(rows[r])
    /\ MutateRun([rows EXCEPT ![r].state = "done"], owners)
    /\ UNCHANGED <<tick, observer, delivered, waited, late>>

-----------------------------------------------------------------------------
(* The scheduler's passes.                                                 *)

DeliverDelayed(who) == delivered' = [r \in TimedRuns |-> delivered[r] + IF r \in who THEN 1 ELSE 0]

\* observe_backlog(): every pending row is reconciled, warnings are claimed in
\* the same transaction and delivered after it.
Observe ==
    /\ Measuring
    /\ LET seen    == VisitAll(rows, owners, Sample, TRUE)
           claimed == {r \in TimedRuns : Eligible(seen, owners, r) /\ ClaimsWarning(seen[r], Sample)}
       IN  /\ rows' = [r \in TimedRuns |-> [seen[r] EXCEPT !.warned = @ \/ r \in claimed]]
           /\ DeliverDelayed(claimed)
    /\ unseen' = {}
    /\ UNCHANGED <<owners, tick, observer, waited, late>>

\* claim_run(): closed while still pending, then the run is running.
ClaimRun(r) ==
    /\ Measuring /\ Eligible(rows, owners, r)
    /\ LET closed  == Accumulate(OpenInterval(rows[r], Sample), Sample, TRUE)
           claimed == ClaimsWarning(closed, Sample)
       IN  /\ rows' = [rows EXCEPT ![r] = [closed EXCEPT !.state = "running", !.warned = @ \/ claimed]]
           /\ DeliverDelayed(IF claimed THEN {r} ELSE {})
    /\ unseen' = unseen \ {r}
    /\ UNCHANGED <<owners, tick, observer, waited, late>>

-----------------------------------------------------------------------------
(* The life of the telemetry object.                                        *)

\* start(), after recovery has repaired every row.
StartMeasuring ==
    /\ observer.state = "none" /\ observer.epoch < MaxEpochs
    /\ \A r \in TimedRuns : rows[r].open = Closed
    /\ observer' = [NoOwner EXCEPT !.state = "active", !.epoch = observer.epoch + 1]
    /\ unseen' = TimedRuns
    /\ UNCHANGED <<rows, owners, tick, delivered, waited, late>>

CheckpointSweep ==
    /\ Measuring
    /\ LET s    == [Sample EXCEPT !.tick = IF observer.after = 0 \/ observer.stop = 0 THEN @ ELSE observer.stop]
           page == OpenPage(observer.after)
           fits == \A r \in page : SampleFits(rows[r], s)
       IN  /\ rows' = [r \in TimedRuns |-> IF fits /\ r \in page THEN Accumulate(rows[r], s, FALSE) ELSE rows[r]]
           /\ observer' = [observer EXCEPT
                  !.stop = s.tick,
                  !.failed = ~fits,
                  !.after = IF Cardinality(page) < CheckBatch THEN 0 ELSE Max(page)]
    /\ UNCHANGED <<owners, tick, delivered, waited, late, unseen>>

\* checkpoint(): one page, at a boundary of its own.
Checkpoint ==
    /\ Measuring
    /\ LET page == OpenPage(observer.after)
           fits == \A r \in page : SampleFits(rows[r], Sample)
       IN  /\ rows' = [r \in TimedRuns |-> IF fits /\ r \in page THEN Accumulate(rows[r], Sample, FALSE) ELSE rows[r]]
           /\ observer' = [observer EXCEPT
                  !.failed = ~fits,
                  !.after = IF Cardinality(page) < CheckBatch THEN 0 ELSE Max(page)]
    /\ UNCHANGED <<owners, tick, delivered, waited, late, unseen>>

\* request_stop() captures the boundary; finish_stop() settles at it later,
\* page by page.
RequestStop ==
    /\ Measuring
    /\ observer' = [observer EXCEPT !.state = "stopped", !.stop = tick, !.after = 0]
    /\ UNCHANGED <<rows, owners, tick, delivered, waited, late, unseen>>

SettleNow ==
    /\ observer.state = "stopped"
    /\ LET page == OpenPage(observer.after)
       IN  /\ rows' = [r \in TimedRuns |-> IF r \in page THEN Accumulate(rows[r], Sample, TRUE) ELSE rows[r]]
           /\ observer' = IF Cardinality(page) < CheckBatch THEN [NoOwner EXCEPT !.epoch = observer.epoch]
                       ELSE [observer EXCEPT !.after = Max(page)]
    /\ UNCHANGED <<owners, tick, delivered, waited, late, unseen>>

FinishStop ==
    /\ observer.state = "stopped"
    /\ LET page == OpenPage(observer.after)
           s    == [epoch |-> observer.epoch, tick |-> observer.stop]
       IN  /\ rows' = [r \in TimedRuns |-> IF r \in page THEN Accumulate(rows[r], s, TRUE) ELSE rows[r]]
           /\ observer' = IF Cardinality(page) < CheckBatch THEN [NoOwner EXCEPT !.epoch = observer.epoch]
                       ELSE [observer EXCEPT !.after = Max(page)]
    /\ UNCHANGED <<owners, tick, delivered, waited, late, unseen>>

CrashTiming ==
    /\ observer.state # "none"
    /\ observer' = [NoOwner EXCEPT !.epoch = observer.epoch]
    /\ UNCHANGED <<rows, owners, tick, delivered, waited, late, unseen>>

\* Startup recovery: one row per transaction, so it may crash in between.  A
\* run that was running is pending again or over.
RepairRow(r) ==
    /\ observer.state = "none"
    /\ \/ /\ rows[r].open # Closed
          /\ rows' = [rows EXCEPT ![r] = RepairAbandoned(rows[r])]
       \/ /\ rows[r].state = "running"
          /\ \E state \in {"retry_wait", "done"} : rows' = [rows EXCEPT ![r].state = state]
    /\ UNCHANGED <<owners, tick, observer, delivered, waited, late, unseen>>

-----------------------------------------------------------------------------
(* Time.                                                                   *)

BecomeDue(r) ==
    /\ Pending(rows[r]) /\ ~rows[r].due
    /\ rows' = [rows EXCEPT ![r].due = TRUE]
    /\ unseen' = unseen \cup {r}
    /\ UNCHANGED <<owners, tick, observer, delivered, waited, late>>

TickTiming ==
    /\ tick < MaxTick
    /\ tick' = tick + 1
    /\ LET ready(r) == Measuring /\ Eligible(rows, owners, r)
       IN  /\ waited' = [r \in TimedRuns |-> waited[r] + IF ready(r) THEN 1 ELSE 0]
           /\ late' = [r \in TimedRuns |-> late[r] + IF ready(r) /\ r \in unseen THEN 1 ELSE 0]
    /\ UNCHANGED <<rows, owners, observer, delivered, unseen>>

TimingNext ==
    \/ Observe \/ StartMeasuring \/ Checkpoint \/ RequestStop \/ FinishStop \/ CrashTiming \/ TickTiming
    \/ \E who \in {"job", "queue"} : SetOwner(who)
    \/ \E r \in TimedRuns :
          CreateRun(r) \/ CompleteRun(r) \/ CancelRun(r) \/ ClaimRun(r) \/ RepairRow(r) \/ BecomeDue(r)

TimingSpec == TimingInit /\ [][TimingNext]_timingVars

-----------------------------------------------------------------------------
(* Properties.                                                             *)

\* What a reader adds to the stored wait: the open tail, up to now or to the
\* stop's boundary.
Known(r) ==
    rows[r].wait
        + IF rows[r].open = Closed \/ observer.state = "none" THEN 0
          ELSE (IF observer.state = "active" THEN tick ELSE observer.stop) - rows[r].open.tick

\* No run is ever charged more wait than it had, whatever checkpoints, stops,
\* crashes and repairs came between.
NeverOvercharged == \A r \in TimedRuns : Known(r) <= waited[r]

\* A run whose wait is called complete was charged exactly what it had, but for
\* the time before anyone could see that it was due.
CompleteIsExact ==
    \A r \in TimedRuns :
        (rows[r].quality = "complete" /\ (rows[r].open = Closed \/ observer.state # "none"))
            => Known(r) + late[r] = waited[r]

\* While an observer measures, every open interval is its own and no sample it
\* takes is refused as a clock regression.
IntervalsAreOwn ==
    Measuring => ~observer.failed /\ \A r \in TimedRuns : rows[r].open # Closed => rows[r].open.epoch = observer.epoch

\* A run is reported delayed at most once, and only when it was.
WarnedOnce == \A r \in TimedRuns : delivered[r] <= 1 /\ (delivered[r] = 1 => waited[r] > Threshold)

\* The recorded wait is never more than the real one and exact where it says so;
\* intervals belong to who measures, and a delay is reported once.
WaitIsTrue ==
    NeverOvercharged /\ CompleteIsExact /\ IntervalsAreOwn /\ WarnedOnce
=============================================================================

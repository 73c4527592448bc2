----------------------------- MODULE SchedulerWake -----------------------------
(***************************************************************************)
(* The Scheduler object: its states, its wake timer and its cycles, over   *)
(* the little of the store that decides when a cycle is needed.            *)
(*                                                                         *)
(* A cycle samples the UTC clock once, then loads pages of candidates and  *)
(* claims them one by one; between two claims, observers of its signals run*)
(* and may mutate the store, stop or shut down the scheduler.  inCycle,    *)
(* rescanPending are processing_cycle, rescan_pending; sampled, batch and  *)
(* more are what a cycle keeps on its stack (the sampled clock, the page it*)
(* has not consumed, and whether another page may follow).                 *)
(*                                                                         *)
(* timer is the time left on the wake timer, which is monotonic; utc is the*)
(* wall clock, which can be set.  runs, due and open are the state of a    *)
(* run, its runnable_at and whether its owners and barriers let it run.    *)
(***************************************************************************)
EXTENDS Integers, FiniteSets

CONSTANTS
    Runs,
    Horizon,    \* the last instant of the wall clock
    Recheck,    \* wall_clock_recheck
    Limit,      \* the concurrency limit
    Page,       \* candidate_batch_size
    Events      \* bound on what clients, observers, operators and clocks do

ASSUME WakeAssumption ==
    /\ IsFiniteSet(Runs)
    /\ Horizon \in Nat
    /\ Recheck \in Nat \ {0}
    /\ Limit \in Nat \ {0}
    /\ Page \in Nat \ {0}
    /\ Events \in Nat

VARIABLES state, inCycle, rescanPending, sampled, batch, more, timer, utc,
          runs, due, open, events

cycle == <<inCycle, sampled, batch, more>>
store == <<runs, due, open>>
wakeVars == <<state, cycle, rescanPending, timer, utc, store, events>>

Off == -1
Times == 0 .. Horizon
Terminal == state \in {"Failed", "Shutdown"}

Running == {r \in Runs : runs[r] = "running"}
Ready(r) == runs[r] = "pending" /\ open[r]
HasCapacity == Cardinality(Running) < Limit

WakeInit ==
    /\ state = "Stopped"
    /\ inCycle = FALSE
    /\ rescanPending = FALSE
    /\ sampled = 0
    /\ batch = {}
    /\ more = FALSE
    /\ timer = Off
    /\ utc = 0
    /\ runs \in [Runs -> {"none", "pending"}]
    /\ due \in [Runs -> Times]
    /\ open \in [Runs -> BOOLEAN]
    /\ events = 0

Event == events < Events /\ events' = events + 1

-----------------------------------------------------------------------------
(* Wake-ups.                                                               *)

\* request_rescan: at once, or after the cycle in progress.
Rescan ==
    IF state # "Running" THEN UNCHANGED <<timer, rescanPending>>
    ELSE IF inCycle THEN rescanPending' = TRUE /\ UNCHANGED timer
    ELSE timer' = 0 /\ UNCHANGED rescanPending

EnterCycleKeepingRescan ==
    /\ inCycle' = TRUE
    /\ sampled' = utc
    /\ batch' = {}
    /\ more' = TRUE
    /\ UNCHANGED rescanPending

\* The first lines of process_cycle.
EnterCycle ==
    /\ inCycle' = TRUE
    /\ rescanPending' = FALSE
    /\ sampled' = utc
    /\ batch' = {}
    /\ more' = TRUE

\* start: refused while a running row is left, whose owner only recovery finds.
BeginScheduling ==
    /\ Event
    /\ ~inCycle
    /\ state = "Stopped"
    /\ Running = {}
    /\ state' = "Running"
    /\ EnterCycle
    /\ UNCHANGED <<timer, utc, store>>

\* process_wake: the timer is single-shot.
Wake ==
    /\ timer = 0
    /\ ~inCycle
    /\ timer' = Off
    /\ IF state = "Running"
       THEN EnterCycle
       ELSE UNCHANGED <<cycle, rescanPending>>
    /\ UNCHANGED <<state, utc, store, events>>

-----------------------------------------------------------------------------
(* A cycle.                                                                *)

Runnable == {r \in Runs : Ready(r) /\ due[r] <= sampled}

\* load_candidate_batch with list_runnable.
LoadPage(P) ==
    /\ inCycle
    /\ ~Terminal
    /\ batch = {}
    /\ more
    /\ HasCapacity
    /\ P \subseteq Runnable
    /\ IF Cardinality(P) = Page THEN more' = TRUE ELSE P = Runnable /\ more' = FALSE
    /\ batch' = P
    /\ UNCHANGED <<state, inCycle, sampled, rescanPending, timer, utc, store, events>>

ClaimUnlatched(r, result) ==
    /\ inCycle
    /\ r \in batch \cap Runnable
    /\ HasCapacity
    /\ result # "stale"
    /\ batch' = batch \ {r}
    /\ runs' = [runs EXCEPT ![r] = result]
    /\ UNCHANGED <<state, inCycle, sampled, more, rescanPending, timer, utc, due, open, events>>

\* try_dispatch for the next candidate.  It may have gone stale; its start may
\* fail, which completes it in the same cycle; or it runs.
Claim(r, result) ==
    /\ inCycle
    /\ ~Terminal
    /\ r \in batch
    /\ HasCapacity
    /\ batch' = batch \ {r}
    /\ \/ /\ r \notin Runnable
          /\ result = "stale"
          /\ UNCHANGED <<runs, rescanPending>>
       \/ /\ r \in Runnable
          /\ result \in {"running", "done"}
          /\ runs' = [runs EXCEPT ![r] = result]
          /\ IF result = "done" /\ state = "Running"
             THEN rescanPending' = TRUE
             ELSE UNCHANGED rescanPending
    /\ UNCHANGED <<state, inCycle, sampled, more, timer, utc, due, open, events>>

FutureFromClock == {r \in Runs : Ready(r) /\ due[r] > utc}

\* earliest_future_runnable: by the clock the cycle sampled.
Future == {r \in Runs : Ready(r) /\ due[r] > sampled}

\* arm_next_wake: the delay until the earliest of them, but never more than the
\* interval at which the wall clock is looked at again.
NextDelay ==
    IF Future = {} THEN Off
    ELSE LET delay == CHOOSE d \in {due[r] - sampled : r \in Future} :
                          \A r \in Future : d <= due[r] - sampled
         IN IF delay < Recheck THEN delay ELSE Recheck

EndCycleArmingAlways ==
    /\ inCycle
    /\ Terminal \/ ~HasCapacity \/ (batch = {} /\ ~more)
    /\ inCycle' = FALSE
    /\ batch' = {}
    /\ more' = FALSE
    /\ timer' = IF rescanPending THEN 0 ELSE NextDelay
    /\ UNCHANGED <<state, rescanPending, sampled, utc, store, events>>

\* The end of process_cycle.  A cycle that was stopped meanwhile arms nothing.
EndCycle ==
    /\ inCycle
    /\ Terminal \/ ~HasCapacity \/ (batch = {} /\ ~more)
    /\ inCycle' = FALSE
    /\ batch' = {}
    /\ more' = FALSE
    /\ timer' = IF state # "Running" THEN timer
                ELSE IF rescanPending THEN 0
                ELSE NextDelay
    /\ UNCHANGED <<state, rescanPending, sampled, utc, store, events>>

\* fail: a storage or accounting failure in a cycle, in a completion or in a
\* cancellation.
Fail ==
    /\ Event
    /\ state # "Failed"
    /\ inCycle \/ state = "Running" \/ (~Terminal /\ Running # {})
    /\ state' = "Failed"
    /\ timer' = Off
    /\ UNCHANGED <<cycle, rescanPending, utc, store>>

Stop ==
    /\ Event
    /\ state = "Running"
    /\ state' = "Stopped"
    /\ timer' = Off
    /\ UNCHANGED <<cycle, rescanPending, utc, store>>

Shutdown ==
    /\ Event
    /\ ~Terminal
    /\ state' = "Shutdown"
    /\ timer' = Off
    /\ UNCHANGED <<cycle, rescanPending, utc, store>>

-----------------------------------------------------------------------------
(* The rest of the daemon, and time.                                       *)

\* A committed mutation, by a client or by an observer of a running cycle, is
\* followed by request_rescan (mutation_committed, cancel_run).
Mutate(r, w, d, o) ==
    /\ Event
    /\ runs[r] \in {"none", "pending"}
    /\ w \in {"pending", "done"}
    /\ runs' = [runs EXCEPT ![r] = w]
    /\ due' = [due EXCEPT ![r] = d]
    /\ open' = [open EXCEPT ![r] = o]
    /\ Rescan
    /\ UNCHANGED <<state, cycle, utc>>

CompleteWithoutRescan(r) ==
    /\ ~inCycle
    /\ ~Terminal
    /\ runs[r] = "running"
    /\ runs' = [runs EXCEPT ![r] = "done"]
    /\ UNCHANGED <<state, cycle, rescanPending, timer, utc, due, open, events>>

\* A completion, delivered by the event loop between cycles: the run is over.
Complete(r) ==
    /\ ~inCycle
    /\ ~Terminal
    /\ runs[r] = "running"
    /\ runs' = [runs EXCEPT ![r] = "done"]
    /\ Rescan
    /\ UNCHANGED <<state, cycle, utc, due, open, events>>

\* Or the run waits for its next attempt.
CompleteRetry(r, d) ==
    /\ Event
    /\ ~inCycle
    /\ ~Terminal
    /\ runs[r] = "running"
    /\ runs' = [runs EXCEPT ![r] = "pending"]
    /\ due' = [due EXCEPT ![r] = d]
    /\ Rescan
    /\ UNCHANGED <<state, cycle, utc, open>>

\* Time passes on both clocks; the loop does not sleep past an expired timer.
Tick ==
    /\ ~inCycle
    /\ timer # 0
    /\ timer > 0 \/ utc < Horizon
    /\ timer' = IF timer > 0 THEN timer - 1 ELSE timer
    /\ utc' = IF utc < Horizon THEN utc + 1 ELSE utc
    /\ UNCHANGED <<state, cycle, rescanPending, store, events>>

\* The wall clock is set, in either direction.
SetClock(t) ==
    /\ Event
    /\ t # utc
    /\ utc' = t
    /\ UNCHANGED <<state, cycle, rescanPending, timer, store>>

CycleStep ==
    \/ \E P \in SUBSET Runs : LoadPage(P)
    \/ \E r \in Runs, result \in {"stale", "running", "done"} : Claim(r, result)
    \/ EndCycle

WakeNext ==
    \/ BeginScheduling
    \/ Wake
    \/ CycleStep
    \/ Fail
    \/ Stop
    \/ Shutdown
    \/ \E r \in Runs, w \in {"pending", "done"}, d \in Times, o \in BOOLEAN : Mutate(r, w, d, o)
    \/ \E r \in Runs : Complete(r)
    \/ \E r \in Runs, d \in Times : CompleteRetry(r, d)
    \/ Tick
    \/ \E t \in Times : SetClock(t)

\* A cycle is code on the stack, an expired timer is fired by the loop, time
\* passes and accepted work is completed.  Clients and operators owe nothing.
WakeFairness ==
    /\ WF_wakeVars(CycleStep)
    /\ WF_wakeVars(Wake)
    /\ WF_wakeVars(Tick)
    /\ \A r \in Runs : WF_wakeVars(Complete(r))

WakeSpec == WakeInit /\ [][WakeNext]_wakeVars /\ WakeFairness

-----------------------------------------------------------------------------
(* Properties.                                                             *)

\* The types of the variables.
WakeTypeOK ==
    /\ state \in {"Stopped", "Running", "Failed", "Shutdown"}
    /\ inCycle \in BOOLEAN
    /\ rescanPending \in BOOLEAN
    /\ sampled \in Times
    /\ batch \subseteq Runs
    /\ more \in BOOLEAN
    /\ timer \in {Off} \cup Nat
    /\ utc \in Times
    /\ runs \in [Runs -> {"none", "pending", "running", "done"}]
    /\ due \in [Runs -> Times]
    /\ open \in [Runs -> BOOLEAN]
    /\ events \in Nat

\* No run is forgotten: between cycles of a running scheduler, if a run may run
\* and there is room for it, the timer is armed, for no longer than the interval
\* at which the wall clock is checked again.  However requests, completions,
\* observers and changes of the clock fall between the steps of a cycle.
ReadyWorkHasWake ==
    (state = "Running" /\ ~inCycle /\ HasCapacity /\ \E r \in Runs : Ready(r))
        => timer \in 0 .. Recheck

\* A scheduler that is not running never wakes: stop, shutdown and failure
\* disarm the timer, and the cycle they interrupt does not arm it again.
NoWakeUnlessRunning == state # "Running" => timer = Off

\* The wake timer stands exactly when it must: armed in time for work that is
\* ready, and off in a scheduler that does not run.
WakeIsExact ==
    ReadyWorkHasWake /\ NoWakeUnlessRunning

\* Nothing is claimed once the scheduler is failed or shut down, not even by the
\* cycle in progress.
NoClaimAfterShutdown ==
    [][Terminal => Running' \subseteq Running]_wakeVars

\* A run that may run is started, unless it is changed, or the scheduler stops.
ReadyWorkStarts ==
    \A r \in Runs : (state = "Running" /\ Ready(r)) ~> (state # "Running" \/ ~Ready(r))

\* The scheduler does not spin: when nobody asks for anything any more, it
\* sleeps for good.
ComesToRest == <>[](timer = Off /\ ~inCycle)

\* A running scheduler starts what is ready and then sleeps; a terminated one
\* claims nothing more.
SchedulerProgress ==
    ReadyWorkStarts /\ ComesToRest /\ NoClaimAfterShutdown

=============================================================================

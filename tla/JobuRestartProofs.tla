-------------------------- MODULE JobuRestartProofs --------------------------
(***************************************************************************)
(* A restart is never refused, and no step takes a slot beyond a limit,    *)
(* for every value of the constants, as long as no client moves a job.     *)
(*                                                                         *)
(* What Recovery::validate asks of a row follows from the facts about the  *)
(* store that every transaction keeps (StoreFacts) and from LifecycleInv.  *)
(* What its final validation asks follows from the cursor: no running run  *)
(* escapes it (RecoveryProgress).                                          *)
(***************************************************************************)
EXTENDS JobuSuspensionProofs, FiniteSetTheorems

\* Recovery's cursor holds every run still to be repaired, and only a starting
\* daemon is in recovery.
RecoveryProgress ==
    /\ phase # "idle" => daemon = "recovering"
    /\ phase = "runs" => \A r \in Runs : runs[r].state = "running" => r \in pending
    /\ phase \in {"jobs", "queues", "final"} => \A r \in Runs : runs[r].state # "running"

RestartInv == RecoveryProgress /\ NeverRefused

-----------------------------------------------------------------------------
(* The store is valid.                                                     *)

\* The size of a set with at most one element.
LEMMA AtMostOne ==
    ASSUME NEW S, \A x, y \in S : x = y
    PROVE  IsFiniteSet(S) /\ Cardinality(S) \in {0, 1} /\ (Cardinality(S) = 0 <=> S = {})
<1>1. CASE S = {} BY <1>1, FS_EmptySet
<1>2. CASE S # {}
  <2>1. PICK a : a \in S BY <1>2
  <2>2. S = {a} BY <2>1
  <2>3. IsFiniteSet({a}) /\ Cardinality({a}) = 1 BY FS_Singleton
  <2> QED BY <1>2, <2>2, <2>3
<1> QED BY <1>1, <1>2

\* The live runs of a job, counted the way read_nonterminal_runs does.
LEMMA CountedRuns ==
    ASSUME StoreInv, LifecycleInv, NEW j \in Jobs
    PROVE  LET live == LiveRuns(runs, j)
               scheduled == ScheduleOwned(runs, j)
           IN /\ Cardinality(scheduled) \in {0, 1}
              /\ Cardinality(scheduled) = 0 <=> scheduled = {}
              /\ Cardinality(live) - Cardinality(scheduled) \in {0, 1}
              /\ Cardinality(live) - Cardinality(scheduled) = 0 <=> live = scheduled
<1> DEFINE live == LiveRuns(runs, j)
           scheduled == ScheduleOwned(runs, j)
           manual == live \ scheduled
<1>1. \A x \in Runs : runs[x].manual \in BOOLEAN BY DEF StoreInv, StoreType, RunRow
<1>2. \A x, y \in scheduled : x = y
  BY <1>1 DEF ScheduleOwned, LiveRuns, LifecycleInv, LiveRunsUnique
<1>3. \A x, y \in manual : x = y
  BY <1>1 DEF ScheduleOwned, LiveRuns, LifecycleInv, LiveRunsUnique
<1>4. live = scheduled \cup manual /\ scheduled \cap manual = {}
  BY DEF ScheduleOwned
<1> HIDE DEF live, scheduled, manual
<1>5. /\ IsFiniteSet(scheduled) /\ Cardinality(scheduled) \in {0, 1}
      /\ Cardinality(scheduled) = 0 <=> scheduled = {}
  BY <1>2, AtMostOne
<1>6. /\ IsFiniteSet(manual) /\ Cardinality(manual) \in {0, 1}
      /\ Cardinality(manual) = 0 <=> manual = {}
  BY <1>3, AtMostOne
<1>7. Cardinality(live) = Cardinality(scheduled) + Cardinality(manual)
  <2>1. Cardinality(scheduled \cap manual) = 0 BY <1>4, FS_EmptySet
  <2>2. Cardinality(scheduled \cup manual)
            = Cardinality(scheduled) + Cardinality(manual) - Cardinality(scheduled \cap manual)
    BY <1>5, <1>6, FS_Union
  <2> QED BY <1>4, <1>5, <1>6, <2>1, <2>2
<1>8. manual = {} <=> live = scheduled BY <1>4
<1>9. Cardinality(live) - Cardinality(scheduled) = Cardinality(manual)
  BY <1>5, <1>6, <1>7
<1> QED BY <1>5, <1>6, <1>8, <1>9 DEF live, scheduled

\* Every run passes validation.
LEMMA ValidRuns ==
    ASSUME ExecutionInv, LifecycleInv, StoreFacts, NEW r \in Runs, runs[r].state # "absent"
    PROVE  ValidRun(r)
<1>0. StoreInv /\ runs \in [Runs -> RunRow] BY DEF ExecutionInv, TypeOK, StoreInv, StoreType
<1>1. /\ runs[r].job \in Jobs /\ runs[r].queue \in Queues
      /\ jobs[runs[r].job].state # "absent" /\ queues[runs[r].queue].state # "absent"
  BY <1>0 DEF StoreInv, RowsHaveOwners, StoreFacts, ReferencesHold
<1>2. ValidHistory(r) BY DEF StoreFacts, HistoriesMatch
<1>3. ASSUME runs[r].state \in LiveStates PROVE ValidOwnership(r)
  <2>1. runs[r].queue = jobs[runs[r].job].queue /\ jobs[runs[r].job].state \in Open
    BY <1>0, <1>3, LiveOwners
  <2>2. jobs[runs[r].job].state # "deleted" /\ queues[runs[r].queue].state # "deleted"
    BY <1>1, <2>1 DEF StoreFacts, ReferencesHold, Open
  <2>3. ASSUME runs[r].state = "running" PROVE queues[runs[r].queue].state # "suspended"
    BY <1>1, <2>3 DEF StoreFacts, SuspensionIsExact, QueueSuspensionIsExact, RunningInQueue
  <2>4. ASSUME runs[r].state = "running", ~runs[r].manual
        PROVE  jobs[runs[r].job].state # "suspended"
    BY <1>1, <2>4 DEF StoreFacts, SuspensionIsExact, JobSuspensionIsExact, RunningInJob
  <2> QED BY <2>1, <2>2, <2>3, <2>4 DEF ValidOwnership
<1> QED BY <1>1, <1>2, <1>3 DEF ValidRun

\* So does every job.
LEMMA ValidJobs ==
    ASSUME ExecutionInv, LifecycleInv, StoreFacts, NEW j \in Jobs, jobs[j].state # "absent"
    PROVE  ValidJob(j)
<1> DEFINE live == LiveRuns(runs, j)
           owned == ScheduleOwned(runs, j)
           scheduled == Cardinality(owned)
           manual == Cardinality(live) - scheduled
<1>0. StoreInv BY DEF ExecutionInv, TypeOK, StoreInv
<1>1. /\ jobs[j].queue \in Queues /\ queues[jobs[j].queue].state # "absent"
      /\ queues[jobs[j].queue].state = "deleted" => jobs[j].state = "deleted"
  BY DEF StoreFacts, ReferencesHold
<1>2. \A r \in live : /\ runs[r].queue = jobs[j].queue /\ jobs[j].state \in Open
  BY <1>0, LiveOwners DEF LiveRuns
<1>3. /\ scheduled \in {0, 1} /\ (scheduled = 0 <=> owned = {})
      /\ manual \in {0, 1} /\ (manual = 0 <=> live = owned)
  BY <1>0, CountedRuns
<1>4. owned \subseteq live BY DEF ScheduleOwned
<1>5. jobs[j].recurring /\ jobs[j].state \notin Gone => owned # {}
  BY DEF LifecycleInv, RecurringHasRun, ScheduleOwned, LiveRuns
<1>6. jobs[j].state \in Open => live # {}
  BY DEF StoreFacts, OpenHasRun, LiveRuns
<1>7. jobs[j].recurring \in BOOLEAN /\ jobs[j].state \in JobStates
  BY <1>0 DEF StoreInv, StoreType, JobRow
<1>8. jobs[j].state \in TerminalJobStates => jobs[j].state \notin Open \cup Gone
  BY DEF TerminalJobStates, Open, Gone
<1>9. jobs[j].state \notin TerminalJobStates \cup {"deleted"} => jobs[j].state \in Open
  BY <1>7 DEF JobStates, Open
<1> HIDE DEF live, owned
<1>10. jobs[j].state \in TerminalJobStates => ~jobs[j].recurring /\ scheduled = 0 /\ manual = 0
  BY <1>2, <1>3, <1>4, <1>5, <1>8
<1>11. jobs[j].state \notin TerminalJobStates \cup {"deleted"} /\ scheduled = 0 => ~jobs[j].recurring
  BY <1>3, <1>5, <1>9 DEF Open, Gone
<1>12. ValidRelationship(jobs[j], scheduled, manual)
  BY <1>3, <1>10, <1>11 DEF ValidRelationship
<1> QED BY <1>1, <1>2, <1>6, <1>9, <1>12 DEF ValidJob, live, owned

\* So every store the daemon leaves behind passes validation.
LEMMA ValidStore ==
    ASSUME ExecutionInv, LifecycleInv, StoreFacts
    PROVE  StoreValid
BY ValidRuns, ValidJobs DEF StoreValid

\* Once nothing is running, it also passes the final validation.
LEMMA RepairedStore ==
    ASSUME ExecutionInv, LifecycleInv, StoreFacts, \A r \in Runs : runs[r].state # "running"
    PROVE  StoreRepaired
<1>1. \A q \in Queues : queues[q].state # "suspending"
  BY DEF StoreFacts, SuspensionIsExact, QueueSuspensionIsExact, RunningInQueue
<1>2. \A j \in Jobs : jobs[j].state # "suspending"
  BY DEF StoreFacts, SuspensionIsExact, JobSuspensionIsExact, RunningInJob
<1>3. \A j \in Jobs : jobs[j].recurring /\ jobs[j].state # "deleted" => ScheduleOwned(runs, j) # {}
  BY DEF LifecycleInv, AbsentIsPlain, RecurringHasRun, ScheduleOwned, LiveRuns, Gone
<1> QED BY <1>1, <1>2, <1>3, ValidStore DEF StoreRepaired

-----------------------------------------------------------------------------
(* Recovery.                                                               *)

\* Every step keeps the cursor complete and refuses nothing.
LEMMA NextProgress ==
    ASSUME ExecutionInv, LifecycleInv, StoreFacts, RestartInv, [Next]_vars
    PROVE  RecoveryProgress' /\ NeverRefused'
<1>0. StoreInv /\ StoreFacts /\ RecoveryProgress /\ phase # "refused"
  BY DEF RestartInv, NeverRefused, ExecutionInv, TypeOK, StoreInv
<1> USE DEF RecoveryProgress, NeverRefused
<1>1. CASE StoreStep \/ SchedulerStep
  <2>1. daemon = "serving" /\ UNCHANGED process BY <1>1 DEF StoreStep, SchedulerStep
  <2> QED BY <1>0, <2>1 DEF process
<1>2. ASSUME NEW r \in Runs, BecomeDue(r) PROVE RecoveryProgress' /\ NeverRefused'
  <2>1. /\ \A x \in Runs : runs'[x].state = runs[x].state
        /\ UNCHANGED process
    BY <1>0, <1>2 DEF BecomeDue, StoreInv, StoreType, RunRow
  <2> QED BY <1>0, <2>1 DEF process
<1>3. CASE Start BY <1>3 DEF Start
<1>4. CASE RecoveryStep
  <2>0. daemon = "recovering" /\ daemon' = daemon BY <1>4 DEF RecoveryStep
  <2>1. CASE Validate
    <3>1. StoreValid BY <1>0, ValidStore
    <3> QED BY <2>0, <2>1, <3>1 DEF Validate, store
  <2>2. ASSUME NEW r \in Runs, NEW due \in BOOLEAN, NEW s \in SuccessorIds(r), RecoverRun(r, due, s)
        PROVE  RecoveryProgress' /\ NeverRefused'
    <3>1. /\ phase = "runs" /\ phase' = "runs" /\ r \in pending /\ pending' = pending \ {r}
          /\ EndRun(r, "interrupted", s) \/ RetryRun(r, due)
      BY <2>2 DEF RecoverRun
    <3>2. runs[r].state \in LiveStates /\ "interrupted" \in TerminalRunStates
      BY <3>1 DEF ExecutionInv, RecoveryIsAlone, LiveStates, TerminalRunStates
    <3>3. OnlyStops(r) BY <1>0, <3>1, <3>2, EndRunEffect, RetryRunEffect
    <3> QED BY <1>0, <2>0, <3>1, <3>3 DEF OnlyStops
  <2>3. CASE RunsRecovered BY <1>0, <2>0, <2>3 DEF RunsRecovered, store
  <2>4. ASSUME NEW j \in Jobs, NEW s, RecoverJob(j, s) PROVE RecoveryProgress' /\ NeverRefused'
    <3>1. ~MissingSuccessor(j)
      BY DEF MissingSuccessor, ScheduleOwned, LiveRuns, LifecycleInv, AbsentIsPlain,
             RecurringHasRun, Gone
    <3> QED BY <1>0, <2>0, <2>4, <3>1 DEF RecoverJob
  <2>5. CASE JobsRecovered BY <1>0, <2>0, <2>5 DEF JobsRecovered, store
  <2>6. ASSUME NEW q \in Queues, RecoverQueue(q) PROVE RecoveryProgress' /\ NeverRefused'
    BY <1>0, <2>0, <2>6 DEF RecoverQueue
  <2>7. CASE QueuesRecovered BY <1>0, <2>0, <2>7 DEF QueuesRecovered, store
  <2> QED BY <1>4, <2>1, <2>2, <2>3, <2>4, <2>5, <2>6, <2>7 DEF RecoveryStep
<1>5. CASE Serve
  <2>1. StoreRepaired BY <1>0, <1>5, RepairedStore DEF Serve
  <2> QED BY <1>5, <2>1 DEF Serve
<1>6. CASE Stop \/ Crash
  BY <1>0, <1>6 DEF Stop, Crash, store
<1>7. ASSUME NEW r \in Runs, DropCompletion(r) PROVE RecoveryProgress' /\ NeverRefused'
  BY <1>0, <1>7 DEF DropCompletion, process, store
<1>8. CASE UNCHANGED vars
  BY <1>0, <1>8 DEF vars, process, store
<1> QED BY <1>1, <1>2, <1>3, <1>4, <1>5, <1>6, <1>7, <1>8 DEF Next

-----------------------------------------------------------------------------
(* The theorems.                                                           *)

\* Without moves, recovery is never refused in any reachable state.
THEOREM RestartInvariance ==
    ASSUME WithoutMoves
    PROVE  Spec => []RestartInv
<1>1. Init => RestartInv BY DEF Init, RestartInv, RecoveryProgress, NeverRefused
<1>2. ExecutionInv /\ LifecycleInv /\ StoreFacts /\ RestartInv /\ [Next]_vars => RestartInv'
  BY NextProgress DEF RestartInv
<1> QED BY <1>1, <1>2, ExecutionInvariance, LifecycleInvariance, StoreInvariance, PTL DEF Spec

\* Whatever the daemon was doing when it died, and however often recovery
\* itself was interrupted, the next start accepts the store, and so does the
\* validation after the repairs.
THEOREM AcceptedRestart ==
    ASSUME WithoutMoves
    PROVE  Spec => []RestartIsAccepted
<1>1. ExecutionInv /\ LifecycleInv /\ StoreFacts /\ RestartInv => RestartIsAccepted
  BY ValidStore DEF RestartInv, RestartIsAccepted, RecoveryAccepts
<1> QED BY <1>1, RestartInvariance, StoreInvariance, ExecutionInvariance, LifecycleInvariance, PTL

-----------------------------------------------------------------------------
(* Limits.                                                                 *)

\* The runs that are running or waiting for a retry were running before, or
\* waited before, in the same place.
StartedKept ==
    \A x \in Runs : runs'[x].state \in {"running", "retry_wait"} =>
        /\ runs'[x].job = runs[x].job /\ runs'[x].queue = runs[x].queue
        /\ runs'[x].manual = runs[x].manual
        /\ runs[x].state = "running" \/ runs[x].state = runs'[x].state

Started == {x \in Runs : runs[x].state \in {"running", "retry_wait"}}

\* Only finitely many runs are started at a time, whatever Runs is.
LimitsInv == IsFiniteSet(Started) /\ TypeWithinLimit

\* Cancelling pending runs starts nothing.
LEMMA CancelPendingStarted ==
    ASSUME StoreInv, NEW S, runs' = CancelPending(S)
    PROVE  StartedKept
<1>1. runs \in [Runs -> RunRow] BY DEF StoreInv, StoreType
<1>2. \A x \in Runs : runs'[x] = runs[x] \/ runs'[x].state = "cancelled"
  BY <1>1 DEF CancelPending, RunRow
<1> QED BY <1>2 DEF StartedKept

\* No request and no purge starts a run or moves one that is started.
LEMMA StoreStepStarted ==
    ASSUME WithoutMoves, StoreInv, StoreStep
    PROVE  StartedKept
<1>0. runs \in [Runs -> RunRow] BY DEF StoreInv, StoreType
<1>1. CASE runs' = runs BY <1>1 DEF StartedKept
<1>2. ASSUME NEW q \in Queues, QueueRequest(q) PROVE StartedKept
  <2>1. CASE DeleteQueue(q) BY <2>1, CancelPendingStarted DEF DeleteQueue
  <2> QED BY <1>1, <1>2, <2>1 DEF QueueRequest, CreateQueue, UpdateQueue, SuspendQueue, ResumeQueue
<1>3. ASSUME NEW j \in Jobs, JobRequest(j) PROVE StartedKept
  <2>1. ASSUME NEW r \in Runs, NEW row, row.state = "scheduled", runs' = [runs EXCEPT ![r] = row]
        PROVE  StartedKept
    BY <1>0, <2>1 DEF StartedKept
  <2>2. ASSUME NEW q \in Queues, NEW recurring \in BOOLEAN, NEW due \in BOOLEAN, NEW r \in Runs,
               CreateJob(j, q, recurring, due, r)
        PROVE  StartedKept
    BY <2>1, <2>2 DEF CreateJob, ScheduledRun
  <2>3. ASSUME NEW r \in Runs, RunNow(j, r) PROVE StartedKept
    BY <2>1, <2>3 DEF RunNow, ManualRun
  <2>4. ASSUME NEW recurring \in BOOLEAN, NEW due \in BOOLEAN, UpdateJob(j, recurring, due)
        PROVE  StartedKept
    <3>1. \A x \in Runs : /\ runs'[x].state = runs[x].state /\ runs'[x].job = runs[x].job
                          /\ runs'[x].queue = runs[x].queue /\ runs'[x].manual = runs[x].manual
      BY <1>0, <2>4 DEF UpdateJob, Refreshed, RunRow
    <3> QED BY <3>1 DEF StartedKept
  <2>5. CASE SuspendJob(j) \/ ResumeJob(j) BY <1>1, <2>5 DEF SuspendJob, ResumeJob
  <2>6. CASE DeleteJob(j) BY <2>6, CancelPendingStarted DEF DeleteJob
  <2> QED BY <1>3, <2>2, <2>3, <2>4, <2>5, <2>6 DEF JobRequest, WithoutMoves
<1>4. CASE RetentionStep
  <2>1. ASSUME NEW r \in Runs, PurgeRun(r) PROVE StartedKept
    BY <1>0, <2>1 DEF PurgeRun, NoRunRow, StartedKept
  <2> QED BY <1>1, <1>4, <2>1 DEF RetentionStep, PurgeJob, PurgeQueue
<1> QED BY <1>2, <1>3, <1>4 DEF StoreStep

\* A step that is not an admission starts nothing.
LEMMA OthersStarted ==
    ASSUME WithoutMoves, StoreInv, LifecycleInv, StoreFacts, StoreEffect
    PROVE  StartedKept \/ \E r \in Runs : Dispatch(r)
<1>0. runs \in [Runs -> RunRow] BY DEF StoreInv, StoreType
<1>1. CASE UNCHANGED store \/ Drains BY <1>1 DEF store, Drains, StartedKept
<1>2. ASSUME NEW r \in Runs, BecomeDue(r) PROVE StartedKept
  <2>1. \A x \in Runs : /\ runs'[x].state = runs[x].state /\ runs'[x].job = runs[x].job
                        /\ runs'[x].queue = runs[x].queue /\ runs'[x].manual = runs[x].manual
    BY <1>0, <1>2 DEF BecomeDue, RunRow
  <2> QED BY <2>1 DEF StartedKept
<1>3. ASSUME NEW r \in Runs, NEW outcome \in TerminalRunStates, NEW s \in SuccessorIds(r),
             runs[r].state \in LiveStates, EndRun(r, outcome, s)
      PROVE  StartedKept
  <2>1. /\ runs'[r].state = outcome
        /\ \A x \in Runs : x # r =>
               runs'[x] = runs[x] \/ (runs[x].state = "absent" /\ runs'[x].state = "scheduled")
    BY <1>3, EndRunEffect
  <2> QED BY <2>1 DEF StartedKept, TerminalRunStates
<1>4. ASSUME NEW r \in Runs, NEW due \in BOOLEAN, runs[r].state = "running", RetryRun(r, due)
      PROVE  StartedKept
  <2>1. /\ runs'[r].state = "retry_wait" /\ runs'[r].job = runs[r].job
        /\ runs'[r].queue = runs[r].queue /\ runs'[r].manual = runs[r].manual
        /\ \A x \in Runs : x # r => runs'[x] = runs[x]
    BY <1>0, <1>4 DEF RetryRun, RunRow
  <2> QED BY <1>4, <2>1 DEF StartedKept
<1>5. ASSUME NEW r \in Runs, Cancels(r) PROVE StartedKept
  BY <1>3, <1>5 DEF Cancels, LiveStates, TerminalRunStates
<1>6. ASSUME NEW r \in Runs, NEW outcome \in TerminalRunStates, Finishes(r, outcome)
      PROVE  StartedKept
  BY <1>3, <1>4, <1>6 DEF Finishes, LiveStates
<1> QED BY <1>1, <1>2, <1>5, <1>6, StoreStepStarted DEF StoreEffect

\* Counting after at most one element was added.
LEMMA AtMostOneMore ==
    ASSUME NEW S, IsFiniteSet(S), NEW a, NEW T, T \subseteq S \cup {a}
    PROVE  /\ IsFiniteSet(T) /\ Cardinality(T) \in Nat /\ Cardinality(S) \in Nat
           /\ Cardinality(T) <= Cardinality(S) + 1
           /\ T \subseteq S => Cardinality(T) <= Cardinality(S)
<1>1. /\ IsFiniteSet(S \cup {a}) /\ Cardinality(S) \in Nat
      /\ Cardinality(S \cup {a}) <= Cardinality(S) + 1
  <2>1. Cardinality(S) \in Nat BY FS_CardinalityType
  <2>2. /\ IsFiniteSet(S \cup {a})
        /\ Cardinality(S \cup {a}) = IF a \in S THEN Cardinality(S) ELSE Cardinality(S) + 1
    BY FS_AddElement
  <2> QED BY <2>1, <2>2
<1>2. IsFiniteSet(T) /\ Cardinality(T) <= Cardinality(S \cup {a})
  BY <1>1, FS_Subset
<1>3. Cardinality(T) \in Nat /\ Cardinality(S \cup {a}) \in Nat
  BY <1>1, <1>2, FS_CardinalityType
<1>4. T \subseteq S => Cardinality(T) <= Cardinality(S) BY FS_Subset
<1> QED BY <1>1, <1>2, <1>3, <1>4

\* What an admission adds to the running runs, the slots and the started runs.
LEMMA DispatchAdds ==
    ASSUME StoreInv, NEW r \in Runs, Dispatch(r)
    PROVE  /\ Started' \subseteq Started \cup {r}
           /\ \A t : RunningOfType(runs', t) \subseteq RunningOfType(runs, t) \cup {r}
           /\ \A t : t # JobType[runs[r].job] => RunningOfType(runs', t) \subseteq RunningOfType(runs, t)
           /\ \A q : QueueSlots(q)' \subseteq QueueSlots(q) \cup {r}
           /\ \A q : q # runs[r].queue => QueueSlots(q)' \subseteq QueueSlots(q)
<1>1. runs \in [Runs -> RunRow] BY DEF StoreInv, StoreType
<1>2. /\ runs'[r].state = "running" /\ runs'[r].job = runs[r].job /\ runs'[r].queue = runs[r].queue
      /\ \A x \in Runs : x # r => runs'[x] = runs[x]
      /\ jobs' = jobs /\ queues' = queues
  BY <1>1 DEF Dispatch, RunRow
<1>3. Started' \subseteq Started \cup {r} BY <1>2 DEF Started
<1>4. \A t : /\ RunningOfType(runs', t) \subseteq RunningOfType(runs, t) \cup {r}
             /\ t # JobType[runs[r].job] => RunningOfType(runs', t) \subseteq RunningOfType(runs, t)
  BY <1>2 DEF RunningOfType
<1>5. \A x \in Runs : x # r => (OccupiesQueue(x)' <=> OccupiesQueue(x))
  BY <1>2 DEF OccupiesQueue
<1>6. \A q : /\ QueueSlots(q)' \subseteq QueueSlots(q) \cup {r}
             /\ q # runs[r].queue => QueueSlots(q)' \subseteq QueueSlots(q)
  BY <1>2, <1>5 DEF QueueSlots
<1> QED BY <1>3, <1>4, <1>6

\* Without an admission, nothing is added.
LEMMA OthersAdd ==
    ASSUME StoreInv, LifecycleInv, StoreFacts, StartedKept
    PROVE  /\ Started' \subseteq Started
           /\ \A t : RunningOfType(runs', t) \subseteq RunningOfType(runs, t)
           /\ OwnersKeepState => \A q : QueueSlots(q)' \subseteq QueueSlots(q)
<1>1. Started' \subseteq Started BY DEF Started, StartedKept
<1>2. \A t : RunningOfType(runs', t) \subseteq RunningOfType(runs, t)
  BY DEF RunningOfType, StartedKept
<1>3. ASSUME OwnersKeepState, NEW x \in Runs, OccupiesQueue(x)'
      PROVE  OccupiesQueue(x) /\ runs'[x].queue = runs[x].queue
  <2>1. /\ runs'[x].state \in {"running", "retry_wait"}
        /\ runs'[x].state = "retry_wait" =>
               /\ runs'[x].job \in Blocking
               /\ jobs'[runs'[x].job].state = "active" \/ runs'[x].manual
               /\ queues'[runs'[x].queue].state = "active"
    BY <1>3 DEF OccupiesQueue
  <2>2. /\ runs'[x].job = runs[x].job /\ runs'[x].queue = runs[x].queue
        /\ runs'[x].manual = runs[x].manual
        /\ runs[x].state = "running" \/ runs[x].state = runs'[x].state
    BY <2>1 DEF StartedKept
  <2>3. runs[x].state \in LiveStates BY <2>1, <2>2 DEF LiveStates
  <2>4. runs[x].job \in Jobs /\ runs[x].queue \in Queues BY <2>3, LiveOwners
  <2>5. /\ jobs'[runs[x].job].state = jobs[runs[x].job].state
        /\ queues'[runs[x].queue].state = queues[runs[x].queue].state
    BY <1>3, <2>4 DEF OwnersKeepState
  <2> QED BY <2>1, <2>2, <2>5 DEF OccupiesQueue
<1>4. OwnersKeepState => \A q : QueueSlots(q)' \subseteq QueueSlots(q)
  BY <1>3 DEF QueueSlots
<1> QED BY <1>1, <1>2, <1>4

\* Every step keeps the limits of the runner types.
LEMMA NextLimits ==
    ASSUME WithoutMoves, ExecutionInv, LifecycleInv, StoreFacts, LimitsInv, [Next]_vars
    PROVE  LimitsInv'
<1>0. StoreInv /\ IsFiniteSet(Started) BY DEF ExecutionInv, TypeOK, StoreInv, LimitsInv
<1>1. ASSUME NEW t \in Types
      PROVE  /\ IsFiniteSet(RunningOfType(runs, t))
             /\ Cardinality(RunningOfType(runs, t)) <= TypeLimit[t] /\ TypeLimit[t] \in Nat
  <2>1. RunningOfType(runs, t) \subseteq Started BY DEF RunningOfType, Started
  <2>2. TypeLimit[t] \in Nat BY StoreAssumption
  <2> QED BY <1>0, <2>1, <2>2, FS_Subset DEF LimitsInv, TypeWithinLimit
<1>2. CASE StartedKept
  <2>1. IsFiniteSet(Started') BY <1>0, <1>2, OthersAdd, FS_Subset
  <2>2. ASSUME NEW t \in Types PROVE Cardinality(RunningOfType(runs', t)) <= TypeLimit[t]
    <3>1. RunningOfType(runs', t) \subseteq RunningOfType(runs, t) BY <1>0, <1>2, OthersAdd
    <3>2. /\ Cardinality(RunningOfType(runs', t)) <= Cardinality(RunningOfType(runs, t))
          /\ Cardinality(RunningOfType(runs', t)) \in Nat /\ Cardinality(RunningOfType(runs, t)) \in Nat
      BY <1>1, <3>1, AtMostOneMore
    <3> QED BY <1>1, <3>2
  <2> QED BY <2>1, <2>2 DEF LimitsInv, TypeWithinLimit
<1>3. ASSUME NEW r \in Runs, Dispatch(r) PROVE LimitsInv'
  <2>1. IsFiniteSet(Started')
    <3>1. Started' \subseteq Started \cup {r} BY <1>0, <1>3, DispatchAdds
    <3> QED BY <1>0, <3>1, AtMostOneMore
  <2>2. ASSUME NEW t \in Types PROVE Cardinality(RunningOfType(runs', t)) <= TypeLimit[t]
    <3> DEFINE Old == RunningOfType(runs, t)
               New == RunningOfType(runs', t)
    <3>1. /\ New \subseteq Old \cup {r}
          /\ t # JobType[runs[r].job] => New \subseteq Old
      BY <1>0, <1>3, DispatchAdds
    <3>2. t = JobType[runs[r].job] => Cardinality(Old) < TypeLimit[t]
      BY <1>3 DEF Dispatch, TypeHasCapacity
    <3>3. IsFiniteSet(Old) /\ Cardinality(Old) <= TypeLimit[t] /\ TypeLimit[t] \in Nat BY <1>1
    <3> HIDE DEF Old, New
    <3>4. /\ Cardinality(New) \in Nat /\ Cardinality(Old) \in Nat
          /\ Cardinality(New) <= Cardinality(Old) + 1
          /\ New \subseteq Old => Cardinality(New) <= Cardinality(Old)
      BY <3>1, <3>3, AtMostOneMore
    <3>5. Cardinality(New) <= TypeLimit[t] BY <3>1, <3>2, <3>3, <3>4
    <3> QED BY <3>5 DEF New
  <2> QED BY <2>1, <2>2 DEF LimitsInv, TypeWithinLimit
<1> QED BY <1>0, <1>2, <1>3, NextEffect, OthersStarted

\* Every step that takes a slot stays within the limit of the queue.
LEMMA NextAdmission ==
    ASSUME WithoutMoves, ExecutionInv, LifecycleInv, StoreFacts, LimitsInv, [Next]_vars,
           NEW q \in Queues, OwnersKeepState, QueueSlots(q)' \ QueueSlots(q) # {}
    PROVE  Cardinality(QueueSlots(q)') <= queues[q].limit
<1>0. StoreInv /\ IsFiniteSet(Started) BY DEF ExecutionInv, TypeOK, StoreInv, LimitsInv
<1>1. PICK r \in Runs : Dispatch(r)
  BY <1>0, NextEffect, OthersStarted, OthersAdd
<1> DEFINE Old == QueueSlots(q)
           New == QueueSlots(q)'
<1>2. New \subseteq Old \cup {r} /\ (q # runs[r].queue => New \subseteq Old)
  BY <1>0, <1>1, DispatchAdds
<1>3. q = runs[r].queue /\ r \notin Old BY <1>2
<1>4. ~OccupiesQueue(r) BY <1>3 DEF QueueSlots
<1>5. Cardinality(Old) < queues[q].limit BY <1>1, <1>3, <1>4 DEF Dispatch, QueueHasCapacity
<1>6. IsFiniteSet(Old)
  <2>1. Old \subseteq Started BY DEF QueueSlots, OccupiesQueue, Started
  <2> QED BY <1>0, <2>1, FS_Subset
<1>7. queues[q].limit \in Nat
  BY <1>0, StoreAssumption DEF StoreInv, StoreType, QueueRow
<1> HIDE DEF Old, New
<1>8. /\ Cardinality(New) \in Nat /\ Cardinality(Old) \in Nat
      /\ Cardinality(New) <= Cardinality(Old) + 1
  BY <1>2, <1>6, AtMostOneMore
<1>9. Cardinality(New) <= queues[q].limit BY <1>5, <1>7, <1>8
<1> QED BY <1>9 DEF New

\* Neither the limit of a runner type nor that of a queue is exceeded by
\* starting an attempt or by keeping the slot of one that waits for its retry.
THEOREM KeptLimits ==
    ASSUME WithoutMoves
    PROVE  Spec => WithinLimits
<1>1. Init => LimitsInv
  <2> SUFFICES ASSUME Init PROVE LimitsInv OBVIOUS
  <2>1. \A r \in Runs : runs[r].state = "absent" BY DEF Init, StoreInit, NoRunRow
  <2>2. Started = {} /\ \A t : RunningOfType(runs, t) = {} BY <2>1 DEF Started, RunningOfType
  <2>3. IsFiniteSet({}) /\ Cardinality({}) = 0 BY FS_EmptySet
  <2>4. \A t \in Types : TypeLimit[t] \in Nat BY StoreAssumption
  <2> QED BY <2>2, <2>3, <2>4 DEF LimitsInv, TypeWithinLimit
<1>2. ExecutionInv /\ LifecycleInv /\ StoreFacts /\ LimitsInv /\ [Next]_vars => LimitsInv'
  BY NextLimits
<1>3. ExecutionInv /\ LifecycleInv /\ StoreFacts /\ LimitsInv /\ [Next]_vars =>
          [\A q \in Queues :
               (OwnersKeepState /\ QueueSlots(q)' \ QueueSlots(q) # {}) =>
                   Cardinality(QueueSlots(q)') <= queues[q].limit]_vars
  BY NextAdmission
<1>4. LimitsInv => TypeWithinLimit BY DEF LimitsInv
<1> QED BY <1>1, <1>2, <1>3, <1>4, ExecutionInvariance, LifecycleInvariance, StoreInvariance, PTL
        DEF Spec, WithinLimits, AdmissionWithinLimit

=============================================================================

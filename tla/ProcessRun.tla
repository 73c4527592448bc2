------------------------------ MODULE ProcessRun ------------------------------
(***************************************************************************)
(* jb::core::Process: one supervised child, from start() to finished.      *)
(*                                                                         *)
(* The parent's steps are the callbacks of the event loop (readiness of the*)
(* launch-status pipe and of the output pipes, exit of the child, timers)  *)
(* and the calls start, stop and the destructor.  Between any two of them  *)
(* the kernel and the child move.  The child stays behind a gate until the *)
(* parent has registered everything; the leader of its process group is    *)
(* kept as a zombie as long as the group may still have to be signalled.   *)
(*                                                                         *)
(* Output is counted in units of the read size.  Readiness is              *)
(* edge-triggered: ready is set when bytes or the end arrive and consumed  *)
(* by the callback.  A Process of the CLI runner serves one run.           *)
(***************************************************************************)
EXTENDS Integers

CONSTANTS
    Channels,       \* the output pipes
    Budget,         \* kPipeReadBudgetBytes: units one callback may read
    MaxUnread,      \* capacity of a pipe
    HasTimeout,     \* does the request have a deadline?
    HasGrace        \* is its termination grace longer than zero?

ASSUME ProcessAssumption ==
    /\ Budget \in Nat \ {0}
    /\ MaxUnread \in Nat \ {0}
    /\ HasTimeout \in BOOLEAN
    /\ HasGrace \in BOOLEAN

VARIABLES
    state,          \* ProcessState; "Launching" is inside start()
    gate,           \* "shut", "released" or "closed"
    resolved, startError,           \* status_resolved, exit.start_error
    watched,        \* process_watched
    killed,         \* group_kill_attempted
    leaderSeen,     \* leader_exit_observed
    stopKind,       \* the first accepted cause to stop
    timers,         \* armed timers
    graceOver,      \* has the termination deadline passed?
    chan,           \* the channels
    result,         \* what finished reported
    \* the child and the kernel
    leader, helpers, escaped, report, exitCode, executed, doomed, stray

supervision == <<gate, resolved, startError, watched, killed, leaderSeen, stopKind, timers>>
child == <<leader, helpers, escaped, report, exitCode, executed, doomed>>
vars == <<state, supervision, graceOver, chan, result, child, stray>>

NoStop == "none"
IdleChannel == [terminal |-> TRUE, pending |-> FALSE, ready |-> FALSE, unread |-> 0, lost |-> FALSE]
OpenChannel == [IdleChannel EXCEPT !.terminal = FALSE]

Alive == leader \in {"gated", "setup", "target"}
Writer == Alive \/ helpers \/ escaped

Init ==
    /\ state = "NotRunning"
    /\ gate = "shut"
    /\ resolved = FALSE
    /\ startError = FALSE
    /\ watched = FALSE
    /\ killed = FALSE
    /\ leaderSeen = FALSE
    /\ stopKind = NoStop
    /\ timers = {}
    /\ graceOver = FALSE
    /\ chan = [c \in Channels |-> IdleChannel]
    /\ result = NoStop
    /\ leader = "none"
    /\ helpers = FALSE
    /\ escaped = FALSE
    /\ report = "open"
    /\ exitCode = FALSE
    /\ executed = FALSE
    /\ doomed = FALSE
    /\ stray = FALSE

-----------------------------------------------------------------------------
(* Signals.  Every send is checked: the group must still be ours.          *)

Send == stray' = (stray \/ leader \in {"none", "gone"})

\* attempt_group_kill: at most once.
KillGroup ==
    IF killed THEN UNCHANGED <<killed, doomed, stray>>
    ELSE killed' = TRUE /\ doomed' = TRUE /\ Send

-----------------------------------------------------------------------------
(* start().                                                                *)

\* Up to the creation of the child, which then waits at the gate.
Launch ==
    /\ state = "NotRunning"
    /\ leader = "none"
    /\ state' = "Launching"
    /\ leader' = "gated"
    /\ chan' = [c \in Channels |-> OpenChannel]
    /\ UNCHANGED <<supervision, graceOver, result, helpers, escaped, report, exitCode, executed,
                   doomed, stray>>

\* A group, watch or timer cannot be set up: the guard of launch() cleans up,
\* which kills and reaps the child.
Reject ==
    /\ state = "Launching"
    /\ state' = "Rejected"
    /\ gate' = "closed"
    /\ leader' = "gone"
    /\ chan' = [c \in Channels |-> IdleChannel]
    /\ Send
    /\ UNCHANGED <<resolved, startError, watched, killed, leaderSeen, stopKind, timers, graceOver, result,
                   helpers, escaped, report, exitCode, executed, doomed>>

\* The deadline has passed before the gate is opened.
AcceptExpired ==
    /\ state = "Launching"
    /\ HasTimeout
    /\ state' = "Stopping"
    /\ stopKind' = "TimedOut"
    /\ watched' = TRUE
    /\ gate' = "closed"
    /\ KillGroup
    /\ UNCHANGED <<resolved, startError, leaderSeen, timers, graceOver, chan, result,
                   leader, helpers, escaped, report, exitCode, executed>>

\* Everything is registered: the gate is opened, which accepts the run.
Accept ==
    /\ state = "Launching"
    /\ state' = "Starting"
    /\ watched' = TRUE
    /\ gate' = "released"
    /\ timers' = IF HasTimeout THEN {"timeout"} ELSE {}
    /\ UNCHANGED <<resolved, startError, killed, leaderSeen, stopKind, graceOver, chan, result, child, stray>>

-----------------------------------------------------------------------------
(* Reading the pipes.                                                      *)

\* drain_output for one channel, once the launch status is known.
Drained(ch, final) ==
    LET n == IF ch.unread < Budget THEN ch.unread ELSE Budget
        eof == n < Budget /\ ~Writer
    IN  IF ch.terminal \/ (~final /\ ch.pending) THEN ch
        ELSE [ch EXCEPT !.unread = @ - n,
                        !.terminal = eof \/ final,
                        !.pending = ~eof /\ ~final /\ n = Budget,
                        !.lost = @ \/ (final /\ ~eof)]

\* A read fails: this channel's capture ends.
Broken(ch) == IF ch.terminal THEN ch ELSE [ch EXCEPT !.terminal = TRUE, !.pending = FALSE, !.lost = TRUE]

DrainAll == [c \in Channels |-> Drained(chan[c], FALSE)]

ReadStatusIgnoringRecord ==
    /\ resolved' = (resolved \/ report # "open")
    /\ UNCHANGED startError

\* read_status: the end of the pipe, or a record of what failed before execve.
ReadStatus ==
    /\ resolved' = (resolved \/ report # "open")
    /\ startError' = (startError \/ report = "error")

StateAfterStatus == IF state = "Starting" /\ resolved' /\ ~startError' THEN "Running" ELSE state

AllTerminal(channels) == \A c \in Channels : channels[c].terminal

FinishableEarly(channels) == resolved'

\* finish_if_ready: a reaped child is not enough, its launch must be known and its
\* output at an end.
Finishable(channels) == resolved' /\ AllTerminal(channels)

Kind ==
    IF stopKind # NoStop THEN stopKind
    ELSE IF startError' THEN "StartFailed"
    ELSE IF exitCode THEN "Exited" ELSE "Signaled"

\* Ends of a callback: the run is finished, or it goes on as next.
FinishOr(channels, next, armed) ==
    IF Finishable(channels)
    THEN state' = "Finished" /\ result' = Kind /\ timers' = {}
    ELSE state' = next /\ timers' = armed /\ UNCHANGED result

FinishIfReady(channels, next) ==
    IF state = "Finishing"
    THEN FinishOr(channels, next, timers)
    ELSE state' = next /\ UNCHANGED <<result, timers>>

\* Launch-status pipe.
StatusReady ==
    /\ state \in {"Starting", "Running", "Stopping", "Finishing"}
    /\ ~resolved
    /\ report # "open"
    /\ ReadStatus
    /\ chan' = DrainAll
    /\ FinishIfReady(chan', StateAfterStatus)
    /\ UNCHANGED <<gate, watched, killed, leaderSeen, stopKind, graceOver, child, stray>>

OutputStep(channels, c, drained) ==
    /\ ReadStatus
    /\ chan' = IF resolved' THEN [channels EXCEPT ![c] = drained] ELSE channels
    /\ FinishIfReady(chan', StateAfterStatus)
    /\ UNCHANGED <<gate, watched, killed, leaderSeen, stopKind, graceOver, child, stray>>

\* Output pipe c; the read may fail.
OutputReady(c) ==
    LET seen == [chan EXCEPT ![c].ready = FALSE] IN
    /\ state \in {"Starting", "Running", "Stopping", "Finishing"}
    /\ chan[c].ready
    /\ ~chan[c].terminal
    /\ \/ OutputStep(seen, c, Drained(seen[c], FALSE))
       \/ /\ ~seen[c].pending
          /\ OutputStep(seen, c, Broken(seen[c]))

\* The continuation posted when a callback used up its budget, or the failure
\* to post it.
Continue(c) ==
    LET seen == [chan EXCEPT ![c].pending = FALSE] IN
    /\ state \in {"Starting", "Running", "Stopping", "Finishing"}
    /\ chan[c].pending
    /\ ~chan[c].terminal
    /\ \/ OutputStep(seen, c, Drained(seen[c], FALSE))
       \/ OutputStep(seen, c, Broken(seen[c]))

-----------------------------------------------------------------------------
(* Stopping and reaping.                                                   *)

\* begin_stopping, after the SIGTERM.
BeginStopping(kind) ==
    /\ stopKind' = kind
    /\ state' = "Stopping"
    /\ graceOver' = FALSE
    /\ IF HasGrace
       THEN /\ timers' = {"grace"}
            /\ Send
            /\ UNCHANGED <<killed, doomed>>
       ELSE timers' = {} /\ KillGroup

\* stop(): a second request with the same cause changes nothing, one with
\* another cause is refused.
Stop(kind) ==
    /\ state \in {"Starting", "Running"}
    /\ BeginStopping(kind)
    /\ UNCHANGED <<gate, resolved, startError, watched, leaderSeen, chan, result,
                   leader, helpers, escaped, report, exitCode, executed>>

TimeoutExpired ==
    /\ "timeout" \in timers
    /\ state \in {"Starting", "Running"}
    /\ BeginStopping("TimedOut")
    /\ UNCHANGED <<gate, resolved, startError, watched, leaderSeen, chan, result,
                   leader, helpers, escaped, report, exitCode, executed>>

EnterFinishingWithoutTimer ==
    /\ leader' = "gone"
    /\ watched' = FALSE
    /\ leaderSeen' = FALSE
    /\ chan' = DrainAll
    /\ FinishOr(chan', "Finishing", {})

\* reap_child and enter_finishing: the leader is gone, tail output is waited
\* for, but not forever.
EnterFinishing ==
    /\ leader' = "gone"
    /\ watched' = FALSE
    /\ leaderSeen' = FALSE
    /\ chan' = DrainAll
    /\ FinishOr(chan', "Finishing", {"drain"})

InGraceNever == FALSE

InGrace == state = "Stopping" /\ "grace" \in timers /\ ~killed /\ ~graceOver

\* child_ready: the leader has exited.  During the grace it stays a zombie, so
\* that its group keeps its identity and its descendants their time.
ChildReady ==
    /\ state \in {"Starting", "Running", "Stopping"}
    /\ watched
    /\ leader = "zombie"
    /\ ReadStatus
    /\ IF InGrace
       THEN /\ leaderSeen' = TRUE
            /\ watched' = FALSE
            /\ chan' = DrainAll
            /\ state' = StateAfterStatus
            /\ UNCHANGED <<timers, killed, leader, doomed, stray, result>>
       ELSE KillGroup /\ EnterFinishing
    /\ UNCHANGED <<gate, stopKind, graceOver, helpers, escaped, report, exitCode, executed>>

GraceExpired ==
    /\ "grace" \in timers
    /\ graceOver
    /\ state = "Stopping"
    /\ KillGroup
    /\ UNCHANGED <<resolved, startError>>
    /\ IF leaderSeen
       THEN EnterFinishing
       ELSE timers' = timers \ {"grace"} /\ UNCHANGED <<state, watched, leaderSeen, chan, result, leader>>
    /\ UNCHANGED <<gate, stopKind, graceOver, helpers, escaped, report, exitCode, executed>>

\* post_reap_drain_expired: a last bounded read, then the channels are closed.
DrainExpired ==
    /\ "drain" \in timers
    /\ state = "Finishing"
    /\ UNCHANGED <<resolved, startError>>
    /\ chan' = [c \in Channels |-> Drained(chan[c], TRUE)]
    /\ FinishOr(chan', state, {})
    /\ UNCHANGED <<gate, watched, killed, leaderSeen, stopKind, graceOver, child, stray>>

DestroySignallingAlways ==
    /\ state \in {"Starting", "Running", "Stopping", "Finishing"}
    /\ state' = "Destroyed"
    /\ watched' = FALSE
    /\ timers' = {}
    /\ chan' = [c \in Channels |-> [chan[c] EXCEPT !.terminal = TRUE, !.pending = FALSE]]
    /\ leader' = "gone" /\ doomed' = TRUE /\ Send
    /\ UNCHANGED <<gate, resolved, startError, killed, leaderSeen, stopKind, graceOver, result,
                   helpers, escaped, report, exitCode, executed>>

\* ~Process: cleanup kills and reaps what is left; nothing is reported.
Destroy ==
    /\ state \in {"Starting", "Running", "Stopping", "Finishing"}
    /\ state' = "Destroyed"
    /\ watched' = FALSE
    /\ timers' = {}
    /\ chan' = [c \in Channels |-> [chan[c] EXCEPT !.terminal = TRUE, !.pending = FALSE]]
    /\ IF state = "Finishing"
       THEN UNCHANGED <<leader, doomed, stray>>
       ELSE leader' = "gone" /\ doomed' = TRUE /\ Send
    /\ UNCHANGED <<gate, resolved, startError, killed, leaderSeen, stopKind, graceOver, result,
                   helpers, escaped, report, exitCode, executed>>

-----------------------------------------------------------------------------
(* The child and the kernel.                                               *)

parent == <<state, supervision, graceOver, result, stray>>

\* Channels after the writers changed: the end of the pipe is an edge as well.
Edges == [c \in Channels |-> [chan[c] EXCEPT !.ready = @ \/ (Writer /\ ~Writer')]]

Dies(code) ==
    /\ leader' = "zombie"
    /\ exitCode' = code

\* execute_process_child up to the gate.
ChildPassesGateAlways ==
    /\ leader = "gated"
    /\ leader' = "setup"
    /\ UNCHANGED <<parent, helpers, escaped, report, exitCode, executed, doomed, chan>>

ChildPassesGate ==
    /\ leader = "gated"
    /\ gate = "released"
    /\ leader' = "setup"
    /\ UNCHANGED <<parent, helpers, escaped, report, exitCode, executed, doomed, chan>>

\* The gate is closed without permission: exit without a word.
ChildTurnsBack ==
    /\ leader = "gated"
    /\ gate = "closed"
    /\ Dies(TRUE)
    /\ report' = "eof"
    /\ UNCHANGED <<parent, helpers, escaped, executed, doomed>>
    /\ chan' = Edges

\* The steps after the gate, ending in execve or in a failure record.
ChildExecutes ==
    /\ leader = "setup"
    /\ leader' = "target"
    /\ executed' = TRUE
    /\ report' = "eof"
    /\ UNCHANGED <<parent, helpers, escaped, exitCode, doomed, chan>>

\* A signal before execve leaves no record either.
ChildIsSignalled ==
    /\ leader = "setup"
    /\ Dies(FALSE)
    /\ report' = "eof"
    /\ UNCHANGED <<parent, helpers, escaped, executed, doomed>>
    /\ chan' = Edges

ChildFails ==
    /\ leader = "setup"
    /\ Dies(TRUE)
    /\ report' = "error"
    /\ UNCHANGED <<parent, helpers, escaped, executed, doomed>>
    /\ chan' = Edges

\* The target, its descendants in the group, and those that left the group.
Write(c) ==
    /\ leader = "target" \/ helpers \/ escaped
    /\ chan[c].unread < MaxUnread
    /\ chan' = [chan EXCEPT ![c].unread = @ + 1, ![c].ready = TRUE]
    /\ UNCHANGED <<parent, child>>

Spawn ==
    /\ leader = "target"
    /\ \/ ~helpers /\ helpers' = TRUE /\ UNCHANGED escaped
       \/ ~escaped /\ escaped' = TRUE /\ UNCHANGED helpers
    /\ UNCHANGED <<parent, leader, report, exitCode, executed, doomed, chan>>

TargetExits(code) ==
    /\ leader = "target"
    /\ Dies(code)
    /\ UNCHANGED <<parent, helpers, escaped, report, executed, doomed>>
    /\ chan' = Edges

DescendantExits ==
    /\ \/ helpers /\ helpers' = FALSE /\ UNCHANGED escaped
       \/ escaped /\ escaped' = FALSE /\ UNCHANGED helpers
    /\ UNCHANGED <<parent, leader, report, exitCode, executed, doomed>>
    /\ chan' = Edges

\* SIGKILL takes effect on the group.
GroupDies ==
    /\ doomed
    /\ Alive \/ helpers
    /\ IF Alive THEN Dies(FALSE) ELSE UNCHANGED <<leader, exitCode>>
    /\ helpers' = FALSE
    /\ report' = IF report = "open" THEN "eof" ELSE report
    /\ UNCHANGED <<parent, escaped, executed, doomed>>
    /\ chan' = Edges

GracePasses ==
    /\ "grace" \in timers
    /\ ~graceOver
    /\ graceOver' = TRUE
    /\ UNCHANGED <<state, supervision, chan, result, child, stray>>

Callback ==
    \/ StatusReady
    \/ \E c \in Channels : OutputReady(c) \/ Continue(c)
    \/ TimeoutExpired
    \/ ChildReady
    \/ GraceExpired
    \/ DrainExpired

ChildStep ==
    \/ ChildPassesGate
    \/ ChildTurnsBack
    \/ ChildExecutes
    \/ ChildIsSignalled
    \/ ChildFails
    \/ \E c \in Channels : Write(c)
    \/ Spawn
    \/ \E code \in BOOLEAN : TargetExits(code)
    \/ DescendantExits
    \/ GroupDies

Next ==
    \/ Launch
    \/ Reject
    \/ AcceptExpired
    \/ Accept
    \/ Callback
    \/ \E kind \in {"Cancelled", "Interrupted"} : Stop(kind)
    \/ Destroy
    \/ ChildStep
    \/ GracePasses

\* The loop delivers every event and timer, time passes, SIGKILL works.  Nothing
\* is assumed of the target and its descendants.
Fairness ==
    /\ WF_vars(StatusReady)
    /\ \A c \in Channels : WF_vars(OutputReady(c)) /\ WF_vars(Continue(c))
    /\ WF_vars(ChildReady)
    /\ WF_vars(GracePasses)
    /\ WF_vars(GraceExpired)
    /\ WF_vars(DrainExpired)
    /\ WF_vars(GroupDies)

Spec == Init /\ [][Next]_vars /\ Fairness

-----------------------------------------------------------------------------
(* Properties.                                                             *)

\* The target runs only in an accepted run: a rejected start, or one whose
\* deadline passed before the gate, never executes anything.
ExecutesOnlyIfAccepted == executed => gate = "released"

\* No signal goes to a process group after its leader is reaped, when the number
\* may belong to somebody else, in whatever order stop, timeout, exit of the
\* leader and destruction come.
SignalsOwnGroup == ~stray

\* A run that is being stopped is killed only after its termination grace, even
\* if the leader exits early: its descendants get the full time.
GraceIsHonoured ==
    [][(~killed /\ killed' /\ stopKind # NoStop /\ HasGrace) => graceOver]_vars

\* An exit code that is reported is the target's: never that of a child that
\* failed before execve or was turned back at the gate.
ExitCodeIsTargets == result = "Exited" => executed

\* No output is lost silently: when the run is finished, each channel was read
\* to its end, or is marked as lost.
NoSilentLoss ==
    result # NoStop =>
        \A c \in Channels : chan[c].lost \/ (chan[c].unread = 0 /\ ~Writer)

\* A run's child is handled soundly in every order of kernel events: nothing is
\* executed by a rejected start, no foreign group is signalled, and the result and
\* output that are reported are the target's.
RunIsSound ==
    /\ ExecutesOnlyIfAccepted
    /\ SignalsOwnGroup
    /\ ExitCodeIsTargets
    /\ NoSilentLoss

\* A run whose child has exited finishes, and so does one that was told to stop,
\* although descendants outside the group may hold the pipes open and write.
ExitIsReported ==
    (state \in {"Starting", "Running", "Stopping"} /\ (leader = "zombie" \/ stopKind # NoStop))
        ~> (state \in {"Finished", "Destroyed"})

\* A run that ends or is stopped is reported, and never at the price of the
\* grace its group was promised.
StoppingIsOrderly ==
    GraceIsHonoured /\ ExitIsReported

=============================================================================

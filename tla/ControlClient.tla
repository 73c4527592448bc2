---------------------------- MODULE ControlClient -----------------------------
(***************************************************************************)
(* jobu::ControlClient over rpc::Client: typed calls with local deadlines. *)
(* Everything runs on one event loop, but its signals run user code which  *)
(* may call back: the call stack is part of the state.  A frame of the     *)
(* stack is a batch of emissions under way; user code runs while the top   *)
(* frame has emitted and not yet continued.  Posted tasks are frames that  *)
(* the loop will push, if the generation they were posted in is current.   *)
(***************************************************************************)
EXTENDS RpcConnection, FiniteSetsExt, Integers, TLC

CONSTANT Mutations   \* the calls for which is_mutation holds

VARIABLES
    ctl,     \* ControlClient::Private, see FreshControl
    stack,   \* frames of the user-visible call stack, innermost first
    tasks,   \* tasks posted to the event loop, in order
    asked,   \* session in which a call was accepted, 0 if it was not
    told,    \* outcomes delivered for a call
    failed   \* emissions of the session's failed signal

controlVars == <<ctl, stack, tasks, asked, told, failed>>

\* The handshake is pending under local identifier 0.
Locals == Calls \cup {0}

NoOutcome == [kind |-> "none", result |-> 0]

FreshControl ==
    [alive |-> TRUE, phase |-> "uninitialized", pend |-> << >>, w2l |-> << >>,
     ready |-> << >>, scheduled |-> FALSE, gen |-> 0, armed |-> FALSE]

Without(f, ids) == Restrict(f, DOMAIN f \ ids)

Unanswered(p) == {i \in DOMAIN p : p[i].outcome.kind = "none"}

UserRuns == stack # << >> => stack[1].open

Emitting(calls, signal, posts) ==
    [kind |-> "emit", open |-> FALSE, calls |-> calls, signal |-> signal, posts |-> posts, gen |-> 0]

Delivering(gen) ==
    [kind |-> "deliver", open |-> FALSE, calls |-> << >>, signal |-> FALSE, posts |-> << >>,
     gen |-> gen]

\* start_call behind a device callback that closed the client during the write.
Starting == [Delivering(0) EXCEPT !.kind = "start"]

Push(frame) == stack' = <<frame>> \o stack

\* rearm_deadline: one timer for the earliest deadline of the unanswered calls.
Rearmed(c) == [c EXCEPT !.armed = Unanswered(c.pend) # {}]

-----------------------------------------------------------------------------
(* How a call ends.                                                        *)

\* local_failure: a mutation that may have been sent has an unknown outcome.
LocalFailure(i, sent) == [kind |-> IF i \in Mutations /\ sent THEN "unknown" ELSE "sure", result |-> 0]

\* deliver_retired_call and deliver_one: an answer is kept, remote errors are
\* passed on, and a result that does not decode is a failure.
Outcomes(i, call) ==
    CASE call.outcome.kind = "none" -> {LocalFailure(i, call.sent)}
      [] call.outcome.kind = "ok"   -> {call.outcome, LocalFailure(i, TRUE)}
      [] OTHER                      -> {call.outcome}

Tell(i, outcome) == told' = [told EXCEPT ![i] = Append(@, outcome)]

EmitFailed == failed' = [failed EXCEPT ![cur] = @ + 1]

\* What every way of ending the session does; fail_handshake without the signal.
Ended(c, phase) ==
    [c EXCEPT !.phase = phase, !.pend = << >>, !.w2l = << >>, !.ready = << >>, !.armed = FALSE]

\* Mutant of OnTerminated: how the session ended says nothing of the call
\* being written.
OnTerminatedUnsent(pend, maySent) ==
    IF ctl.alive /\ ctl.phase \notin {"closed", "failed"}
    THEN /\ ctl' = [Ended(ctl, "failed") EXCEPT !.gen = @ + 1]
         /\ tasks' = Append(tasks, [gen |-> ctl.gen + 1,
                                    frame |-> Emitting(Without(pend, {0}), TRUE, << >>)])
    ELSE UNCHANGED <<ctl, tasks>>

\* on_terminated: the calls are retired at once and settled by a posted task;
\* after a device failure even the call being written may have been sent.
OnTerminated(pend, maySent) ==
    IF ctl.alive /\ ctl.phase \notin {"closed", "failed"}
    THEN /\ ctl' = [Ended(ctl, "failed") EXCEPT !.gen = @ + 1]
         /\ tasks' = Append(tasks,
                [gen |-> ctl.gen + 1,
                 frame |-> Emitting([i \in DOMAIN pend \ {0} |->
                                        [pend[i] EXCEPT !.sent = @ \/ maySent]], TRUE, << >>)])
    ELSE UNCHANGED <<ctl, tasks>>

\* rpc::Client::Private::terminate.
Terminate(pend, maySent) ==
    /\ rpc' = [rpc EXCEPT !.closed = TRUE, !.pending = {}]
    /\ OnTerminated(pend, maySent)

Wires(pend) == {pend[i].wire : i \in DOMAIN pend}

\* Mutant of Owed: the call being written is settled here as well.
OwedWithWriter(pend, est) == Without(pend, {0})

\* The calls close() settles itself, in the order of their identifiers.
Owed(pend, est) == Without(pend, {0, est})

\* ControlClient::Private::close(true), called while est is being written
\* (-1 when nothing is): its outcome waits until the accepting call returns.
CloseControl(pend, est, below) ==
    LET gen    == ctl.gen + 1
        settle == CASE est = 0 -> <<Emitting(<< >>, TRUE, << >>)>>
                    [] est > 0 -> <<Emitting([i \in {est} |-> [pend[i] EXCEPT !.sent = TRUE]],
                                             FALSE, << >>)>>
                    [] OTHER   -> << >>
    IN /\ ctl' = [Ended(ctl, "closed") EXCEPT !.gen = gen]
       /\ stack' = <<Emitting(Owed(pend, est), ctl.phase = "initializing" /\ est # 0,
                              [k \in DOMAIN settle |-> [gen |-> gen, frame |-> settle[k]]])>>
                   \o below \o stack

-----------------------------------------------------------------------------
(* Operations of the user, from the loop or from a handler.                *)

\* call under local identifier i: the frame is written, or the output limit
\* ends the session, or the device fails while writing, before or after the
\* frame has left, or a device callback closes the wrapper under the write.
Write(i) ==
    LET new   == [wire |-> 0, outcome |-> NoOutcome, sent |-> FALSE]
        pend  == [j \in DOMAIN ctl.pend \cup {i} |-> IF j = i THEN new ELSE ctl.pend[j]]
        bound == [pend EXCEPT ![i].wire = NextWire, ![i].sent = TRUE]
        frame == [wire |-> NextWire, call |-> i]
    IN \/ /\ OutputFits /\ QueueRequest(frame)
          /\ rpc' = [rpc EXCEPT !.pending = @ \cup {NextWire}, !.issued = NextWire]
          /\ ctl' = Rearmed([ctl EXCEPT !.phase = IF i = 0 THEN "initializing" ELSE @,
                                        !.pend = bound, !.w2l = @ @@ (NextWire :> i)])
          /\ UNCHANGED <<device, down, downUnsent, stack, tasks>>
       \/ /\ ~OutputFits /\ Terminate(pend, FALSE)
          /\ UNCHANGED <<device, up, upUnsent, down, downUnsent, stack>>
       \/ /\ OutputFits /\ Terminate(pend, TRUE)
          /\ \/ ReleaseDevice
             \/ ReleaseSent(frame)
          /\ UNCHANGED stack
       \/ /\ OutputFits /\ QueueRequest(frame)
          /\ CloseControl(pend, i, <<Starting>>)
          /\ rpc' = [rpc EXCEPT !.pending = @ \ Wires(pend)]
          /\ UNCHANGED <<device, down, downUnsent, tasks>>

Initialize ==
    /\ UserRuns /\ ctl.alive /\ ~rpc.closed
    /\ ctl.phase = "uninitialized"
    /\ Write(0)
    /\ UNCHANGED <<cur, conn, faults, asked, told, failed>>

\* The early returns of start_encoded_call and start_call.
Accepts(i) ==
    /\ asked[i] = 0 /\ ctl.phase = "ready"
    /\ Cardinality(DOMAIN ctl.pend) < MaxPending

StartCall(i) ==
    /\ UserRuns /\ ctl.alive
    /\ Accepts(i)
    /\ Write(i)
    /\ asked' = [asked EXCEPT ![i] = cur]
    /\ UNCHANGED <<cur, conn, faults, told, failed>>

\* cancel_call stops the observation, not the remote work; an undelivered
\* remote error is taken for a known outcome.
CancelCall(i) ==
    /\ UserRuns /\ ctl.alive /\ i \in DOMAIN ctl.pend
    /\ ctl' = Rearmed([ctl EXCEPT !.pend = Without(@, {i}), !.w2l = Without(@, {ctl.pend[i].wire}),
                                  !.ready = SelectSeq(@, LAMBDA j : j # i)])
    /\ rpc' = [rpc EXCEPT !.pending = @ \ {ctl.pend[i].wire}]
    /\ LET answer    == ctl.pend[i].outcome.kind
           uncertain == i \in Mutations /\ ctl.pend[i].sent /\ answer \in {"none", "ok"}
       IN Tell(i, [kind |-> IF uncertain THEN "unknown" ELSE "cancelled", result |-> 0])
    /\ UNCHANGED <<cur, device, up, upUnsent, down, downUnsent, conn, faults, stack, tasks, asked, failed>>

\* close()
CloseWrapper ==
    /\ UserRuns /\ ctl.alive /\ ctl.phase \notin {"closed", "failed"}
    /\ CloseControl(ctl.pend, -1, << >>)
    /\ rpc' = [rpc EXCEPT !.pending = @ \ Wires(ctl.pend)]
    /\ UNCHANGED <<cur, device, up, upUnsent, down, downUnsent, conn, faults, tasks, asked, told, failed>>

\* ~ControlClient: close(false).  Tasks already posted see the expired guard.
Destroy ==
    /\ UserRuns /\ ctl.alive
    /\ ctl' = [Ended(ctl, IF ctl.phase = "failed" THEN "failed" ELSE "closed")
                  EXCEPT !.alive = FALSE, !.gen = @ + 1, !.scheduled = FALSE]
    /\ rpc' = [rpc EXCEPT !.pending = @ \ Wires(ctl.pend)]
    /\ tasks' = << >>
    /\ UNCHANGED <<cur, device, up, upUnsent, down, downUnsent, conn, faults, stack, asked, told, failed>>

\* The user aborts the socket, or it fails: closed or error_occurred.
LoseDevice ==
    /\ UserRuns /\ device
    /\ ReleaseDevice
    /\ IF rpc.closed THEN UNCHANGED <<rpc, ctl, tasks>> ELSE Terminate(ctl.pend, TRUE)
    /\ UNCHANGED <<cur, conn, faults, stack, asked, told, failed>>

-----------------------------------------------------------------------------
(* Emissions, one handler at a time.                                       *)

Pop == stack' = Tail(stack)

\* The loops over retired calls: failed first, then the calls by identifier,
\* each followed by a look at the lifetime guard only.
ContinueEmit ==
    /\ stack # << >> /\ stack[1].kind = "emit"
    /\ LET top == stack[1] IN
       \/ /\ ctl.alive /\ top.signal
          /\ EmitFailed
          /\ stack' = <<[top EXCEPT !.signal = FALSE, !.open = TRUE]>> \o Tail(stack)
          /\ UNCHANGED <<tasks, told>>
       \/ /\ ctl.alive /\ ~top.signal /\ DOMAIN top.calls # {}
          /\ LET i == Min(DOMAIN top.calls) IN
             /\ \E outcome \in Outcomes(i, top.calls[i]) : Tell(i, outcome)
             /\ stack' = <<[top EXCEPT !.calls = Without(@, {i}), !.open = TRUE]>> \o Tail(stack)
          /\ UNCHANGED <<tasks, failed>>
       \/ /\ ctl.alive /\ ~top.signal /\ DOMAIN top.calls = {}
          /\ tasks' = tasks \o top.posts
          /\ Pop
          /\ UNCHANGED <<told, failed>>
       \/ /\ ~ctl.alive /\ Pop
          /\ UNCHANGED <<tasks, told, failed>>
    /\ UNCHANGED <<linkVars, ctl, asked>>

\* deliver_ready_outcomes: the generation says whether a handler closed it.
ContinueDeliver ==
    /\ stack # << >> /\ stack[1].kind = "deliver"
    /\ LET more == /\ ctl.alive /\ stack[1].gen = ctl.gen
                   /\ ctl.phase \in {"initializing", "ready"} /\ ctl.ready # << >>
           i    == Head(ctl.ready)
           rest == Rearmed([ctl EXCEPT !.ready = Tail(@), !.pend = Without(@, {i})])
           next == stack' = <<[stack[1] EXCEPT !.open = TRUE]>> \o Tail(stack)
       IN \/ /\ ~more /\ Pop
             /\ UNCHANGED <<ctl, told, failed>>
          \/ /\ more /\ i > 0
             /\ ctl' = rest /\ next
             /\ \E outcome \in Outcomes(i, ctl.pend[i]) : Tell(i, outcome)
             /\ UNCHANGED failed
          \/ /\ more /\ i = 0 /\ ctl.pend[i].outcome.kind = "ok"
             /\ ctl' = [rest EXCEPT !.phase = "ready"] /\ next
             /\ UNCHANGED <<told, failed>>
          \/ /\ more /\ i = 0
             /\ ctl' = Ended(rest, "failed") /\ next
             /\ EmitFailed
             /\ UNCHANGED told
    /\ UNCHANGED <<linkVars, tasks, asked>>

\* Back in start_call, whose wrapper was closed: the request is cancelled.
ContinueStart ==
    /\ stack # << >> /\ stack[1].kind = "start"
    /\ rpc' = IF rpc.closed THEN rpc ELSE [rpc EXCEPT !.issued = NextWire]
    /\ Pop
    /\ UNCHANGED <<cur, device, up, upUnsent, down, downUnsent, conn, faults,
                   ctl, tasks, asked, told, failed>>

-----------------------------------------------------------------------------
(* Events of the loop.                                                     *)

\* record_response, and schedule_delivery with it.
Recorded(frame) ==
    LET i   == ctl.w2l[frame.wire]
        set == [ctl EXCEPT !.w2l = Without(@, {frame.wire}),
                           !.pend[i].outcome = [kind |-> frame.kind, result |-> frame.result],
                           !.ready = Append(@, i), !.scheduled = TRUE]
    IN /\ ctl' = Rearmed(set)
       /\ tasks' = IF ctl.scheduled THEN tasks
                   ELSE Append(tasks, [gen |-> ctl.gen, frame |-> Delivering(ctl.gen)])

\* process_readable, one response: of a pending call, or late and dropped, or
\* not a valid response, which is terminal.
ClientRead ==
    /\ stack = << >> /\ device /\ ~rpc.closed /\ Readable(cur)
    /\ down' = [down EXCEPT ![cur] = Tail(@)]
    /\ LET frame == Head(down[cur]) IN
       \/ /\ rpc' = [rpc EXCEPT !.pending = @ \ {frame.wire}]
          /\ IF frame.wire \in rpc.pending /\ ctl.alive /\ frame.wire \in DOMAIN ctl.w2l
             THEN Recorded(frame)
             ELSE UNCHANGED <<ctl, tasks>>
          /\ UNCHANGED faults
       \/ /\ faults < MaxFaults /\ faults' = faults + 1
          /\ Terminate(ctl.pend, FALSE)
    /\ UNCHANGED <<cur, device, up, upUnsent, downUnsent, conn, stack, asked, told, failed>>

\* End of input: the socket closes.
ClientEnd ==
    /\ stack = << >> /\ AtEnd
    /\ ReleaseDevice
    /\ IF rpc.closed THEN UNCHANGED <<rpc, ctl, tasks>> ELSE Terminate(ctl.pend, TRUE)
    /\ UNCHANGED <<cur, conn, faults, stack, asked, told, failed>>

\* Mutant of Expired: the timer that fired is not started again.
ExpiredUnarmed(due) ==
    [ctl EXCEPT !.pend = Without(@, due), !.armed = FALSE,
                !.w2l = Without(@, Wires(Restrict(ctl.pend, due)))]

\* Mutant of Expired: the wire identifiers stay bound.
ExpiredBound(due) == Rearmed([ctl EXCEPT !.pend = Without(@, due)])

\* The wrapper without the calls that are due.
Expired(due) ==
    Rearmed([ctl EXCEPT !.pend = Without(@, due), !.w2l = Without(@, Wires(Restrict(ctl.pend, due)))])

\* on_timeout: every unanswered call that is due is retired, then told.
Timeout ==
    /\ stack = << >> /\ ctl.alive /\ ctl.armed
    /\ \E due \in SUBSET Unanswered(ctl.pend) \ {{}} :
          /\ rpc' = [rpc EXCEPT !.pending = @ \ Wires(Restrict(ctl.pend, due))]
          /\ IF 0 \in due
             THEN /\ ctl' = Ended(ctl, "failed")
                  /\ EmitFailed
                  /\ UNCHANGED stack
             ELSE /\ ctl' = Expired(due)
                  /\ Push(Emitting(Restrict(ctl.pend, due), FALSE, << >>))
                  /\ UNCHANGED failed
    /\ UNCHANGED <<cur, device, up, upUnsent, down, downUnsent, conn, faults, tasks, asked, told>>

\* The loop runs the next posted task, if its wrapper and generation still stand.
RunTask ==
    /\ stack = << >> /\ tasks # << >>
    /\ tasks' = Tail(tasks)
    /\ IF tasks[1].gen = ctl.gen
       THEN /\ Push(tasks[1].frame)
            /\ ctl' = [ctl EXCEPT !.scheduled = @ /\ tasks[1].frame.kind # "deliver"]
       ELSE UNCHANGED <<stack, ctl>>
    /\ UNCHANGED <<linkVars, asked, told, failed>>

=============================================================================

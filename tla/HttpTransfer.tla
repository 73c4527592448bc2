----------------------------- MODULE HttpTransfer -----------------------------
(***************************************************************************)
(* SystemHttpClient and its CurlMultiAdapter: requests admitted with an    *)
(* absolute deadline, driven by libcurl's multi handle through the event   *)
(* loop, and completed once each, asynchronously.                          *)
(*                                                                         *)
(* Everything runs on the loop's thread.  The loop is a queue of tasks and *)
(* a set of zero-delay timers (the fallback of a failed post), the         *)
(* deadline timer, libcurl's timer and one watched socket per request.     *)
(* What libcurl does inside a drive is chosen freely.  A request's legs    *)
(* are the module HttpLeg; here a finished transfer either needs another   *)
(* leg or gives the result.                                                *)
(***************************************************************************)
EXTENDS Naturals, Sequences, FiniteSets, SequencesExt

CONSTANTS
    HttpIds,     \* request identifiers, 1..N
    TimeoutOf,   \* HttpRequest::timeout of each
    Horizon,     \* bound on the monotonic clock
    MaxLegs,     \* bound on legs of a request
    MaxHttpFaults\* bound on failing posts, watches and libcurl calls

VARIABLES
    client,   \* SystemHttpClient: alive, stored_failure, failure_emitted, deadline_timer_at
    reqs,     \* requests: state, accepted, deadline, attached to requests_by_easy
    multi,    \* CurlMultiAdapter
    queue,    \* tasks posted to the loop
    zero,     \* the same tasks posted as zero-delay timers
    now,
    faults,
    told,     \* history: what the completion handler of each request was given
    emitted   \* history: how often failed was emitted

httpVars == <<client, reqs, multi, queue, zero, now, faults, told, emitted>>

NoDeadline == 0
Free == [state |-> "none", deadline |-> 0, attached |-> FALSE, legs |-> 0, result |-> "none", late |-> FALSE]

HttpInit ==
    /\ client = [alive |-> TRUE, failed |-> FALSE, said |-> FALSE, timerAt |-> NoDeadline]
    /\ reqs = [i \in HttpIds |-> Free]
    /\ multi = [failed |-> FALSE, easies |-> {}, watches |-> {}, pending |-> {},
                timer |-> FALSE, asked |-> FALSE, update |-> FALSE,
                queued |-> FALSE, detach |-> FALSE]
    /\ queue = << >>
    /\ zero = {}
    /\ now = 1
    /\ faults = 0
    /\ told = [i \in HttpIds |-> << >>]
    /\ emitted = 0

Available == client.alive /\ ~multi.failed

\* The state a handler works on, so that what it calls can be composed.
World == [c |-> client, r |-> reqs, m |-> multi, q |-> queue, z |-> zero, f |-> faults]

Becomes(w) ==
    /\ client' = w.c /\ reqs' = w.r /\ multi' = w.m
    /\ queue' = w.q /\ zero' = w.z /\ faults' = w.f

-----------------------------------------------------------------------------
(* Completion and failure.                                                 *)

\* post, and on failure the zero-delay timer.
PostOrDelay(w, t, ok) ==
    IF ok THEN [w EXCEPT !.q = Append(@, t)]
    ELSE [w EXCEPT !.z = @ \cup {t}, !.f = @ + 1]

QueueCompletion(w, i, result, ok) ==
    PostOrDelay([w EXCEPT !.r[i].state = "Pending", !.r[i].result = result, 
                             !.r[i].late = w.r[i].deadline <= now],
                <<"deliver", i>>, ok)

Running(w) == {i \in HttpIds : w.r[i].state = "Running"}

\* The order of an unordered_map; no property depends on it.
InOrder(S) == SetToSortSeq(S, LAMBDA i, j : i < j)

\* fail(): every running request is owed a completion.
CompleteAll(w, S, ok) ==
    FoldLeft(LAMBDA v, i : QueueCompletion(v, i, "internal", ok), w, InOrder(S))

StoreFailure(w, ok) ==
    LET cleared == [w EXCEPT !.c.failed = TRUE, !.c.timerAt = NoDeadline,
                             !.r = [i \in HttpIds |-> [w.r[i] EXCEPT !.attached = FALSE]]]
    IN  IF w.c.failed THEN w
        ELSE PostOrDelay(CompleteAll(cleared, Running(cleared), ok), <<"emit">>, TRUE)

\* enter_failed(): the adapter retires the whole multi handle; watches are
\* detached later when the failure happened inside one of their callbacks.
EnterFailed(w, inside, ok) ==
    LET gone == [w EXCEPT !.m.failed = TRUE, !.m.easies = {}, !.m.timer = FALSE,
                          !.m.pending = {}, !.m.update = FALSE, !.m.asked = FALSE,
                          !.m.watches = IF inside THEN @ ELSE {},
                          !.m.detach = inside]
    IN  IF w.m.failed THEN w
        ELSE StoreFailure(IF inside THEN PostOrDelay(gone, <<"detach">>, TRUE) ELSE gone, ok)

NoCompletionForRunning(w, inside, ok) ==
    [w EXCEPT !.m.failed = TRUE, !.m.easies = {}, !.c.failed = TRUE, !.m.timer = FALSE,
              !.m.watches = {}, !.c.timerAt = NoDeadline]

Fail(w, inside, ok) == EnterFailed(w, inside, ok)

\* refresh_deadline_timer(): the one timer is set to the earliest deadline of the
\* running requests.
Earliest(w) ==
    LET D == {w.r[i].deadline : i \in Running(w)}
    IN  IF D = {} THEN NoDeadline ELSE CHOOSE d \in D : \A e \in D : d <= e

RefreshOnlyWhenUnset(w) ==
    [w EXCEPT !.c.timerAt = IF w.m.failed THEN NoDeadline
                            ELSE IF @ # NoDeadline THEN @ ELSE Earliest(w)]

Refresh(w) == [w EXCEPT !.c.timerAt = IF w.m.failed THEN NoDeadline ELSE Earliest(w)]

\* schedule_reconcile(): one task for all recorded socket and timer updates.
ScheduleReconcile(w, ok) ==
    IF (w.m.pending = {} /\ ~w.m.update) \/ w.m.queued \/ w.m.failed THEN w
    ELSE IF ok THEN [w EXCEPT !.m.queued = TRUE, !.q = Append(@, <<"reconcile">>)]
    ELSE Fail([w EXCEPT !.f = @ + 1], FALSE, TRUE)

\* multi->remove(): libcurl drops the handle and its socket.
RemoveEasy(w, i, ok) ==
    ScheduleReconcile([w EXCEPT !.m.easies = @ \ {i}, !.m.pending = @ \cup {<<i, "remove">>}], ok)

\* A request that ends before libcurl is done with it.
Withdraw(w, i, result, ok) ==
    LET removed == RemoveEasy(w, i, TRUE)
    IN  QueueCompletion([removed EXCEPT !.r[i].attached = FALSE], i, result, ok)

Due(w, i) == w.r[i].state = "Running" /\ w.r[i].deadline <= now

ExpireDueRequests(w, ok) ==
    IF w.m.failed THEN w
    ELSE Refresh(FoldLeft(LAMBDA v, i : Withdraw(v, i, "timeout", ok), w,
                          InOrder({i \in HttpIds : Due(w, i)})))

CancelFirst(w) == w

ElapsedFirst(w) == ExpireDueRequests(w, TRUE)

MayFault(ok) == ok \/ faults < MaxHttpFaults

-----------------------------------------------------------------------------
(* The owner.                                                              *)

Admitted(w, i) ==
    [w EXCEPT !.r[i] = [Free EXCEPT !.state = "Running", !.deadline = now + TimeoutOf[i], !.attached = TRUE],
              !.m.easies = @ \cup {i},
              !.q = Append(@, <<"drive", i, 0>>)]

\* start(): the failure of a libcurl call or of the post of the first drive
\* fails the backend and leaves nothing of the request.
StartRequest(i, ok) ==
    /\ Available /\ ~client.failed /\ MayFault(ok)
    /\ reqs[i] = Free /\ now + TimeoutOf[i] <= Horizon
    /\ \A j \in HttpIds : j < i => reqs[j] # Free
    /\ Becomes(IF ok THEN Refresh(Admitted(World, i))
               ELSE Fail([World EXCEPT !.f = @ + 1], FALSE, TRUE))
    /\ UNCHANGED <<now, told, emitted>>

\* cancel(): a deadline that has passed wins.
CancelRequest(i, ok) ==
    /\ Available /\ MayFault(ok)
    /\ reqs[i].state # "none"
    /\ LET w == ElapsedFirst(World)
       IN  Becomes(IF w.r[i].state = "Running"
                   THEN Refresh(Withdraw(w, i, "cancelled", ok)) ELSE w)
    /\ (~ok => ~Due(World, i) /\ reqs[i].state = "Running")
    /\ UNCHANGED <<now, told, emitted>>

\* ~SystemHttpClient: callbacks still queued will find no owner and do nothing.
DestroyClient ==
    /\ client.alive
    /\ client' = [client EXCEPT !.alive = FALSE, !.timerAt = NoDeadline]
    /\ reqs' = [i \in HttpIds |-> IF reqs[i].state \in {"Running", "Pending"}
                                   THEN [Free EXCEPT !.state = "dropped"] ELSE reqs[i]]
    /\ multi' = [multi EXCEPT !.easies = {}, !.watches = {}, !.pending = {}, !.timer = FALSE,
                             !.asked = FALSE, !.update = FALSE, !.queued = FALSE, !.detach = FALSE]
    /\ queue' = << >> /\ zero' = {}
    /\ UNCHANGED <<now, faults, told, emitted>>

-----------------------------------------------------------------------------
(* libcurl.                                                                *)

\* What libcurl may do in curl_multi_socket_action: ask for sockets to be watched
\* or not, ask for its timer, and finish at most one transfer.
Records(w, i, act) ==
    [w EXCEPT !.m.pending = (@ \ {<<i, "add">>, <<i, "remove">>}) \cup {<<i, act>>},
              !.m.update = TRUE, !.m.asked = (act = "add"), !.m.timer = FALSE]

\* complete(): the transfer of i is over.
Complete(w, i, another, ok) ==
    LET detached == [w EXCEPT !.m.easies = @ \ {i}]
    IN  IF another /\ w.r[i].deadline > now
        THEN Refresh([detached EXCEPT !.m.easies = @ \cup {i}, !.r[i].legs = @ + 1,
                                      !.q = Append(@, <<"drive", i, w.r[i].legs + 1>>)])
        ELSE Refresh(QueueCompletion([detached EXCEPT !.r[i].attached = FALSE], i,
                        IF w.r[i].deadline <= now THEN "timeout" ELSE "response", ok))

\* drive(): socket_action, drain_completions, schedule_reconcile.  libcurl does
\* nothing, asks for a socket to be watched, finishes a transfer (whose request
\* may need another leg) or fails.
Driven(w, i, does, inside, ok) ==
    CASE does = "nothing" -> w
      [] does = "watch" -> ScheduleReconcile(Records(w, i, "add"), ok)
      [] does \in {"finish", "redirect"} ->
            ScheduleReconcile(Complete(Records(w, i, "remove"), i, does = "redirect", ok), TRUE)
      [] does = "fail" -> Fail([w EXCEPT !.f = @ + 1], inside, TRUE)

Does(w, i) ==
    {"nothing", "watch", "finish"}
    \cup (IF w.r[i].legs < MaxLegs THEN {"redirect"} ELSE {})
    \cup (IF faults < MaxHttpFaults THEN {"fail"} ELSE {})

Drive(w, inside) ==
    IF w.m.failed \/ w.m.easies = {} THEN Becomes(w)
    ELSE \E i \in w.m.easies : \E does \in Does(w, i), ok \in BOOLEAN :
            /\ MayFault(ok)
            /\ ~ok => does \in {"watch", "finish"}
            /\ Becomes(Driven(w, i, does, inside, ok))

\* reconcile(): the recorded updates become watches and a timer.
ReconcileWatches(w) ==
    LET adds == {u[1] : u \in {v \in w.m.pending : v[2] = "add"}}
        removes == {u[1] : u \in {v \in w.m.pending : v[2] = "remove"}}
    IN  [w EXCEPT !.m.watches = (@ \ removes) \cup adds, !.m.pending = {},
                  !.m.update = FALSE, !.m.asked = FALSE,
                  !.m.timer = IF w.m.update THEN w.m.asked ELSE @]

-----------------------------------------------------------------------------
(* Tasks and timers of the loop.                                           *)

Deliver(w, i) ==
    IF w.r[i].state = "Pending" THEN [w EXCEPT !.r[i].state = "done", !.r[i].deadline = 0, !.r[i].legs = 0] ELSE w

RunLoopTask(t, w) ==
    \/ /\ t[1] = "deliver"
       /\ told' = IF w.r[t[2]].state = "Pending"
                  THEN [told EXCEPT ![t[2]] = Append(@, w.r[t[2]].result)] ELSE told
       /\ Becomes(Deliver(w, t[2]))
       /\ UNCHANGED emitted
    \/ /\ t[1] = "emit"
       /\ emitted' = IF client.said THEN emitted ELSE emitted + 1
       /\ Becomes([w EXCEPT !.c.said = TRUE])
       /\ UNCHANGED told
    \/ /\ t[1] = "detach"
       /\ Becomes([w EXCEPT !.m.watches = {}, !.m.detach = FALSE])
       /\ UNCHANGED <<told, emitted>>
    \/ /\ t[1] = "reconcile"
       /\ LET v == [w EXCEPT !.m.queued = FALSE]
          IN  \/ Becomes(IF v.m.failed THEN v ELSE ReconcileWatches(v))
              \/ /\ ~v.m.failed /\ v.m.pending # {} /\ faults < MaxHttpFaults
                 /\ Becomes(Fail([v EXCEPT !.f = @ + 1], FALSE, TRUE))
       /\ UNCHANGED <<told, emitted>>
    \/ /\ t[1] = "drive"
       /\ LET v == ExpireDueRequests(w, TRUE)
          IN  Drive(IF v.m.failed THEN v ELSE ReconcileWatches(v), FALSE)
       /\ UNCHANGED <<told, emitted>>

LoopTask ==
    /\ queue # << >>
    /\ RunLoopTask(Head(queue), [World EXCEPT !.q = Tail(@)])
    /\ UNCHANGED now

ZeroTimer ==
    \E t \in zero :
        /\ RunLoopTask(t, [World EXCEPT !.z = @ \ {t}])
        /\ UNCHANGED now

\* handle_deadline_timer()
DeadlineTimer(ok) ==
    /\ client.timerAt # NoDeadline /\ client.timerAt <= now
    /\ MayFault(ok)
    /\ Becomes(ExpireDueRequests([World EXCEPT !.c.timerAt = NoDeadline], ok))
    /\ UNCHANGED <<now, told, emitted>>

\* handle_timeout() and handle_socket_ready()
CurlTimer ==
    /\ multi.timer
    /\ Drive([World EXCEPT !.m.timer = FALSE], FALSE)
    /\ UNCHANGED <<now, told, emitted>>

SocketReady(i) ==
    /\ i \in multi.watches /\ ~multi.failed
    /\ Drive(World, TRUE)
    /\ UNCHANGED <<now, told, emitted>>

TickHttp ==
    /\ client.alive /\ now < Horizon
    /\ now' = now + 1
    /\ UNCHANGED <<client, reqs, multi, queue, zero, faults, told, emitted>>

HttpNext ==
    \/ \E i \in HttpIds, ok \in BOOLEAN : StartRequest(i, ok)
    \/ \E i \in HttpIds, ok \in BOOLEAN : CancelRequest(i, ok)
    \/ DestroyClient
    \/ LoopTask
    \/ ZeroTimer
    \/ \E ok \in BOOLEAN : DeadlineTimer(ok)
    \/ CurlTimer
    \/ \E i \in HttpIds : SocketReady(i)
    \/ TickHttp

HttpSpec == HttpInit /\ [][HttpNext]_httpVars

-----------------------------------------------------------------------------
(* Properties.                                                             *)

Deliveries(i) ==
    Cardinality({k \in DOMAIN queue : queue[k] = <<"deliver", i>>})
    + Cardinality({t \in zero : t = <<"deliver", i>>})

\* The tables of client and adapter agree at every turn of the loop: a running
\* request is in the multi handle and a completed one is not, each completion
\* owed is queued exactly once, nothing runs on a failed backend, and its watches
\* go away.
HttpTablesAgree ==
    client.alive =>
        /\ ~multi.failed => multi.easies = {i \in HttpIds : reqs[i].state = "Running"}
        /\ \A i \in HttpIds :
              /\ reqs[i].attached <=> reqs[i].state = "Running"
              /\ Deliveries(i) = (IF reqs[i].state = "Pending" THEN 1 ELSE 0)
        /\ multi.failed => /\ client.failed
                           /\ \A i \in HttpIds : reqs[i].state # "Running"
                           /\ multi.watches = {} \/ multi.detach
        /\ emitted <= 1

\* The handler of an accepted request is called at most once, and a request that
\* ran past its deadline is told so whatever raced it: a cancellation, or a
\* response, that came later than the deadline is never reported.
DeadlineWins ==
    \A i \in HttpIds :
        /\ Len(told[i]) <= 1
        /\ reqs[i].result \in {"cancelled", "response"} => ~reqs[i].late

\* While requests run, the one deadline timer stands at the earliest of their
\* deadlines, so that sockets may stay silent and every request still ends.
DeadlineTimerIsEarliest ==
    (client.alive /\ ~multi.failed) => client.timerAt = Earliest(World)

\* Every accepted request is in exactly the tables its state calls for and covered
\* by the deadline timer, and is told one outcome, its timeout if it had one.
TransfersAccounted ==
    HttpTablesAgree /\ DeadlineWins /\ DeadlineTimerIsEarliest

=============================================================================

----------------------------- MODULE CtlSession -----------------------------
(***************************************************************************)
(* One command of jobuctl.  Session connects, waits for the handshake,     *)
(* resolves a queue the user has named to an id, issues the command and,   *)
(* for some commands, goes on: suspensions and cancellations with --wait   *)
(* poll until they are confirmed, run get looks up the last attempt, run   *)
(* output searches the pages of attempts for the latest completed one.     *)
(* Everything shares one deadline.  Meanwhile the daemon serves other      *)
(* clients, the connection may be lost at any point, and a reply may be    *)
(* about something else than what was asked.                               *)
(*                                                                         *)
(* The text "u1" is the UUID of queue 1, and also a name a queue may have. *)
(***************************************************************************)
EXTENDS Integers, Sequences, FiniteSets, SequencesExt

CONSTANTS
    MaxWorld,     \* changes other clients and workers make
    MaxWrong,     \* replies about something else than what was asked
    MaxTries      \* attempts of the run

QueueIds == {1, 2}
QueueNames == {"u1", "b"}
NoQueue == 0
NoCall == [op |-> "none"]
NoReply == [is |-> "none"]

VARIABLES
    command,      \* what the user asked for
    sPhase,       \* Session::Private::phase
    active,       \* active_call: the request, its reply once served, and whether it is a mutation
    selection,    \* queue_selection: the form of the selector, or "none"
    selected,     \* selected_queue: the record the first lookup returned
    pinned,       \* the queue of selected_request, or NoQueue
    missing,      \* selection_not_found
    pollId,       \* poll_id
    polling,      \* poll_timer is armed
    interval,     \* poll_interval, in units of 100 ms
    inspected,    \* inspected_run and inspected_attempt
    search,       \* output_before, output_cursor, output_attempt
    sessionResult,  \* SessionResult
    shown,        \* what has been printed
    queueRows, job, run, tried,   \* the daemon
    world, wrong,                 \* counters of the environment
    seen          \* what happened, for the properties

ctlVars == <<command, sPhase, active, selection, selected, pinned, missing, pollId, polling, interval,
             inspected, search, sessionResult, shown, queueRows, job, run, tried, world, wrong, seen>>
resolving == <<selection, selected, pinned, missing>>
following == <<pollId, polling, interval, inspected, search>>
daemon == <<queueRows, job, run, tried>>

-----------------------------------------------------------------------------
(* Commands.                                                               *)

QueueKinds == {"QueueGet", "QueueUpdate", "QueueSuspend", "QueueResume", "QueueDelete", "QueueStats"}
Mutations == {"QueueUpdate", "QueueSuspend", "QueueResume", "QueueDelete", "JobSuspend", "RunCancel"}

\* parse_queue_selector: a prefix or an option decides, a bare UUID is an id that may also be a name.
parse_queue_selector ==
    {[form |-> "explicit", sel |-> <<"id", 1>>], [form |-> "inferred", sel |-> <<"id", 1>>]}
    \cup {[form |-> "exact", sel |-> <<"name", n>>] : n \in QueueNames}
    \cup {[form |-> "none", sel |-> <<"id", 1>>], [form |-> "none", sel |-> <<"name", "b">>]}

Cmd(kind, s, wait, show) == [kind |-> kind, form |-> s.form, sel |-> s.sel, wait |-> wait, show |-> show]
Unselected == [form |-> "none", sel |-> <<"id", 1>>]
Commands ==
    {Cmd(k, s, FALSE, "human") : k \in QueueKinds, s \in parse_queue_selector}
    \cup {Cmd("QueueSuspend", s, TRUE, "human") : s \in parse_queue_selector}
    \cup {Cmd(k, Unselected, TRUE, "human") : k \in {"JobSuspend", "RunCancel"}}
    \cup {Cmd("RunGet", Unselected, FALSE, w) : w \in {"human", "json", "capture"}}
    \cup {Cmd("RunOutput", Unselected, FALSE, w) : w \in {"human", "file", "mismatched"}}
    \cup {Cmd(k, Unselected, FALSE, "human") : k \in {"SystemInfo", "RunCancel"}}

IsCallPhase(p) == p \in {"QueueLookup", "QueueNameProbe", "Command", "Polling", "InspectionList",
                         "InspectionDetails", "OutputList", "OutputChunk"}
IsQueueSelectionPhase(p) == p \in {"QueueLookup", "QueueNameProbe"}

Req(op, sel, n) == [op |-> op, sel |-> sel, n |-> n]

\* The request that call_command issues; the method has the name of the command.
call_command ==
    CASE command.kind \in QueueKinds -> Req(command.kind, IF pinned = NoQueue THEN command.sel ELSE <<"id", pinned>>, 0)
      [] command.kind \in {"RunGet", "RunOutput"} -> Req("get_run", <<"id", 1>>, 0)
      [] OTHER -> Req(command.kind, <<"id", 1>>, 0)

-----------------------------------------------------------------------------
(* Ending.                                                                 *)

\* Every path ends here once.  A run that has been shown is followed by what was learnt of its last
\* attempt, when that was not shown already, and by a hint.
FinishWith(told, code, error, unknown, printed) ==
    /\ sPhase' = "Finished"
    /\ sessionResult' = [code |-> code, error |-> error, unknown |-> unknown]
    /\ polling' = FALSE
    /\ inspected' = told
    /\ shown' = shown \o printed
                \o (IF told.run /\ error # "none" /\ told.attempt # <<>> THEN <<"summary">> ELSE <<>>)
                \o (IF told.run THEN <<"hint">> ELSE <<>>)

finish(code, error, unknown, printed) == FinishWith(inspected, code, error, unknown, printed)
local_error(code, error) == finish(code, error, FALSE, <<>>)
NothingElse == UNCHANGED <<active, resolving, pollId, interval, search>>

\* deliver_reply: capture, write to a file or print; a file may refuse.
deliver_reply ==
    \/ finish(0, "none", FALSE, IF command.show = "capture" THEN <<>> ELSE <<"result">>)
    \/ command.show = "file" /\ local_error(2, "output_failed")

\* A typed call that the client accepts, refuses before sending, or for which no time is left.  A
\* connection lost while the request is being written is reported before the call is noted: the
\* daemon has not seen all of it.
Refusals == {<<1, "unsupported">>, <<3, "pending_limit">>, <<3, "timeout">>, <<3, "connection_failed">>}
AskWith(told, printed, phase, request, mutation) ==
    \/ /\ sPhase' = phase
       /\ active' = [req |-> request, reply |-> NoReply, mutation |-> mutation]
       /\ inspected' = told /\ shown' = shown \o printed
       /\ polling' = FALSE /\ UNCHANGED sessionResult
    \/ \E refusal \in Refusals :
          FinishWith(told, refusal[1], refusal[2], FALSE, printed) /\ active' = NoCall
Ask(phase, request, mutation) == AskWith(inspected, <<>>, phase, request, mutation)

dispatch_command == Ask("Command", call_command, command.kind \in Mutations)

Noting(s) == UNCHANGED daemon /\ UNCHANGED <<command, world, wrong>> /\ seen' = s

-----------------------------------------------------------------------------
(* Connecting.                                                             *)

Start ==
    /\ sPhase = "Idle"
    /\ sPhase' = "Connecting"
    /\ NothingElse /\ Noting(seen)
    /\ UNCHANGED <<sessionResult, shown, polling, inspected>>

Connected ==
    /\ sPhase = "Connecting"
    /\ \/ sPhase' = "Initializing" /\ UNCHANGED <<sessionResult, shown, polling, inspected>>
       \/ local_error(3, "timeout") \/ local_error(3, "initialize")
    /\ NothingElse /\ Noting(seen)

ProbeSelector == <<"name", "u1">>
request_queue_selection(probe) ==
    IF probe THEN Ask("QueueNameProbe", Req("get_queue", ProbeSelector, 0), FALSE)
    ELSE Ask("QueueLookup", Req("get_queue", command.sel, 0), FALSE)

\* An id that was given as such needs no lookup.
begin_queue_selection ==
    \/ /\ selection \in {"none", "explicit"}
       /\ pollId' = IF selection = "explicit" /\ command.kind = "QueueSuspend" /\ command.wait
                    THEN command.sel[2] ELSE pollId
       /\ selection' = "none"
       /\ dispatch_command
       /\ UNCHANGED <<selected, pinned, missing, interval, search>>
    \/ /\ selection \in {"exact", "inferred"}
       /\ request_queue_selection(FALSE)
       /\ UNCHANGED <<resolving, pollId, interval, search>>

Ready ==
    /\ sPhase = "Initializing"
    /\ \/ command.kind = "SystemInfo" /\ deliver_reply /\ NothingElse
       \/ command.kind # "SystemInfo" /\ begin_queue_selection
    /\ Noting(seen)

-----------------------------------------------------------------------------
(* Resolving a queue.                                                      *)

\* Mutant: any queue will do.
MatchesAnything(sel, r) == r.is = "queue"
Matches(sel, r) == r.is = "queue" /\ (IF sel[1] = "id" THEN r.id = sel[2] ELSE r.name = sel[2])

CompleteWith(record, sel) ==
    /\ selection' = "none" /\ missing' = FALSE /\ selected' = NoReply
    /\ UNCHANGED <<interval, search>>
    /\ IF command.kind = "QueueGet"
       THEN /\ deliver_reply
            /\ UNCHANGED <<pinned, pollId>> /\ active' = NoCall
       ELSE /\ pinned' = record.id
            /\ pollId' = IF command.kind = "QueueSuspend" /\ command.wait THEN record.id ELSE pollId
            /\ Ask("Command", Req(command.kind, sel, 0), command.kind \in Mutations)
\* Mutant: what is dispatched still has the selector the user gave.
CompleteUnpinned(record) == CompleteWith(record, command.sel)
\* complete_queue_selection: the id replaces the selector of what is dispatched.
complete_queue_selection(record) == CompleteWith(record, <<"id", record.id>>)

receive_queue_selection(r) ==
    LET sel == IF sPhase = "QueueNameProbe" THEN ProbeSelector ELSE command.sel
        resting == UNCHANGED <<resolving, pollId, interval, search>>
    IN  \/ /\ ~Matches(sel, r) \/ (command.kind # "QueueStats" /\ r.state = "deleted")
           /\ local_error(3, "invalid_response") /\ active' = NoCall /\ resting
        \/ /\ Matches(sel, r) /\ (command.kind = "QueueStats" \/ r.state # "deleted")
           /\ \/ /\ sPhase = "QueueLookup" /\ selection = "inferred"
                 /\ selected' = r
                 /\ request_queue_selection(TRUE)
                 /\ UNCHANGED <<selection, pinned, missing, pollId, interval, search>>
              \/ sPhase = "QueueLookup" /\ selection # "inferred" /\ complete_queue_selection(r)
              \/ /\ sPhase = "QueueNameProbe" /\ selected = NoReply      \* only the name matches
                 /\ local_error(1, "not_found") /\ active' = NoCall /\ resting
              \/ /\ sPhase = "QueueNameProbe" /\ selected # NoReply /\ selected.id # r.id
                 /\ local_error(1, "ambiguous") /\ active' = NoCall /\ resting
              \/ sPhase = "QueueNameProbe" /\ selected # NoReply /\ selected.id = r.id /\ complete_queue_selection(selected)

queue_selection_missing ==
    \/ /\ sPhase = "QueueLookup" /\ selection = "inferred"
       /\ missing' = TRUE
       /\ request_queue_selection(TRUE)
       /\ UNCHANGED <<selection, selected, pinned, pollId, interval, search>>
    \/ sPhase = "QueueNameProbe" /\ selected # NoReply /\ complete_queue_selection(selected)
    \/ /\ ~(sPhase = "QueueLookup" /\ selection = "inferred") /\ ~(sPhase = "QueueNameProbe" /\ selected # NoReply)
       /\ local_error(1, "not_found") /\ active' = NoCall
       /\ UNCHANGED <<resolving, pollId, interval, search>>

-----------------------------------------------------------------------------
(* Replies.                                                                *)

EndedJob == {"succeeded", "failed", "cancelled"}
EndedRun == {"succeeded", "failed", "interrupted", "cancelled"}

observe_suspension(r) ==
    CASE pollId # NoQueue /\ pollId # r.id -> "conflict"
      [] r.state = "suspending" -> "pending"
      [] r.state = "suspended" -> "complete"
      [] r.is = "job" /\ r.state \in EndedJob -> "complete"
      [] OTHER -> "conflict"

schedule_poll ==
    /\ polling' = TRUE
    /\ interval' = IF 2 * interval > 5 THEN 5 ELSE 2 * interval
    /\ sPhase' = "Polling"
    /\ UNCHANGED <<sessionResult, shown, inspected>>

Then(outcome) == outcome /\ active' = NoCall /\ UNCHANGED <<resolving, pollId, interval, search>>

ReceiveWait(r) ==
    /\ UNCHANGED <<resolving, search>> /\ active' = NoCall
    /\ LET verdict == observe_suspension(r)
       IN  /\ pollId' = IF verdict = "conflict" /\ pollId # NoQueue /\ pollId # r.id THEN pollId ELSE r.id
           /\ \/ verdict = "conflict" /\ local_error(1, "state_changed") /\ UNCHANGED interval
              \/ verdict = "pending" /\ schedule_poll
              \/ verdict = "complete" /\ deliver_reply /\ UNCHANGED interval

ReceiveCancel(r) ==
    /\ UNCHANGED <<resolving, search>> /\ active' = NoCall
    /\ \/ /\ sPhase = "Command"
          /\ pollId' = r.id
          /\ \/ r.disposition = "requested" /\ schedule_poll
             \/ /\ r.disposition = "completed" /\ r.state # "cancelled"
                /\ local_error(1, "state_changed") /\ UNCHANGED interval
             \/ r.disposition = "completed" /\ r.state = "cancelled" /\ deliver_reply /\ UNCHANGED interval
       \/ /\ sPhase = "Polling"
          /\ UNCHANGED pollId
          /\ \/ r.id # pollId /\ local_error(1, "state_changed") /\ UNCHANGED interval
             \/ r.id = pollId /\ r.state = "cancelled" /\ deliver_reply /\ UNCHANGED interval
             \/ /\ r.id = pollId /\ r.state \in EndedRun \ {"cancelled"}
                /\ local_error(1, "state_changed") /\ UNCHANGED interval
             \/ r.id = pollId /\ r.state \notin EndedRun /\ schedule_poll

\* The run is printed as soon as it is known; attempts only add to it.
receive_run_inspection(r) ==
    LET bad == Then(local_error(3, "invalid_response"))
        rest == UNCHANGED <<resolving, pollId, interval, search>>
    IN  CASE sPhase = "Command" ->
                \/ r.id # 1 /\ bad
                \/ /\ r.id = 1 /\ rest
                   /\ AskWith([inspected EXCEPT !.run = TRUE], <<"run">>, "InspectionList",
                                  Req("list_attempts", <<"id", 1>>, 0), FALSE)
          [] sPhase = "InspectionList" ->
                \/ (Len(r.items) > 1 \/ (r.items # <<>> /\ r.id # 1)) /\ bad
                \/ r.items = <<>> /\ Then(finish(0, "none", FALSE, <<"no attempts">>))
                \/ /\ Len(r.items) = 1 /\ r.id = 1 /\ rest
                   /\ AskWith([inspected EXCEPT !.attempt = r.items[1]], <<>>, "InspectionDetails",
                                  Req("get_attempt", <<"id", 1>>, r.items[1][1]), FALSE)
          [] sPhase = "InspectionDetails" ->
                \/ (r.id # 1 \/ r.n # inspected.attempt[1]) /\ bad
                \/ /\ r.id = 1 /\ r.n = inspected.attempt[1] /\ rest /\ active' = NoCall
                   /\ FinishWith([inspected EXCEPT !.attempt = <<>>], 0, "none", FALSE, <<"details">>)

Descends(items, before) ==
    \A i \in DOMAIN items : items[i][1] < (IF i = 1 THEN before ELSE items[i - 1][1])
latest_completed_attempt(items) == SelectInSeq(items, LAMBDA a : a[2] = "completed")

receive_run_output(r) ==
    LET bad == Then(local_error(3, "invalid_response"))
    IN  CASE sPhase = "Command" ->
                \/ r.id # 1 /\ bad
                \/ r.id = 1 /\ command.show = "mismatched" /\ Then(local_error(2, "invalid_channel"))
                \/ /\ r.id = 1 /\ command.show # "mismatched"
                   /\ Ask("OutputList", Req("list_attempts", <<"id", 1>>, 0), FALSE)
                   /\ UNCHANGED <<resolving, pollId, interval, search>>
          [] sPhase = "OutputList" ->
                LET valid == /\ r.next # 0 => r.items # <<>> /\ r.next # search.cursor
                             /\ r.items # <<>> => r.id = 1
                             /\ Descends(r.items, search.before)
                    at == latest_completed_attempt(r.items)
                    last == IF r.items = <<>> THEN search.before ELSE Last(r.items)[1]
                IN  \/ ~valid /\ bad
                    \/ /\ valid /\ at # 0
                       /\ search' = [search EXCEPT !.cursor = 0, !.attempt = r.items[at][1]]
                       /\ Ask("OutputChunk", Req("read_output", <<"id", 1>>, r.items[at][1]), FALSE)
                       /\ UNCHANGED <<resolving, pollId, interval>>
                    \/ /\ valid /\ at = 0 /\ r.next # 0
                       /\ search' = [search EXCEPT !.before = last, !.cursor = r.next]
                       /\ Ask("OutputList", Req("list_attempts", <<"id", 1>>, r.next), FALSE)
                       /\ UNCHANGED <<resolving, pollId, interval>>
                    \/ /\ valid /\ at = 0 /\ r.next = 0
                       /\ Then(local_error(1, IF last > MaxTries THEN "no_attempts" ELSE "no_completed_attempt"))
          [] sPhase = "OutputChunk" ->
                \/ (r.id # 1 \/ r.n # search.attempt) /\ bad
                \/ r.id = 1 /\ r.n = search.attempt /\ Then(deliver_reply)

Received == IsCallPhase(sPhase) /\ active # NoCall /\ active.reply # NoReply

ReceiveReply ==
    /\ Received /\ active.reply.is # "refused"
    /\ LET r == active.reply
       IN  CASE IsQueueSelectionPhase(sPhase) -> receive_queue_selection(r)
             [] command.kind = "RunOutput" -> receive_run_output(r)
             [] command.kind = "RunGet" /\ command.show = "human" -> receive_run_inspection(r)
             [] command.kind = "RunCancel" /\ command.wait -> ReceiveCancel(r)
             [] command.wait /\ command.kind # "RunCancel" -> ReceiveWait(r)
             [] OTHER -> Then(deliver_reply)
    /\ Noting([seen EXCEPT !.answered = @ \/ active.mutation])

\* An error the daemon has answered: nothing was changed.
ReceiveRefusal ==
    /\ Received /\ active.reply.is = "refused"
    /\ IF IsQueueSelectionPhase(sPhase) /\ active.reply.code = "not_found" THEN queue_selection_missing
       ELSE Then(local_error(1, active.reply.code))
    /\ Noting([seen EXCEPT !.answered = @ \/ active.mutation])

-----------------------------------------------------------------------------
(* Losing the connection, time and the poll timer.                         *)

\* Mutant: a lost connection is a failure like any other.
ConnectionLostCertain ==
    /\ sPhase \notin {"Idle", "Finished"}
    /\ local_error(3, "connection_failed")
    /\ active' = NoCall
    /\ UNCHANGED <<resolving, pollId, interval, search>> /\ Noting(seen)
\* The socket's or the client's own failure, or a reply the client cannot read.
ConnectionLost ==
    /\ sPhase \notin {"Idle", "Finished"}
    /\ finish(3, "connection_failed", active # NoCall /\ active.mutation, <<>>)
    /\ active' = NoCall
    /\ UNCHANGED <<resolving, pollId, interval, search>> /\ Noting(seen)

deadline_expired ==
    /\ sPhase \notin {"Idle", "Finished"}
    /\ finish(3, "timeout", active # NoCall /\ active.mutation, <<>>)
    /\ active' = NoCall
    /\ UNCHANGED <<resolving, pollId, interval, search>> /\ Noting(seen)

poll_wait ==
    /\ polling /\ sPhase = "Polling" /\ active = NoCall /\ pollId # NoQueue
    /\ LET op == CASE command.kind = "QueueSuspend" -> "get_queue"
                   [] command.kind = "JobSuspend" -> "get_job"
                   [] OTHER -> "get_run"
       IN  Ask("Polling", Req(op, <<"id", pollId>>, 0), FALSE)
    /\ UNCHANGED <<resolving, pollId, interval, search>> /\ Noting(seen)

-----------------------------------------------------------------------------
(* The daemon.                                                             *)

LiveQueue(q) == queueRows[q].state \notin {"none", "deleted"}
QueueReply(q) == [is |-> "queue", id |-> q, name |-> queueRows[q].name, state |-> queueRows[q].state]
Refusal(code) == [is |-> "refused", code |-> code]

find_by_id(q, deleted) == IF LiveQueue(q) \/ (deleted /\ queueRows[q].state = "deleted") THEN {q} ELSE {}
find_by_name(n, deleted) ==
    LET live == {q \in QueueIds : LiveQueue(q) /\ queueRows[q].name = n}
    IN  IF live # {} \/ ~deleted THEN live ELSE {q \in QueueIds : queueRows[q].state = "deleted" /\ queueRows[q].name = n}
Found(sel, deleted) == IF sel[1] = "id" THEN find_by_id(sel[2], deleted) ELSE find_by_name(sel[2], deleted)

AttemptPage(before) ==
    LET below == {n \in DOMAIN tried : before = 0 \/ n < before}
        newest == CHOOSE n \in below : \A m \in below : m <= n
    IN  IF below = {} THEN [is |-> "page", id |-> 1, items |-> <<>>, next |-> 0]
        ELSE [is |-> "page", id |-> 1, items |-> <<<<newest, tried[newest]>>>>, next |-> IF newest > 1 THEN newest ELSE 0]

\* What a queue command makes of the state of a queue; a queue without running work is suspended at once.
Lifecycle(q, kind) ==
    CASE kind = "QueueSuspend" -> IF queueRows[q].state = "active" THEN {"suspending", "suspended"} ELSE {queueRows[q].state}
      [] kind = "QueueResume" -> {"active"}
      [] kind = "QueueDelete" -> {"deleted"}
      [] OTHER -> {queueRows[q].state}
NowSuspended(s) == [s EXCEPT !.reached = @ \cup {q \in QueueIds : queueRows'[q].state = "suspended"}
                                          \cup (IF job' \in EndedJob \cup {"suspended"} THEN {1} ELSE {})]

ServeQueue(kind, sel) ==
    LET found == Found(sel, kind = "QueueStats" \/ command.kind = "QueueStats")
    IN  /\ UNCHANGED <<job, run, tried>>
        /\ \/ found = {} /\ active' = [active EXCEPT !.reply = Refusal("not_found")] /\ UNCHANGED <<queueRows, seen>>
           \/ Cardinality(found) > 1 /\ active' = [active EXCEPT !.reply = Refusal("ambiguous_deleted")]
              /\ UNCHANGED <<queueRows, seen>>
           \/ /\ Cardinality(found) = 1
              /\ \E q \in found : \E state \in Lifecycle(q, kind) :
                    /\ queueRows' = [queueRows EXCEPT ![q].state = state]
                    /\ active' = [active EXCEPT !.reply = [is |-> "queue", id |-> q, name |-> queueRows[q].name, state |-> state]]
                    /\ seen' = IF active.mutation THEN NowSuspended([seen EXCEPT !.changed = q])
                               ELSE IF kind = "get_queue" /\ sel[1] = "name" THEN [seen EXCEPT !.named = @ \cup {q}]
                               ELSE seen

ServeJobOrRun(op) ==
    \/ /\ op = "JobSuspend"
       /\ IF job \in EndedJob \cup {"deleted"}
          THEN active' = [active EXCEPT !.reply = Refusal("conflict")] /\ UNCHANGED <<job, seen>>
          ELSE /\ job' \in IF job = "active" THEN {"suspending", "suspended"} ELSE {job}
               /\ active' = [active EXCEPT !.reply = [is |-> "job", id |-> 1, state |-> job']]
               /\ seen' = NowSuspended([seen EXCEPT !.changed = 1])
       /\ UNCHANGED <<run, tried>>
    \/ /\ op = "get_job"
       /\ active' = [active EXCEPT !.reply = IF job = "deleted" THEN Refusal("not_found")
                                             ELSE [is |-> "job", id |-> 1, state |-> job]]
       /\ UNCHANGED <<job, run, tried, seen>>
    \/ /\ op = "RunCancel"
       /\ IF run \in EndedRun
          THEN active' = [active EXCEPT !.reply = Refusal("conflict")] /\ UNCHANGED <<run, seen>>
          ELSE /\ run' = IF run = "running" THEN "cancelling" ELSE IF run = "scheduled" THEN "cancelled" ELSE run
               /\ active' = [active EXCEPT !.reply =
                                [is |-> "cancel", id |-> 1, state |-> run',
                                 disposition |-> IF run' = "cancelled" THEN "completed" ELSE "requested"]]
               /\ seen' = [seen EXCEPT !.changed = 1]
       /\ UNCHANGED <<job, tried>>
    \/ /\ op = "get_run"
       /\ active' = [active EXCEPT !.reply = [is |-> "run", id |-> 1, state |-> run]]
       /\ UNCHANGED <<job, run, tried, seen>>
    \/ /\ op = "list_attempts"
       /\ active' = [active EXCEPT !.reply = AttemptPage(active.req.n)]
       /\ seen' = IF active.req.n # 0 THEN seen
                  ELSE [seen EXCEPT !.completed = {n \in DOMAIN tried : tried[n] = "completed"}]
       /\ UNCHANGED <<job, run, tried>>
    \/ /\ op \in {"get_attempt", "read_output"}
       /\ active' = [active EXCEPT !.reply = [is |-> op, id |-> 1, n |-> active.req.n]]
       /\ UNCHANGED <<job, run, tried, seen>>

DaemonServes ==
    /\ IsCallPhase(sPhase) /\ active # NoCall /\ active.reply = NoReply
    /\ IF active.req.op \in QueueKinds \cup {"get_queue"} THEN ServeQueue(active.req.op, active.req.sel)
       ELSE UNCHANGED queueRows /\ ServeJobOrRun(active.req.op)
    /\ UNCHANGED <<command, sPhase, resolving, following, sessionResult, shown, world, wrong>>

\* The reply to a read is about something else: another resource, or a page seen before.
Misreport ==
    /\ Received /\ wrong < MaxWrong /\ ~active.mutation /\ active.reply.is # "refused"
    /\ \/ active.reply.is # "queue" /\ active' = [active EXCEPT !.reply.id = 2]
       \/ /\ active.reply.is = "queue" /\ queueRows[2].state # "none" /\ active.req.sel \notin {<<"id", 2>>, <<"name", queueRows[2].name>>}
          /\ active' = [active EXCEPT !.reply = QueueReply(2)]
       \/ active.reply.is = "queue" /\ active' = [active EXCEPT !.reply.state = "deleted"]
       \/ /\ active.reply.is = "page" /\ tried # <<>>
          /\ active' = [active EXCEPT !.reply = AttemptPage(0)]
    /\ wrong' = wrong + 1
    /\ UNCHANGED <<command, sPhase, resolving, following, sessionResult, shown, daemon, world, seen>>

NameIsFree(n) == \A q \in QueueIds : LiveQueue(q) => queueRows[q].name # n
QueueWorld ==
    \E q \in QueueIds :
        \/ LiveQueue(q) /\ \E n \in QueueNames : NameIsFree(n) /\ queueRows' = [queueRows EXCEPT ![q].name = n]
        \/ LiveQueue(q) /\ queueRows' = [queueRows EXCEPT ![q].state = "deleted"]
        \/ queueRows[q].state = "none" /\ \E n \in QueueNames : NameIsFree(n) /\ queueRows' = [queueRows EXCEPT ![q] = [name |-> n, state |-> "active"]]
        \/ queueRows[q].state = "suspending" /\ \E s \in {"suspended", "active"} : queueRows' = [queueRows EXCEPT ![q].state = s]
        \/ queueRows[q].state = "suspended" /\ queueRows' = [queueRows EXCEPT ![q].state = "active"]
JobWorld ==
    \/ job = "active" /\ job' \in {"succeeded", "deleted"}
    \/ job = "suspending" /\ job' \in {"suspended", "active", "succeeded", "deleted"}
    \/ job = "suspended" /\ job' \in {"active", "deleted"}
RunWorld ==
    \/ run = "scheduled" /\ run' = "running" /\ tried' = Append(tried, "running") /\ Len(tried) < MaxTries
    \/ /\ run \in {"running", "cancelling"} /\ tried # <<>> /\ Last(tried) = "running"
       /\ tried' = [tried EXCEPT ![Len(tried)] = "completed"]
       /\ run' \in IF run = "cancelling" THEN {"cancelled", "succeeded"} ELSE {"succeeded", "failed", "scheduled"}

\* Other clients and the workers.
OthersAct ==
    /\ sPhase # "Finished" /\ world < MaxWorld /\ world' = world + 1
    /\ \/ command.kind \in QueueKinds /\ QueueWorld /\ UNCHANGED <<job, run, tried>>
       \/ command.kind = "JobSuspend" /\ JobWorld /\ UNCHANGED <<queueRows, run, tried>>
       \/ command.kind \in {"RunCancel", "RunGet", "RunOutput"} /\ RunWorld /\ UNCHANGED <<queueRows, job>>
    /\ seen' = NowSuspended(seen)
    /\ UNCHANGED <<command, sPhase, active, resolving, following, sessionResult, shown, wrong>>

-----------------------------------------------------------------------------
CtlInit ==
    /\ command \in Commands
    /\ sPhase = "Idle" /\ active = NoCall
    /\ selection = command.form /\ selected = NoReply /\ pinned = NoQueue /\ missing = FALSE
    /\ pollId = NoQueue /\ polling = FALSE /\ interval = 1
    /\ inspected = [run |-> FALSE, attempt |-> <<>>]
    /\ search = [before |-> MaxTries + 1, cursor |-> 0, attempt |-> 0]
    /\ sessionResult = [code |-> -1, error |-> "none", unknown |-> FALSE]
    /\ shown = <<>>
    /\ queueRows \in [QueueIds -> [name : QueueNames, state : {"none", "active", "deleted"}]]
    /\ LiveQueue(1) /\ (LiveQueue(2) => queueRows[1].name # queueRows[2].name)
    /\ job = "active"
    /\ tried \in {<<>>, <<"running">>, <<"completed", "running">>, <<"completed", "completed", "running">>}
    /\ run = IF tried = <<>> THEN "scheduled" ELSE "running"
    /\ command.kind \notin {"RunCancel", "RunGet", "RunOutput"} => tried = <<>>
    /\ queueRows[2].state = "deleted" => command.kind = "QueueStats"
    /\ command.kind \notin QueueKinds => queueRows[2].state = "none" /\ queueRows[1].name = "b" /\ queueRows[2].name = "u1"
    /\ world = 0 /\ wrong = 0
    /\ seen = [changed |-> NoQueue, answered |-> FALSE, named |-> {}, reached |-> {}, completed |-> {}]

CtlNext ==
    \/ Start \/ Connected \/ Ready
    \/ ReceiveReply \/ ReceiveRefusal
    \/ ConnectionLost \/ deadline_expired \/ poll_wait
    \/ DaemonServes \/ Misreport \/ OthersAct

-----------------------------------------------------------------------------
(* Properties                                                              *)

\* What jobuctl reports is what happened.  A change the daemon made and whose answer never arrived
\* is reported as uncertain, and only then.  A queue command acts on the queue with the id that was
\* given, or on one that had the given name when asked, whatever other clients rename meanwhile, and
\* a bare UUID is never taken for a name.  Success after --wait means that the state was reached.
\* Output is that of an attempt not older than the latest completed when the search began.  Once a
\* run has been shown, its last known attempt and the hint follow exactly once on every path.
SessionTellsTruth ==
    sPhase = "Finished" =>
        /\ sessionResult.unknown => command.kind \in Mutations /\ ~seen.answered
        /\ seen.changed # NoQueue /\ ~seen.answered => sessionResult.code # 0 /\ sessionResult.unknown
        /\ seen.changed # NoQueue /\ command.kind \in QueueKinds =>
              CASE command.form \in {"explicit", "inferred"} -> seen.changed = 1
                [] command.form = "exact" -> seen.changed \in seen.named
                [] OTHER -> TRUE
        /\ command.form = "inferred" /\ seen.changed # NoQueue => seen.named \subseteq {1}
        /\ command.wait /\ sessionResult.code = 0 /\ command.kind \in {"QueueSuspend", "JobSuspend"} =>
              seen.changed \in seen.reached
        /\ command.wait /\ sessionResult.code = 0 /\ command.kind = "RunCancel" => run = "cancelled"
        /\ command.kind = "RunOutput" /\ sessionResult.code = 0 =>
              \A n \in seen.completed : n <= search.attempt
        /\ "run" \in ToSet(shown) =>
              /\ shown[Len(shown)] = "hint"
              /\ inspected.attempt # <<>> => Cardinality({i \in DOMAIN shown : shown[i] = "summary"}) = 1
              /\ ~{"summary", "details"} \subseteq ToSet(shown)
=============================================================================

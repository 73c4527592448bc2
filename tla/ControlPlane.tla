----------------------------- MODULE ControlPlane -----------------------------
(***************************************************************************)
(* Users, the control client, the connection, the daemon's RPC server and  *)
(* the management store behind it.  A user makes each call at most once,   *)
(* may retry under the same idempotency key with another call, and may     *)
(* come back on a new connection; the daemon may crash and restart at any  *)
(* time and keeps only what it committed.                                  *)
(***************************************************************************)
EXTENDS ControlClient

CONSTANTS
    Plans,     \* what users may do: the last session, and per call a body and a key
    NoKey

VARIABLES
    plan,      \* the plan of this behaviour
    made,      \* resources created, by the call that created each
    records    \* idempotency records: key -> request body and resource

storeVars == <<plan, made, records>>

planeVars == <<linkVars, controlVars, storeVars>>

-----------------------------------------------------------------------------
(* The management methods.                                                 *)

\* handle_value: a mutation that does not fit its reply stays committed.
Replies(wire, result) ==
    {[wire |-> wire, kind |-> "ok", result |-> result],
     [wire |-> wire, kind |-> "tooLarge", result |-> 0]}

Refusal(wire) == [wire |-> wire, kind |-> "refused", result |-> 0]

\* Mutant of Create: the record of the key is not written.
CreateUnrecorded(s, frame) ==
    /\ made' = Append(made, frame.call)
    /\ \E reply \in Replies(frame.wire, Len(made) + 1) : Respond(s, reply)
    /\ UNCHANGED records

\* The effect and the record of its key commit together; any error undoes both.
Create(s, frame) ==
    LET key == plan.request[frame.call].key
        new == Len(made) + 1
    IN \/ /\ made' = Append(made, frame.call)
          /\ records' = IF key = NoKey THEN records
                        ELSE (key :> [body |-> plan.request[frame.call].body, resource |-> new]) @@ records
          /\ \E reply \in Replies(frame.wire, new) : Respond(s, reply)
       \/ Respond(s, Refusal(frame.wire)) /\ UNCHANGED <<made, records>>

\* create_queue, create_job and run_now: a retained key with the same request
\* is answered with its resource, with another request it conflicts.
Replay(s, frame) ==
    LET record == records[plan.request[frame.call].key]
    IN IF record.body = plan.request[frame.call].body
       THEN \E reply \in Replies(frame.wire, record.resource) : Respond(s, reply)
       ELSE Respond(s, Refusal(frame.wire))

\* dispatch_entry for one request of connection s.
Handle(s) ==
    /\ ServerReadable(s)
    /\ LET frame  == Head(up[s])
           create == frame.call \in Mutations
           known  == create /\ plan.request[frame.call].key \in DOMAIN records
       IN \/ /\ ~create
             /\ \E reply \in Replies(frame.wire, 0) : Respond(s, reply)
             /\ UNCHANGED <<made, records>>
          \/ create /\ ~known /\ Create(s, frame)
          \/ known /\ Replay(s, frame) /\ UNCHANGED <<made, records>>
    /\ UNCHANGED <<controlVars, plan>>

-----------------------------------------------------------------------------

Init ==
    /\ cur = 1 /\ device = TRUE /\ rpc = FreshRpc
    /\ up = [s \in Sessions |-> << >>] /\ upUnsent = 0
    /\ down = [s \in Sessions |-> << >>] /\ downUnsent = [s \in Sessions |-> 0]
    /\ conn = [s \in Sessions |-> "none"] /\ faults = 0
    /\ ctl = FreshControl /\ stack = << >> /\ tasks = << >>
    /\ asked = [c \in Calls |-> 0] /\ told = [c \in Calls |-> << >>]
    /\ failed = [s \in Sessions |-> 0]
    /\ plan \in Plans /\ made = << >> /\ records = << >>

\* A new socket, rpc::Client and ControlClient; request identifiers restart.
Reconnect ==
    /\ stack = << >> /\ ~ctl.alive /\ ~device
    /\ cur < plan.last
    /\ cur' = cur + 1 /\ device' = TRUE
    /\ rpc' = FreshRpc /\ ctl' = FreshControl
    /\ UNCHANGED <<up, upUnsent, down, downUnsent, conn, faults, stack, tasks, asked, told, failed>>

UserStep ==
    \/ Initialize
    \/ \E i \in Calls : StartCall(i) \/ CancelCall(i)
    \/ CloseWrapper
    \/ Destroy
    \/ LoseDevice
    \/ Reconnect

HandlerStep == ContinueEmit \/ ContinueDeliver \/ ContinueStart

LoopStep == ClientRead \/ ClientEnd \/ Timeout \/ RunTask

Next ==
    \/ /\ UserStep \/ HandlerStep \/ LoopStep
       /\ UNCHANGED storeVars
    \/ /\ ClientSend \/ ServerStep
       /\ UNCHANGED <<controlVars, storeVars>>
    \/ \E s \in Sessions : Handle(s)

\* Handlers return, posted tasks run and deadlines pass; nothing is assumed
\* of the user, the socket or the daemon.
Fairness ==
    /\ WF_planeVars(HandlerStep /\ UNCHANGED storeVars)
    /\ WF_planeVars(RunTask /\ UNCHANGED storeVars)
    /\ WF_planeVars(Timeout /\ UNCHANGED storeVars)

Spec == Init /\ [][Next]_planeVars /\ Fairness

-----------------------------------------------------------------------------

\* The tables of the two clients agree: a wire identifier is bound to the
\* call it was written for and awaited exactly while that call is unanswered,
\* an answered call is queued for delivery, and one timer covers all others.
ClientTablesAgree ==
    ctl.alive =>
    /\ ctl.armed = (Unanswered(ctl.pend) # {})
    /\ DOMAIN ctl.w2l = Wires(Restrict(ctl.pend, Unanswered(ctl.pend)))
    /\ \A w \in DOMAIN ctl.w2l : ctl.pend[ctl.w2l[w]].wire = w
    /\ ~rpc.closed => rpc.pending = DOMAIN ctl.w2l
    /\ {ctl.ready[k] : k \in DOMAIN ctl.ready} = DOMAIN ctl.pend \ Unanswered(ctl.pend)
    /\ ctl.ready # << >> => \/ \E k \in DOMAIN tasks : tasks[k].frame.kind = "deliver"
                            \/ \E k \in DOMAIN stack : stack[k].kind = "deliver"

\* "Every accepted typed method call emits one reply or failure": never two,
\* whatever handlers, timeouts, late answers and reconnections do, and no
\* session reports its own failure twice.
OneOutcome ==
    /\ \A c \in Calls : Len(told[c]) <= (IF asked[c] = 0 THEN 0 ELSE 1)
    /\ \A s \in Sessions : failed[s] <= 1

\* The client always knows what it owes: its tables agree, and no call is told
\* its outcome twice.
CallsAreAccounted ==
    ClientTablesAgree /\ OneOutcome

\* A mutation reported as failed with outcome_unknown = false, other than a
\* reply too large, has created nothing, and what is still in a socket will
\* not create it later.
SureFailureDidNothing ==
    \A c \in Mutations : \A k \in DOMAIN told[c] :
        told[c][k].kind \in {"sure", "refused"} => \A r \in DOMAIN made : made[r] # c

\* A cancelled mutation whose request was sent and whose result was not
\* delivered is reported as cancelled with a known outcome only if it did
\* nothing: outcome_unknown "is conservative for mutations whose request might
\* have been transmitted but whose successful result was not delivered".
CancelIsConservative ==
    \A c \in Mutations : \A k \in DOMAIN told[c] :
        told[c][k].kind = "cancelled" => \A r \in DOMAIN made : made[r] # c

\* However often a keyed creation is retried, over lost replies, faults and
\* connections, it creates one resource, and so does an unkeyed call.
CreatedOnce ==
    \A r, q \in DOMAIN made : r # q =>
        /\ made[r] # made[q]
        /\ plan.request[made[r]].key # plan.request[made[q]].key \/ plan.request[made[r]].key = NoKey

\* A call told that it succeeded was told of its own resource: the one it
\* created, or the one its key and request created before.
AnswerIsOwn ==
    \A c \in Mutations : \A k \in DOMAIN told[c] : told[c][k].kind = "ok" =>
        LET r == told[c][k].result IN
        /\ r \in DOMAIN made
        /\ made[r] = c \/ (plan.request[made[r]] = plan.request[c] /\ plan.request[c].key # NoKey)

\* What a caller is told of a mutation is true of the store: a sure failure did
\* nothing, a success names its own resource, and a retried key made one.
OutcomeIsTrue ==
    SureFailureDidNothing /\ CreatedOnce /\ AnswerIsOwn

\* Every accepted call is told its outcome, unless its wrapper is destroyed:
\* again and again nothing is owed (and a call never told would stay owed).
EveryCallSettles ==
    []<>(\A c \in Calls : asked[c] # 0 => told[c] # << >> \/ ~ctl.alive \/ cur # asked[c])

=============================================================================

------------------------------- MODULE Executors -------------------------------
(***************************************************************************)
(* AttemptExecutorGroup with the CLI and the HTTP executor behind it, down *)
(* to the operations they start: a Process, or a request of the HTTP       *)
(* client.  The two executors keep the same pair of tables, so a key's type*)
(* only tells the backends apart:                                          *)
(*   byAttempt is active_by_attempt and request_by_attempt,                *)
(*   byOperation is active_by_operation and attempt_by_request.            *)
(* keyOf[i] and owner[i] are the ActiveAttempt that the callbacks of       *)
(* operation i hold: its key, and whether its owner pointer is still set.  *)
(*                                                                         *)
(* A completion retires everything before it calls the handler, and does   *)
(* nothing after: what the handler re-enters is the next step.             *)
(***************************************************************************)
EXTENDS Naturals

CONSTANTS
    Keys,       \* attempt keys
    Cli,        \* those of CLI attempts; the others are HTTP attempts
    Ids,        \* operation ids; each is given out once
    None

ASSUME ExecutorsAssumption ==
    /\ Cli \subseteq Keys
    /\ None \notin Keys
    /\ None \notin Ids

VARIABLES
    phase,      \* of the group: one of Phases
    routes,     \* keys the group has a route for
    byAttempt, byOperation,
    keyOf, owner,
    work,       \* the operations: "unused", "running", "stopping", "ended", "gone"
    calls       \* handler calls, by key

Phases == {"open", "closing", "cliGone", "httpGone", "bothGone", "closed"}

tables == <<routes, byAttempt, byOperation>>
attempt == <<keyOf, owner>>
vars == <<phase, tables, attempt, work, calls>>

Init ==
    /\ phase = "open"
    /\ routes = {}
    /\ byAttempt = [k \in Keys |-> None]
    /\ byOperation = [i \in Ids |-> None]
    /\ keyOf = [i \in Ids |-> None]
    /\ owner = [i \in Ids |-> FALSE]
    /\ work = [i \in Ids |-> "unused"]
    /\ calls = [k \in Keys |-> 0]

-----------------------------------------------------------------------------
(* Calls of the scheduler.                                                 *)

AdmitsUntilClosed == phase # "closed"

\* The group refuses every call from the first moment of its shutdown.
Admits == phase = "open"

\* start of the executor of the type, whose backend accepts.
Entered(k, i) ==
    /\ byAttempt[k] = None
    /\ work[i] = "unused"
    /\ byAttempt' = [byAttempt EXCEPT ![k] = i]
    /\ byOperation' = [byOperation EXCEPT ![i] = k]
    /\ keyOf' = [keyOf EXCEPT ![i] = k]
    /\ owner' = [owner EXCEPT ![i] = TRUE]
    /\ work' = [work EXCEPT ![i] = "running"]

\* start of the group.
Start(k, i) ==
    /\ Admits
    /\ k \notin routes
    /\ Entered(k, i)
    /\ routes' = routes \cup {k}
    /\ UNCHANGED <<phase, calls>>

AbandonedInPlace(k, i) == byAttempt' = [byAttempt EXCEPT ![k] = i]

\* abandon: what start had entered for the attempt is taken back.
Abandoned(k, i) == UNCHANGED byAttempt

\* The process adapter refuses, which uses up an operation id.  Refusals that
\* happen earlier, or in the HTTP client, leave nothing behind.
StartRefused(k, i) ==
    /\ Admits
    /\ k \in Cli \ routes
    /\ byAttempt[k] = None
    /\ work[i] = "unused"
    /\ Abandoned(k, i)
    /\ keyOf' = [keyOf EXCEPT ![i] = k]
    /\ work' = [work EXCEPT ![i] = "gone"]
    /\ UNCHANGED <<phase, routes, byOperation, owner, calls>>

\* cancel: a process is told to stop, a request is taken out of the transfer
\* engine and its completion queued.  Work that has ended cannot be cancelled.
Cancel(k) ==
    LET i == byAttempt[k] IN
    /\ Admits
    /\ k \in routes
    /\ i # None
    /\ work[i] = "running"
    /\ work' = [work EXCEPT ![i] = IF k \in Cli THEN "stopping" ELSE "ended"]
    /\ UNCHANGED <<phase, tables, attempt, calls>>

-----------------------------------------------------------------------------
(* Events of the backends.                                                 *)

\* The work is over, by itself or by its deadline; its callback is owed.
Ends(i) ==
    /\ work[i] \in {"running", "stopping"}
    /\ work' = [work EXCEPT ![i] = "ended"]
    /\ UNCHANGED <<phase, tables, attempt, calls>>

\* matches_active_operation, and the checks at the start of complete.
Matches(i) ==
    /\ owner[i]
    /\ byOperation[i] = keyOf[i]
    /\ byAttempt[keyOf[i]] = i

\* The executor forgets the attempt.
Retire(i) ==
    /\ byAttempt' = [byAttempt EXCEPT ![keyOf[i]] = None]
    /\ byOperation' = [byOperation EXCEPT ![i] = None]
    /\ owner' = [owner EXCEPT ![i] = FALSE]

UnrouteNever(i) == UNCHANGED routes

\* routed_completion: so does the group, by the key it accepted.
Unroute(i) == routes' = routes \ {keyOf[i]}

\* The callback of operation i: finish or complete, then the handler.
Callback(i) ==
    /\ phase \in {"open", "closed"}
    /\ work[i] = "ended"
    /\ work' = [work EXCEPT ![i] = "gone"]
    /\ IF Matches(i)
       THEN /\ Retire(i)
            /\ Unroute(i)
            /\ calls' = [calls EXCEPT ![keyOf[i]] = @ + 1]
       ELSE UNCHANGED <<tables, owner, calls>>
    /\ UNCHANGED <<phase, keyOf>>

-----------------------------------------------------------------------------
(* Shutdown of the group: executors.clear() destroys the executors of the  *)
(* map in turn, in an order the library chooses.                           *)

IsCli(i) == keyOf[i] \in Cli
IsHttp(i) == keyOf[i] \in Keys \ Cli

\* An executor's shutdown: every callback gate first, then the tables.
Emptied(I, K) ==
    /\ owner' = [i \in Ids |-> owner[i] /\ i \notin I]
    /\ byAttempt' = [k \in Keys |-> IF k \in K THEN None ELSE byAttempt[k]]
    /\ byOperation' = [i \in Ids |-> IF i \in I THEN None ELSE byOperation[i]]

BeginShutdown ==
    /\ phase = "open"
    /\ phase' = "closing"
    /\ UNCHANGED <<tables, attempt, work, calls>>

\* Destroying a Process kills and reaps its child; it never calls back.
DestroyCli ==
    /\ phase \in {"closing", "httpGone"}
    /\ phase' = IF phase = "closing" THEN "cliGone" ELSE "bothGone"
    /\ Emptied({i \in Ids : IsCli(i)}, Cli)
    /\ work' = [i \in Ids |-> IF byOperation[i] # None /\ IsCli(i) THEN "gone" ELSE work[i]]
    /\ UNCHANGED <<routes, keyOf, calls>>

\* A request is cancelled; the client outlives the executor and calls back.
DestroyHttp ==
    /\ phase \in {"closing", "cliGone"}
    /\ phase' = IF phase = "closing" THEN "httpGone" ELSE "bothGone"
    /\ Emptied({i \in Ids : IsHttp(i)}, Keys \ Cli)
    /\ work' = [i \in Ids |-> IF byOperation[i] # None /\ IsHttp(i) /\ work[i] = "running"
                              THEN "ended" ELSE work[i]]
    /\ UNCHANGED <<routes, keyOf, calls>>

EndShutdown ==
    /\ phase = "bothGone"
    /\ phase' = "closed"
    /\ routes' = {}
    /\ UNCHANGED <<byAttempt, byOperation, attempt, work, calls>>

Next ==
    \/ \E k \in Keys, i \in Ids : Start(k, i) \/ StartRefused(k, i)
    \/ \E k \in Keys : Cancel(k)
    \/ \E i \in Ids : Ends(i) \/ Callback(i)
    \/ BeginShutdown
    \/ DestroyCli
    \/ DestroyHttp
    \/ EndShutdown

\* Every operation has a deadline, and its end is reported (ProcessRun).
Fairness == \A i \in Ids : WF_vars(Ends(i)) /\ WF_vars(Callback(i))

Safe == Init /\ [][Next]_vars

Spec == Safe /\ Fairness

-----------------------------------------------------------------------------
(* Properties.                                                             *)

\* The types of the variables.
TypeOK ==
    /\ phase \in Phases
    /\ routes \subseteq Keys
    /\ byAttempt \in [Keys -> Ids \cup {None}]
    /\ byOperation \in [Ids -> Keys \cup {None}]
    /\ keyOf \in [Ids -> Keys \cup {None}]
    /\ owner \in [Ids -> BOOLEAN]
    /\ work \in [Ids -> {"unused", "running", "stopping", "ended", "gone"}]
    /\ calls \in [Keys -> Nat]

\* The tables of the group and of its executors always tell the same: a routed
\* attempt has one operation, in both tables, with its gate open and its callback
\* owed, and an operation that is owed nothing is in no table.
TablesAgree ==
    phase = "open" =>
        /\ \A k \in Keys : k \in routes <=> byAttempt[k] # None
        /\ \A k \in routes : byOperation[byAttempt[k]] = k
        /\ \A i \in Ids :
              /\ byOperation[i] # None <=> owner[i]
              /\ owner[i] <=> work[i] \in {"running", "stopping", "ended"}
              /\ owner[i] => byOperation[i] = keyOf[i] /\ byAttempt[keyOf[i]] = i

\* When the group is gone, so is its work: no process and no transfer goes on
\* that nobody waits for.
NothingLeftBehind ==
    phase = "closed" => \A i \in Ids : work[i] \notin {"running", "stopping"}

\* Routes, tables and work in progress tell the same while the group is open,
\* and nothing goes on when it is closed.
ExecutorsAgree ==
    TablesAgree /\ NothingLeftBehind

\* The group is what the scheduler relies on: every accepted attempt is completed
\* exactly once, unless the group is shut down, and none after that.
Contract == INSTANCE ExecutorContract WITH
    open <- phase = "open",
    active <- IF phase = "open" THEN routes ELSE {}
KeepsContract == Contract!Spec

=============================================================================

--------------------------- MODULE ExecutorContract ---------------------------
(***************************************************************************)
(* What AttemptExecutor promises the scheduler, by attempt key: a start is *)
(* accepted or refused, the handler of an accepted start is called exactly *)
(* once, and never after the executor is gone.                             *)
(***************************************************************************)
EXTENDS Naturals

CONSTANT Keys

VARIABLES
    open,       \* the executor has not been shut down
    active,     \* accepted attempts whose handler is owed
    calls       \* how often a handler was called for each key

vars == <<open, active, calls>>

Init ==
    /\ open = TRUE
    /\ active = {}
    /\ calls = [k \in Keys |-> 0]

\* start() succeeds; a key that is active is refused.
Accept(k) ==
    /\ open
    /\ k \notin active
    /\ active' = active \cup {k}
    /\ UNCHANGED <<open, calls>>

\* The handler is called, with the key of its start.
Complete(k) ==
    /\ open
    /\ k \in active
    /\ active' = active \ {k}
    /\ calls' = [calls EXCEPT ![k] = @ + 1]
    /\ UNCHANGED open

\* The executor is destroyed with the handlers it holds.
Close ==
    /\ open
    /\ open' = FALSE
    /\ active' = {}
    /\ UNCHANGED calls

Next ==
    \/ \E k \in Keys : Accept(k) \/ Complete(k)
    \/ Close

Safe == Init /\ [][Next]_vars

Spec == Safe /\ \A k \in Keys : WF_vars(Complete(k))

=============================================================================

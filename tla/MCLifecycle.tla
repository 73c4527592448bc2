------------------------------ MODULE MCLifecycle ------------------------------
(* An instance of Jobu for TLC with two scopes, each explored by itself:     *)
(* every request on one job, and two jobs that compete for the slots of      *)
(* their queue.                                                              *)
EXTENDS MCJobu

VARIABLE scope

\* Bound: one job at a time, in a queue of one slot that keeps its policy.
OneJob ==
    /\ Cardinality({j \in Jobs : jobs'[j].state # "absent"}) <= 1
    /\ \A q \in Queues :
           /\ queues'[q].limit = 1
           /\ "absent" \in {queues[q].state, queues'[q].state}
                  \/ queues'[q].retryInterrupted = queues[q].retryInterrupted

\* Bound: two jobs and two slots, without manual runs, cancellation or deletion;
\* an interrupted run is retried.
TwoJobs ==
    /\ \A r \in Runs :
           /\ ~runs'[r].manual
           /\ runs'[r].state = "cancelled" => runs[r].state \in {"running", "cancelled"}
    /\ cancelling' = {}
    /\ \A j \in Jobs : jobs'[j].state # "deleted"
    /\ \A q \in Queues :
           /\ queues'[q].state # "deleted"
           /\ queues'[q].state # "absent" => queues'[q].retryInterrupted

ScopedInit == Init /\ scope \in {"one job", "two jobs"}
ScopedNext ==
    /\ Next
    /\ IF scope = "one job" THEN OneJob ELSE TwoJobs
    /\ UNCHANGED scope
ScopedSpec == ScopedInit /\ [][ScopedNext]_<<vars, scope>>

=============================================================================

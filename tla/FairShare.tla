------------------------------- MODULE FairShare -------------------------------
(***************************************************************************)
(* The smooth weighted round-robin by which a scheduler cycle shares the   *)
(* capacity of one runner type between queues: reconcile_fairness and      *)
(* dispatch_visit.  CLI and HTTP have separate credits and run the same    *)
(* code, so one type is modelled.                                          *)
(*                                                                         *)
(* weight is queue_weights, what the last cycle loaded (0: the queue was   *)
(* not active); credit is the credit map, where an entry that is missing   *)
(* counts as 0.  A visit is split where its transactions are: eligible and *)
(* total are its local variables.  What the store holds when a cycle       *)
(* starts, which queues have a due candidate and a free slot, and which    *)
(* candidates are stale by the time they are claimed, is left open.        *)
(*                                                                         *)
(* wait, window and served are history variables for the properties.       *)
(***************************************************************************)
EXTENDS Integers, FiniteSets, FiniteSetsExt

CONSTANTS
    Shares,     \* queue ids; a tie goes to the smaller id
    Weights     \* the weights an active queue can be given

ASSUME FairShareAssumption ==
    /\ Shares \subseteq Nat
    /\ IsFiniteSet(Shares)
    /\ Weights \subseteq Nat \ {0}

VARIABLES weight, credit, phase, eligible, total, wait, window, served

history == <<wait, window, served>>
vars == <<weight, credit, phase, eligible, total, history>>

Zero == [q \in Shares |-> 0]
Loaded == {q \in Shares : weight[q] > 0}
WeightOf(Q) == MapThenSumSet(LAMBDA q : weight[q], Q)

Init ==
    /\ weight = Zero
    /\ credit = Zero
    /\ phase = "idle"
    /\ eligible = {}
    /\ total = 0
    /\ wait = Zero
    /\ window = {}
    /\ served = Zero

-----------------------------------------------------------------------------

\* reconcile_fairness: a new, reweighted or departed queue starts from nothing.
Reconciled(loaded) == [q \in Shares |-> IF loaded[q] # weight[q] THEN 0 ELSE credit[q]]

\* A cycle loads the active queues, whatever requests have made of them since
\* the last one.
BeginCycle(loaded) ==
    /\ phase = "idle"
    /\ weight' = loaded
    /\ credit' = Reconciled(loaded)
    /\ phase' = "visit"
    /\ wait' = [q \in Shares |-> IF loaded[q] # weight[q] THEN 0 ELSE wait[q]]
    /\ window' = IF loaded = weight THEN window ELSE {}
    /\ served' = IF loaded = weight THEN served ELSE Zero
    /\ UNCHANGED <<eligible, total>>

\* The type is at its global limit, or nothing was dispatched.
EndCycle ==
    /\ phase = "visit"
    /\ phase' = "idle"
    /\ UNCHANGED <<weight, credit, eligible, total, history>>

\* The executor of this type is unavailable: reset_credits.
Unavailable ==
    /\ phase = "visit"
    /\ credit' = Zero
    /\ phase' = "idle"
    /\ wait' = Zero
    /\ window' = {}
    /\ served' = Zero
    /\ UNCHANGED <<weight, eligible, total>>

CreditedAll(E) == [q \in Shares |-> credit[q] + weight[q]]

\* Queues without a due candidate or a free slot lose their credit; the others
\* gain their weight.
Credited(E) == [q \in Shares |-> IF q \in E THEN credit[q] + weight[q] ELSE 0]

Visit(E) ==
    /\ phase = "visit"
    /\ E \subseteq Loaded
    /\ credit' = Credited(E)
    /\ eligible' = E
    /\ total' = WeightOf(E)
    /\ phase' = IF E = {} THEN "idle" ELSE "select"
    /\ wait' = [q \in Shares |-> IF q \in E THEN wait[q] ELSE 0]
    /\ window' = IF credit = Zero \/ E = window THEN E ELSE {}
    /\ served' = IF credit # Zero /\ E = window THEN served ELSE Zero
    /\ UNCHANGED weight

BetterById(q, r) == q < r

Better(q, r) == credit[q] > credit[r] \/ (credit[q] = credit[r] /\ q < r)

\* The highest credit, the smaller id in a tie.
Selected == CHOOSE q \in eligible : \A r \in eligible \ {q} : Better(q, r)

ChargedOwnWeight == [credit EXCEPT ![Selected] = @ - weight[Selected]]
Charged == [credit EXCEPT ![Selected] = @ - total]

\* The selected queue has a candidate that can still be claimed.
Dispatch ==
    /\ phase = "select"
    /\ credit' = Charged
    /\ phase' = "visit"
    /\ eligible' = {}
    /\ total' = 0
    /\ wait' = [q \in Shares |-> IF q \in eligible \ {Selected} THEN wait[q] + 1 ELSE 0]
    /\ served' = IF window = {} THEN served ELSE [served EXCEPT ![Selected] = @ + 1]
    /\ UNCHANGED <<weight, window>>

\* None of its candidates can: the queue drops out of this opportunity.
Stale ==
    /\ phase = "select"
    /\ credit' = [credit EXCEPT ![Selected] = 0]
    /\ total' = total - weight[Selected]
    /\ eligible' = eligible \ {Selected}
    /\ phase' = IF eligible' = {} THEN "idle" ELSE "select"
    /\ wait' = [wait EXCEPT ![Selected] = 0]
    /\ window' = {}
    /\ served' = Zero
    /\ UNCHANGED weight

Next ==
    \/ \E loaded \in [Shares -> Weights \cup {0}] : BeginCycle(loaded)
    \/ EndCycle
    \/ Unavailable
    \/ \E E \in SUBSET Loaded : Visit(E)
    \/ Dispatch
    \/ Stale

Spec == Init /\ [][Next]_vars

-----------------------------------------------------------------------------
(* Properties.                                                             *)

\* The most all queues can weigh together.
MaxTotal == Cardinality(Shares) * Max(Weights)

\* Whatever queues come, go, change weight or lose their candidates, a credit
\* stays within twice the sum of all weights: the overflow failure of add_weight
\* and subtract_total, which would stop the scheduler for good, cannot happen.
CreditsBounded == \A q \in Shares : -2 * MaxTotal <= credit[q] /\ credit[q] <= 2 * MaxTotal

\* While the same queues compete, each one's share of the dispatches since all
\* credits were zero is within one dispatch of its weight's share, so after as
\* many dispatches as the weights sum to it is exact.
Visits == MapThenSumSet(LAMBDA q : served[q], window)
ProportionalShare ==
    phase # "select" =>
        \A q \in window :
            LET lag == served[q] * WeightOf(window) - Visits * weight[q]
            IN -WeightOf(window) < lag /\ lag < WeightOf(window)

\* A queue that stays eligible is passed over only a bounded number of times,
\* however the other queues' eligibility, weights and candidates change between
\* dispatches.
NoStarvation == \A q \in Loaded : wait[q] * weight[q] <= 2 * MaxTotal

\* Capacity is divided by weight: no queue starves, shares are exact while the
\* competitors stay the same, and credits never come near their limit.
SharesAreFair ==
    CreditsBounded /\ ProportionalShare /\ NoStarvation

=============================================================================

---------------------------- MODULE MCControlPlane ----------------------------
(***************************************************************************)
(* A keyed call, and a second one which repeats it, possibly on a new      *)
(* connection, or uses its key for another request, or has no key.         *)
(***************************************************************************)
EXTENDS ControlPlane

Plan(last, key, body) ==
    [last |-> last, request |-> <<[key |-> "k", body |-> 1], [key |-> key, body |-> body]>>]

MCPlans == {Plan(2, "k", 1), Plan(1, "k", 2), Plan(1, NoKey, 1)}

=============================================================================

----------------------------- MODULE MCComponents -----------------------------
(***************************************************************************)
(* Components of which only safety is asked.  They share no state: a       *)
(* behaviour is one of one of them, and focus says which.                  *)
(***************************************************************************)
EXTENDS FairShare, EventLoop, RunTiming, HttpLeg, HttpTransfer

VARIABLE focus

MCParentOf == [o \in Objects |-> 1]
MCTimeoutOf == <<2, 1>>
MCOrigins == [host : {1, 2}, tls : {TRUE}] \cup {[host |-> 2, tls |-> FALSE]}

componentsVars == <<focus, vars, loopVars, timingVars, legVars, httpVars>>

ComponentsInit ==
    /\ focus \in {"share", "loop", "timing", "leg", "transfer"}
    /\ Init /\ LoopInit /\ TimingInit /\ LegInit /\ HttpInit
    /\ focus # "leg" =>
          request.method = "GET" /\ request.follow /\ request.origin = [host |-> 1, tls |-> TRUE]

ComponentsNext ==
    /\ focus' = focus
    /\ \/ focus = "share" /\ Next /\ UNCHANGED <<loopVars, timingVars, legVars, httpVars>>
       \/ focus = "loop" /\ LoopNext /\ UNCHANGED <<vars, timingVars, legVars, httpVars>>
       \/ focus = "timing" /\ TimingNext /\ UNCHANGED <<vars, loopVars, legVars, httpVars>>
       \/ focus = "leg" /\ LegNext /\ UNCHANGED <<vars, loopVars, timingVars, httpVars>>
       \/ focus = "transfer" /\ HttpNext /\ UNCHANGED <<vars, loopVars, timingVars, legVars>>

ComponentsSpec == ComponentsInit /\ [][ComponentsNext]_componentsVars

=============================================================================

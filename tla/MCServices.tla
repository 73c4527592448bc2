------------------------------ MODULE MCServices ------------------------------
(***************************************************************************)
(* The executors and the daemon's lifetime.  They share no state: a        *)
(* behaviour is one of one of them, and focus says which.                  *)
(***************************************************************************)
EXTENDS Executors, Daemon

VARIABLE focus

servicesVars == <<focus, vars, daemonVars>>

ServicesInit ==
    /\ focus \in {"executors", "daemon"}
    /\ Init /\ DaemonInit

ServicesNext ==
    /\ focus' = focus
    /\ \/ focus = "executors" /\ Next /\ UNCHANGED daemonVars
       \/ focus = "daemon" /\ DaemonNext /\ UNCHANGED vars

\* The fairness of each part, for the behaviours that are its own.
ServicesFairness ==
    /\ \A i \in Ids :
          WF_vars(focus = "executors" /\ Ends(i)) /\ WF_vars(focus = "executors" /\ Callback(i))
    /\ \A d \in Daemons : WF_daemonVars(focus = "daemon" /\ Proceeds(d))

ServicesSpec == ServicesInit /\ [][ServicesNext]_servicesVars /\ ServicesFairness

=============================================================================

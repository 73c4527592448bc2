------------------------------ MODULE MCRuntime ------------------------------
(***************************************************************************)
(* A child process, the database and the retention of replay records.  They*)
(* share no state: a behaviour is one of one of them, and focus says which.*)
(***************************************************************************)
EXTENDS ProcessRun, ReplayRetention, DatabaseConnection, QueryCursor

VARIABLE focus

MCJobType == [j \in Jobs |-> "cli"]
MCTypeLimit == [t \in Types |-> 1]

runtimeVars == <<focus, vars, replayVars, dbVars, queryVars>>

RuntimeInit ==
    /\ focus \in {"process", "replay", "database", "query"}
    /\ Init /\ ReplayInit /\ DbInit /\ QueryInit

RuntimeNext ==
    /\ focus' = focus
    /\ \/ focus = "process" /\ Next /\ UNCHANGED <<replayVars, dbVars, queryVars>>
       \/ focus = "replay" /\ ReplayNext /\ UNCHANGED <<vars, dbVars, queryVars>>
       \/ focus = "database" /\ DbNext /\ UNCHANGED <<vars, replayVars, queryVars>>
       \/ focus = "query" /\ QueryNext /\ UNCHANGED <<vars, replayVars, dbVars>>

\* The fairness of each part, for the behaviours that are its own.
RuntimeFairness ==
    /\ WF_vars(focus = "process" /\ StatusReady)
    /\ \A c \in Channels :
          WF_vars(focus = "process" /\ OutputReady(c)) /\ WF_vars(focus = "process" /\ Continue(c))
    /\ WF_vars(focus = "process" /\ ChildReady)
    /\ WF_vars(focus = "process" /\ GracePasses)
    /\ WF_vars(focus = "process" /\ GraceExpired)
    /\ WF_vars(focus = "process" /\ DrainExpired)
    /\ WF_vars(focus = "process" /\ GroupDies)
    /\ WF_replayVars(focus = "replay" /\ ProcessBatch)
    /\ WF_replayVars(focus = "replay" /\ StartService)

RuntimeSpec == RuntimeInit /\ [][RuntimeNext]_runtimeVars /\ RuntimeFairness

=============================================================================

------------------------------- MODULE MCClients -------------------------------
(***************************************************************************)
(* What a client of the daemon meets: the documents it sends and gets, the *)
(* sessions and edits of jobuctl, and the reads of the daemon's tables.    *)
(* They share no state: a behaviour is one of one of them, and focus says  *)
(* which.                                                                  *)
(***************************************************************************)
EXTENDS WireCodecs, CtlSession, CtlEdit, Listing

VARIABLE focus

clientsVars == <<focus, wireVars, ctlVars, editVars, listVars>>

\* What a component's initial states leave open is fixed while another one is looked at.
ClientsInit ==
    /\ focus \in {"wire", "session", "edit", "list"}
    /\ WireInit
    /\ CtlInit
    /\ focus # "session" => command.kind = "SystemInfo"
    /\ EditInit
    /\ focus # "edit" => resource = "job"
    /\ ListInit
    /\ focus # "list" => of = "secrets"

ClientsNext ==
    /\ focus' = focus
    /\ \/ focus = "wire" /\ WireNext /\ UNCHANGED <<ctlVars, editVars, listVars>>
       \/ focus = "session" /\ CtlNext /\ UNCHANGED <<wireVars, editVars, listVars>>
       \/ focus = "edit" /\ EditNext /\ UNCHANGED <<wireVars, ctlVars, listVars>>
       \/ focus = "list" /\ ListNext /\ UNCHANGED <<wireVars, ctlVars, editVars>>

ClientsSpec == ClientsInit /\ [][ClientsNext]_clientsVars

=============================================================================

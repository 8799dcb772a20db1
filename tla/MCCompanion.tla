---------------------------- MODULE MCCompanion ----------------------------
(* CompanionActor with callers that send commands, or with callers that     *)
(* register and deregister events; either may close.                        *)
EXTENDS MCCompanionActor

VARIABLE scenario

MixedOps == [c \in MCCallers |-> {"command", "register", "deregister", "close"}]

OpsOf(s) == IF s = "commands" THEN {"none", "command", "close"}
            ELSE {"none", "register", "deregister", "close"}

MCInit == Init /\ scenario \in {"commands", "interest"}

MCNext ==
    /\ Next
    /\ \A c \in Callers : op'[c] \in OpsOf(scenario)
    /\ scenario = "interest" => Cardinality(accepted') <= 1
    /\ UNCHANGED scenario

MCSpec == MCInit /\ [][MCNext]_<<vars, scenario>>
=============================================================================

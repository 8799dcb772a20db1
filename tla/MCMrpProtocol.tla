--------------------------- MODULE MCMrpProtocol ---------------------------
(* Instances of MrpProtocol for TLC. *)
EXTENDS MrpProtocol, TLC

CallerSymmetry == Permutations(Callers) \cup Permutations(Ids)

\* Messages that nobody answers are under way only while no heartbeat was enabled yet.
SendsBeforeHeartbeat == enables > 0 => \A c \in Callers : op[c] # "send"
=============================================================================

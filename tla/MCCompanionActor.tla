-------------------------- MODULE MCCompanionActor --------------------------
(***************************************************************************)
(* Small instances of CompanionActor: callers and names are model values,  *)
(* XIDs are numbers of which the smallest free one is taken next.          *)
(***************************************************************************)
EXTENDS CompanionActor

CONSTANTS c1, c2, iMC, status

MCCallers == {c1, c2}
MCNames == {iMC, status}
OneName == {iMC}
OneCloser == [c \in MCCallers |-> IF c = c1 THEN {"command", "close"} ELSE {"command", "register"}]
Commands == [c \in MCCallers |-> {"command"}]

\* Callers may be exchanged for one another.
CallerSymmetry == Permutations(MCCallers)
=============================================================================

----------------------------- MODULE RpcChannel -----------------------------
(***************************************************************************)
(* What a protocol connection promises the tasks that exchange messages    *)
(* over it, whatever queues, tables and tasks it is built from: a call is  *)
(* answered only after its request was transmitted and while the           *)
(* connection is up, it is answered or failed once, and it returns.  A     *)
(* call that carries an identifier is answered by the answer to its own    *)
(* request.  A call without one may get the answer to an older call, but   *)
(* only once a call without one has been given up.                         *)
(***************************************************************************)
CONSTANT Tasks

VARIABLES
  call,       \* each task's call: none, accepted, transmitted, or with its outcome decided
  anonymous,  \* the tasks whose call carries no identifier
  lapsed,     \* whether a call without an identifier has been given up
  up          \* whether the connection still serves

vars == <<call, anonymous, lapsed, up>>

TypeOK ==
  /\ call \in [Tasks -> {"idle", "open", "sent", "answered", "misanswered", "failed"}]
  /\ anonymous \in SUBSET Tasks
  /\ lapsed \in BOOLEAN /\ up \in BOOLEAN

Init ==
  /\ call = [t \in Tasks |-> "idle"]
  /\ anonymous = {}
  /\ lapsed = FALSE /\ up = TRUE

Invoke(t) ==
  /\ call[t] = "idle"
  /\ call' = [call EXCEPT ![t] = "open"]
  /\ anonymous' \in {anonymous, anonymous \cup {t}}
  /\ UNCHANGED <<lapsed, up>>

Transmit(t) ==
  /\ up
  /\ call[t] = "open"
  /\ call' = [call EXCEPT ![t] = "sent"]
  /\ UNCHANGED <<anonymous, lapsed, up>>

\* The answer to the call's own request.
Answer(t) ==
  /\ up
  /\ call[t] = "sent"
  /\ call' = [call EXCEPT ![t] = "answered"]
  /\ UNCHANGED <<anonymous, lapsed, up>>

\* The late answer to a call that was given up.
Misanswer(t) ==
  /\ up
  /\ call[t] = "sent" /\ t \in anonymous /\ lapsed
  /\ call' = [call EXCEPT ![t] = "misanswered"]
  /\ UNCHANGED <<anonymous, lapsed, up>>

\* Failures may strike several calls at once: a connection that ends fails all it held.
Fail(S) ==
  /\ \A t \in S : call[t] \in {"open", "sent"}
  /\ call' = [t \in Tasks |-> IF t \in S THEN "failed" ELSE call[t]]
  /\ lapsed' \in {lapsed, lapsed \/ S \cap anonymous # {}}
  /\ UNCHANGED <<anonymous, up>>

\* A call returns, an undecided one with an error.
Return(t) ==
  /\ call[t] # "idle"
  /\ call' = [call EXCEPT ![t] = "idle"]
  /\ anonymous' = anonymous \ {t}
  /\ UNCHANGED <<lapsed, up>>

GoDown ==
  /\ up
  /\ up' = FALSE
  /\ UNCHANGED <<call, anonymous, lapsed>>

Next ==
  \/ \E S \in SUBSET Tasks : Fail(S)
  \/ \E t \in Tasks : Invoke(t) \/ Transmit(t) \/ Answer(t) \/ Misanswer(t) \/ Return(t)
  \/ GoDown

Spec == Init /\ [][Next]_vars
=============================================================================

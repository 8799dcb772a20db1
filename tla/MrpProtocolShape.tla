--------------------------- MODULE MrpProtocolShape ---------------------------
(***************************************************************************)
(* Proofs about MrpProtocol, first part: what the request channel holds    *)
(* after each step that touches it, and the type invariant with the shape  *)
(* of calls, requests, actor and heartbeat it needs to be inductive.       *)
(***************************************************************************)
EXTENDS MrpProtocol, TLAPS

-----------------------------------------------------------------------------
(* The request channel. *)

\* Append puts one element behind the others.
LEMMA AppendFacts ==
  ASSUME NEW S, NEW q \in Seq(S), NEW e \in S
  PROVE  /\ Append(q, e) \in Seq(S)
         /\ Len(Append(q, e)) = Len(q) + 1
         /\ \A i \in 1 .. Len(q) : Append(q, e)[i] = q[i]
         /\ Append(q, e)[Len(q) + 1] = e
  OBVIOUS

\* Head and Tail: the first element, and the others one place earlier.
LEMMA TailFacts ==
  ASSUME NEW S, NEW q \in Seq(S), q # << >>
  PROVE  /\ Head(q) \in S /\ Head(q) = q[1] /\ Len(q) \in Nat \ {0}
         /\ Tail(q) \in Seq(S)
         /\ Len(Tail(q)) = Len(q) - 1
         /\ \A i \in 1 .. Len(q) - 1 : Tail(q)[i] = q[i + 1]
  OBVIOUS

\* A request at the end of the channel leaves the others where they were.
LEMMA EnqueueFacts ==
  ASSUME TypeOK, NEW r \in Request, Enqueues(r)
  PROVE  /\ requests' \in Seq(Request) /\ Len(requests') <= RequestQueue
         /\ actor # "stopped"
         /\ Len(requests) \in Nat
         /\ Len(requests') = Len(requests) + 1
         /\ \A i \in 1 .. Len(requests) : requests'[i] = requests[i]
         /\ requests'[Len(requests) + 1] = r
<1>1. requests' = Append(requests, r) /\ requests \in Seq(Request) /\ Len(requests) < RequestQueue
  BY DEF Enqueues, TypeOK
<1>2. Len(requests') = Len(requests) + 1 /\ Len(requests) \in Nat
  BY <1>1, AppendFacts
<1> QED
  BY <1>1, <1>2, AppendFacts, BoundAssumption DEF Enqueues

\* A sender that does not care whether the actor still listens; a stopped actor's channel is empty.
LEMMA EnqueueUnlessStoppedFacts ==
  ASSUME TypeOK, ActorShape, NEW r \in Request, EnqueuesUnlessStopped(r)
  PROVE  /\ requests' \in Seq(Request) /\ Len(requests') <= RequestQueue
         /\ Len(requests) \in Nat
         /\ \A i \in 1 .. Len(requests) : requests'[i] = requests[i]
         /\ \/ Enqueues(r) /\ Len(requests') = Len(requests) + 1 /\ requests'[Len(requests) + 1] = r
            \/ actor = "stopped" /\ requests = << >> /\ requests' = << >> /\ Len(requests') = 0
<1>1. CASE Enqueues(r)
  BY <1>1, EnqueueFacts
<1>2. CASE actor = "stopped" /\ UNCHANGED requests
  BY <1>2 DEF ActorShape, TypeOK
<1> QED
  BY <1>1, <1>2 DEF EnqueuesUnlessStopped

\* The request an exchange or a send queues is the task's own.
LEMMA SubmitFacts ==
  ASSUME TypeOK, CallShape, NEW t \in Tasks, Submit(t)
  PROVE  /\ requests' \in Seq(Request) /\ Len(requests') <= RequestQueue
         /\ actor # "stopped"
         /\ Len(requests) \in Nat
         /\ Len(requests') = Len(requests) + 1
         /\ \A i \in 1 .. Len(requests) : requests'[i] = requests[i]
         /\ requests'[Len(requests) + 1] = [op |-> op[t], key |-> key[t], slot |-> slot[t]]
         /\ op[t] \in {"exchange", "send"}
<1>1. op[t] \in {"exchange", "send"}
  BY DEF Submit, TypeOK, CallShape
<1>2. [op |-> op[t], key |-> key[t], slot |-> slot[t]] \in Request
  BY <1>1 DEF TypeOK, CallShape, Request, Slots
<1> QED
  BY <1>1, <1>2, EnqueueFacts DEF Submit

\* close() queues a Shutdown that carries the caller's oneshot.
LEMMA CloseFacts ==
  ASSUME TypeOK, NEW c \in Callers, SubmitClose(c)
  PROVE  /\ requests' \in Seq(Request) /\ Len(requests') <= RequestQueue
         /\ actor # "stopped"
         /\ Len(requests) \in Nat
         /\ Len(requests') = Len(requests) + 1
         /\ \A i \in 1 .. Len(requests) : requests'[i] = requests[i]
         /\ requests'[Len(requests) + 1] = [op |-> "shutdown", key |-> None, slot |-> c]
<1>1. [op |-> "shutdown", key |-> None, slot |-> c] \in Request
  BY DEF Request, Slots
<1> QED
  BY <1>1, EnqueueFacts DEF SubmitClose

\* A timed out exchange queues a Cancel for its key.
LEMMA CancelFacts ==
  ASSUME TypeOK, CallShape, ActorShape, NEW t \in Tasks, SendCancel(t)
  PROVE  /\ requests' \in Seq(Request) /\ Len(requests') <= RequestQueue
         /\ Len(requests) \in Nat
         /\ op[t] = "exchange" /\ key[t] \in Keys
         /\ \A i \in 1 .. Len(requests) : requests'[i] = requests[i]
         /\ \/ /\ actor # "stopped" /\ Len(requests') = Len(requests) + 1
               /\ requests'[Len(requests) + 1] = [op |-> "cancel", key |-> key[t], slot |-> None]
            \/ actor = "stopped" /\ requests = << >> /\ requests' = << >> /\ Len(requests') = 0
<1>1. op[t] = "exchange" /\ key[t] \in Keys
  BY DEF SendCancel, TypeOK, CallShape
<1>2. [op |-> "cancel", key |-> key[t], slot |-> None] \in Request
  BY <1>1 DEF Request
<1>3. EnqueuesUnlessStopped([op |-> "cancel", key |-> key[t], slot |-> None])
  BY DEF SendCancel
<1> QED
  BY <1>1, <1>2, <1>3, EnqueueUnlessStoppedFacts DEF Enqueues

\* The heartbeat queues a Shutdown with a oneshot nobody waits on.
LEMMA KillFacts ==
  ASSUME TypeOK, ActorShape, KillConnection
  PROVE  /\ requests' \in Seq(Request) /\ Len(requests') <= RequestQueue
         /\ Len(requests) \in Nat
         /\ \A i \in 1 .. Len(requests) : requests'[i] = requests[i]
         /\ \/ /\ actor # "stopped" /\ Len(requests') = Len(requests) + 1
               /\ requests'[Len(requests) + 1] = [op |-> "shutdown", key |-> None, slot |-> None]
            \/ actor = "stopped" /\ requests = << >> /\ requests' = << >> /\ Len(requests') = 0
<1>1. [op |-> "shutdown", key |-> None, slot |-> None] \in Request
  BY DEF Request
<1>2. EnqueuesUnlessStopped([op |-> "shutdown", key |-> None, slot |-> None])
  BY DEF KillConnection
<1> QED
  BY <1>1, <1>2, EnqueueUnlessStoppedFacts DEF Enqueues

\* The actor takes the oldest request.
LEMMA DequeueFacts ==
  ASSUME TypeOK, requests # << >>, requests' = Tail(requests)
  PROVE  /\ requests' \in Seq(Request) /\ Len(requests') <= RequestQueue
         /\ Len(requests) \in Nat \ {0} /\ Len(requests') = Len(requests) - 1
         /\ Head(requests) \in Request /\ Head(requests) = requests[1]
         /\ \A i \in 1 .. Len(requests') : requests'[i] = requests[i + 1]
<1>1. requests \in Seq(Request) /\ Len(requests) <= RequestQueue
  BY DEF TypeOK
<1> QED
  BY <1>1, TailFacts, BoundAssumption


\* What the request channel holds after an enqueue: what it held, then possibly one request more.
LEMMA CancelQueue ==
  ASSUME TypeOK, CallShape, ActorShape, NEW t \in Tasks, SendCancel(t), NEW i \in 1 .. Len(requests')
  PROVE  /\ Len(requests) \in Nat
         /\ \/ i \in 1 .. Len(requests) /\ requests'[i] = requests[i]
            \/ /\ i = Len(requests) + 1 /\ requests'[i].op = "cancel"
               /\ requests'[i].key = key[t] /\ requests'[i].slot = None
<1>1. /\ Len(requests) \in Nat
      /\ \A j \in 1 .. Len(requests) : requests'[j] = requests[j]
  BY CancelFacts
<1>2. \/ /\ Len(requests') = Len(requests) + 1
         /\ requests'[Len(requests) + 1] = [op |-> "cancel", key |-> key[t], slot |-> None]
      \/ Len(requests') = 0
  BY CancelFacts
<1> QED
  BY <1>1, <1>2

\* The same for the heartbeat's Shutdown.
LEMMA KillQueue ==
  ASSUME TypeOK, ActorShape, KillConnection, NEW i \in 1 .. Len(requests')
  PROVE  /\ Len(requests) \in Nat
         /\ \/ i \in 1 .. Len(requests) /\ requests'[i] = requests[i]
            \/ /\ i = Len(requests) + 1 /\ requests'[i].op = "shutdown"
               /\ requests'[i].key = None /\ requests'[i].slot = None
  BY KillFacts

\* The same for an exchange's or a send's request.
LEMMA SubmitQueue ==
  ASSUME TypeOK, CallShape, NEW t \in Tasks, Submit(t), NEW i \in 1 .. Len(requests')
  PROVE  /\ Len(requests) \in Nat
         /\ \/ i \in 1 .. Len(requests) /\ requests'[i] = requests[i]
            \/ /\ i = Len(requests) + 1 /\ requests'[i].op = op[t]
               /\ requests'[i].key = key[t] /\ requests'[i].slot = slot[t]
<1>1. /\ Len(requests) \in Nat /\ Len(requests') = Len(requests) + 1
      /\ \A j \in 1 .. Len(requests) : requests'[j] = requests[j]
  BY SubmitFacts
<1>2. requests'[Len(requests) + 1] = [op |-> op[t], key |-> key[t], slot |-> slot[t]]
  BY SubmitFacts
<1> QED
  BY <1>1, <1>2

\* The same for close()'s Shutdown.
LEMMA CloseQueue ==
  ASSUME TypeOK, NEW c \in Callers, SubmitClose(c), NEW i \in 1 .. Len(requests')
  PROVE  /\ Len(requests) \in Nat
         /\ \/ i \in 1 .. Len(requests) /\ requests'[i] = requests[i]
            \/ /\ i = Len(requests) + 1 /\ requests'[i].op = "shutdown"
               /\ requests'[i].key = None /\ requests'[i].slot = c
<1>1. /\ Len(requests) \in Nat /\ Len(requests') = Len(requests) + 1
      /\ \A j \in 1 .. Len(requests) : requests'[j] = requests[j]
  BY CloseFacts
<1>2. requests'[Len(requests) + 1] = [op |-> "shutdown", key |-> None, slot |-> c]
  BY CloseFacts
<1> QED
  BY <1>1, <1>2

\* The reader forwards one message, or learns that the actor is gone.
LEMMA ForwardType ==
  ASSUME TypeOK, NEW m \in Inbound, Forward(m)
  PROVE  inbound' \in Seq(Inbound) /\ Len(inbound') <= InboundQueue /\ reader' \in {"reading", "ended"}
<1>1. CASE actor = "stopped"
  BY <1>1 DEF Forward, TypeOK
<1>2. CASE actor # "stopped"
  <2>1. inbound' = Append(inbound, m) /\ Len(inbound) < InboundQueue /\ reader' = reader
    BY <1>2 DEF Forward
  <2> QED
    BY <2>1, AppendFacts, BoundAssumption DEF TypeOK
<1> QED BY <1>1, <1>2

-----------------------------------------------------------------------------
(* The shape of a state. *)

\* Every step keeps the type.
LEMMA TypeStep ==
  ASSUME TypeOK, CallShape, RequestShape, ActorShape, HeartbeatShape, [Next]_vars
  PROVE  TypeOK'
<1> USE TaskAssumption, KeyAssumption, BoundAssumption, StallAssumption
    DEF Tasks, Keys, Slots, callVars, actorVars, hbVars, deviceVars
<1>0. CASE UNCHANGED vars
  BY <1>0 DEF vars, TypeOK, CallShape, RequestShape, HeartbeatShape, Request, Inbound, ExchangeShape
<1>1. ASSUME NEW t \in Tasks, Submit(t) PROVE TypeOK'
  <2>1. requests' \in Seq(Request) /\ Len(requests') <= RequestQueue
    BY <1>1, SubmitFacts
  <2> QED
    BY <1>1, <2>1 DEF Submit, TypeOK
<1>2. ASSUME NEW t \in Tasks, SubmitFails(t) PROVE TypeOK'
  BY <1>2 DEF SubmitFails, Return, BeatReturns, TypeOK, CallShape, RequestShape, HeartbeatShape,
       Request, Inbound, ExchangeShape
<1>3. ASSUME NEW t \in Tasks, Receive(t) PROVE TypeOK'
  BY <1>3 DEF Receive, Return, BeatReturns, TypeOK, CallShape, RequestShape, HeartbeatShape,
       Request, Inbound, ExchangeShape
<1>4. ASSUME NEW t \in Tasks, Timeout(t) PROVE TypeOK'
  BY <1>4 DEF Timeout, TypeOK, CallShape, RequestShape, HeartbeatShape, Request, Inbound, ExchangeShape
<1>5. ASSUME NEW t \in Tasks, SendCancel(t) PROVE TypeOK'
  <2>1. requests' \in Seq(Request) /\ Len(requests') <= RequestQueue
    BY <1>5, CancelFacts
  <2>2. attempts' \in 0 .. HeartbeatRetries + 1 /\ hb' \in {"off", "sleep", "retry", "beating",
         "kill", "dead"}
    BY <1>5 DEF SendCancel, Return, BeatReturns, TypeOK, HeartbeatShape
  <2> QED
    BY <1>5, <2>1, <2>2 DEF SendCancel, Return, TypeOK
<1>6. ASSUME NEW c \in Callers, StartExchange(c) PROVE TypeOK'
  BY <1>6 DEF StartExchange, Begin, TypeOK, CallShape, RequestShape, HeartbeatShape, Request,
       Inbound, ExchangeShape
<1>7. ASSUME NEW c \in Callers, StartUntagged(c) PROVE TypeOK'
  BY <1>7 DEF StartUntagged, Begin, TypeOK, CallShape, RequestShape, HeartbeatShape, Request,
       Inbound, ExchangeShape
<1>8. ASSUME NEW c \in Callers, StartSend(c) PROVE TypeOK'
  BY <1>8 DEF StartSend, Begin, TypeOK, CallShape, RequestShape, HeartbeatShape, Request, Inbound,
       ExchangeShape
<1>9. ASSUME NEW c \in Callers, StartClose(c) PROVE TypeOK'
  BY <1>9 DEF StartClose, Begin, TypeOK, CallShape, RequestShape, HeartbeatShape, Request, Inbound,
       ExchangeShape
<1>10. ASSUME NEW c \in Callers, SubmitClose(c) PROVE TypeOK'
  <2>1. requests' \in Seq(Request) /\ Len(requests') <= RequestQueue
    BY <1>10, CloseFacts
  <2>2. phase' \in [Tasks -> {"idle", "submit", "wait", "giveup"}]
    BY <1>10 DEF SubmitClose, TypeOK
  <2>3. orphans' \in SUBSET Ids
    BY <1>10 DEF SubmitClose, AbortHeartbeat, TypeOK, CallShape
  <2>4. /\ op' \in [Tasks -> {"none", "exchange", "send", "close"}]
        /\ key' \in [Tasks -> Keys \cup {None}]
        /\ slot' \in [Tasks -> Slots \cup {None}]
        /\ reply' \in [Tasks -> {"none", "answer", "misanswer", "done", "failed", "closed", "replaced"}]
    BY <1>10 DEF SubmitClose, AbortHeartbeat, TypeOK
  <2>5. hb' \in {"off", "sleep", "retry", "beating", "kill", "dead"} /\ closing' \in {"no",
         "asked", "returned"}
    BY <1>10 DEF SubmitClose, TypeOK
  <2> QED
    BY <1>10, <2>1, <2>2, <2>3, <2>4, <2>5 DEF SubmitClose, TypeOK
<1>11. ASSUME EnableHeartbeat PROVE TypeOK'
  BY <1>11 DEF EnableHeartbeat, AbortHeartbeat, TypeOK, CallShape, RequestShape, HeartbeatShape,
       Request, Inbound, ExchangeShape
<1>12. ASSUME Beat PROVE TypeOK'
  BY <1>12 DEF Beat, Begin, TypeOK, CallShape, RequestShape, HeartbeatShape, Request, Inbound,
       ExchangeShape
<1>13. ASSUME KillConnection PROVE TypeOK'
  <2>1. requests' \in Seq(Request) /\ Len(requests') <= RequestQueue
    BY <1>13, KillFacts
  <2> QED
    BY <1>13, <2>1 DEF KillConnection, TypeOK
<1>14. ASSUME TakeWrite PROVE TypeOK'
  <2>1. writing' \in Request /\ requests' \in Seq(Request) /\ Len(requests') <= RequestQueue
    BY <1>14, TailFacts DEF TakeWrite, TypeOK
  <2> QED
    BY <1>14, <2>1 DEF TakeWrite, TypeOK
<1>15. ASSUME WriteOk PROVE TypeOK'
  <2>1. outstanding' \in [Keys -> Ids \cup {None}]
    BY <1>15 DEF WriteOk, TypeOK, RequestShape, ExchangeShape
  <2>2. accepted' \in SUBSET Asked
    BY <1>15 DEF WriteOk, TypeOK, RequestShape, ExchangeShape, Asked
  <2>3. reply' \in [Tasks -> {"none", "answer", "misanswer", "done", "failed", "closed", "replaced"}]
    BY <1>15 DEF WriteOk, Resolve, TypeOK
  <2> QED
    BY <1>15, <2>1, <2>2, <2>3 DEF WriteOk, TypeOK
<1>16. ASSUME WriteFails PROVE TypeOK'
  BY <1>16 DEF WriteFails, Resolve, Waits, TypeOK, CallShape, RequestShape, HeartbeatShape,
       Request, Inbound, ExchangeShape
<1>17. ASSUME ServeCancel PROVE TypeOK'
  <2>1. requests' \in Seq(Request) /\ Len(requests') <= RequestQueue
    BY <1>17, TailFacts DEF ServeCancel, TypeOK
  <2> QED
    BY <1>17, <2>1 DEF ServeCancel, TypeOK, RequestShape
<1>18. ASSUME ServeShutdown PROVE TypeOK'
  BY <1>18 DEF ServeShutdown, Serving, Resolve, Waits, TypeOK, CallShape, RequestShape,
       HeartbeatShape, Request, Inbound, ExchangeShape
<1>19. ASSUME Dispatch PROVE TypeOK'
  <2>1. inbound' \in Seq(Inbound) /\ Len(inbound') <= InboundQueue
    BY <1>19, TailFacts DEF Dispatch, TypeOK
  <2>2. outstanding' \in [Keys -> Ids \cup {None}]
    BY <1>19 DEF Dispatch, TypeOK
  <2>3. reply' \in [Tasks -> {"none", "answer", "misanswer", "done", "failed", "closed", "replaced"}]
    <3>1. reply \in [Tasks -> {"none", "answer", "misanswer", "done", "failed", "closed", "replaced"}]
      BY DEF TypeOK
    <3>2. \A m, s : Answers(m, s) \in {"answer", "misanswer"}
      BY DEF Answers
    <3>3. \/ reply' = reply
          \/ Resolve(outstanding[Head(inbound).key], Answers(Head(inbound), outstanding[Head(inbound).key]))
      BY <1>19 DEF Dispatch
    <3> QED
      BY <3>1, <3>2, <3>3 DEF Resolve
  <2> QED
    BY <1>19, <2>1, <2>2, <2>3 DEF Dispatch, TypeOK
<1>20. ASSUME ServeError PROVE TypeOK'
  BY <1>20 DEF ServeError, Serving, TypeOK, CallShape, RequestShape, HeartbeatShape, Request,
       Inbound, ExchangeShape
<1>21. ASSUME ServeEof PROVE TypeOK'
  BY <1>21 DEF ServeEof, Serving, TypeOK, CallShape, RequestShape, HeartbeatShape, Request,
       Inbound, ExchangeShape
<1>22. ASSUME Finish PROVE TypeOK'
  BY <1>22 DEF Finish, Waits, TypeOK, CallShape, RequestShape, HeartbeatShape, Request, Inbound,
       ExchangeShape
<1>23. ASSUME DropActor PROVE TypeOK'
  BY <1>23 DEF DropActor, Waits, TypeOK, CallShape, RequestShape, HeartbeatShape, Request, Inbound,
       ExchangeShape
<1>24. ASSUME ReadAnswer PROVE TypeOK'
  <2>1. PICK a \in accepted : Forward([kind |-> "message", key |-> a.key, slot |-> a.slot])
    BY <1>24 DEF ReadAnswer
  <2>2. [kind |-> "message", key |-> a.key, slot |-> a.slot] \in Inbound
    BY <2>1 DEF Inbound, TypeOK, Asked
  <2>3. inbound' \in Seq(Inbound) /\ Len(inbound') <= InboundQueue /\ reader' \in {"reading", "ended"}
    BY <2>1, <2>2, ForwardType
  <2>4. accepted' \in SUBSET Asked
    BY <1>24 DEF ReadAnswer, TypeOK
  <2> QED
    BY <1>24, <2>3, <2>4 DEF ReadAnswer, TypeOK
<1>25. ASSUME ReadPush PROVE TypeOK'
  <2>1. [kind |-> "message", key |-> None, slot |-> None] \in Inbound
    BY DEF Inbound
  <2>2. inbound' \in Seq(Inbound) /\ Len(inbound') <= InboundQueue /\ reader' \in {"reading", "ended"}
    BY <1>25, <2>1, ForwardType DEF ReadPush
  <2> QED
    BY <1>25, <2>2 DEF ReadPush, TypeOK
<1>26. ASSUME ReadEof PROVE TypeOK'
  BY <1>26 DEF ReadEof, TypeOK, CallShape, RequestShape, HeartbeatShape, Request, Inbound, ExchangeShape
<1>27. ASSUME ReadError PROVE TypeOK'
  <2>1. [kind |-> "error", key |-> None, slot |-> None] \in Inbound
    BY DEF Inbound
  <2>2. inbound' \in Seq(Inbound) /\ Len(inbound') <= InboundQueue
    <3>1. CASE actor = "stopped"
      BY <1>27, <3>1 DEF ReadError, TypeOK
    <3>2. CASE actor # "stopped"
      <4>1. inbound' = Append(inbound, [kind |-> "error", key |-> None, slot |-> None]) /\ Len(inbound) < InboundQueue
        BY <1>27, <3>2 DEF ReadError
      <4> QED
        BY <4>1, <2>1, AppendFacts DEF TypeOK
    <3> QED BY <3>1, <3>2
  <2> QED
    BY <1>27, <2>2 DEF ReadError, TypeOK
<1>28. ASSUME DeviceIgnore PROVE TypeOK'
  BY <1>28 DEF DeviceIgnore, TypeOK, CallShape, RequestShape, HeartbeatShape, Request, Inbound,
       ExchangeShape
<1>29. ASSUME DeviceFails PROVE TypeOK'
  BY <1>29 DEF DeviceFails, TypeOK, CallShape, RequestShape, HeartbeatShape, Request, Inbound,
       ExchangeShape
<1> QED
  BY <1>0, <1>1, <1>2, <1>3, <1>4, <1>5, <1>6, <1>7, <1>8, <1>9, <1>10, <1>11, <1>12, <1>13, <1>14,
       <1>15, <1>16, <1>17, <1>18, <1>19, <1>20, <1>21, <1>22, <1>23, <1>24, <1>25, <1>26, <1>27,
              <1>28, <1>29 DEF Next, CallStep, CallerStart, HeartbeatStep, ActorStep, ReaderStep,
                     DeviceStep

\* Every step keeps the shape of the calls.
LEMMA CallShapeStep ==
  ASSUME TypeOK, CallShape, RequestShape, ActorShape, HeartbeatShape, [Next]_vars
  PROVE  CallShape'
<1> USE TaskAssumption, KeyAssumption, BoundAssumption, StallAssumption
    DEF Tasks, Keys, Slots, callVars, actorVars, hbVars, deviceVars
<1>0. CASE UNCHANGED vars
  BY <1>0 DEF vars, CallShape, TypeOK
<1>1. ASSUME NEW t \in Tasks, Submit(t) PROVE CallShape'
  BY <1>1 DEF Submit, CallShape, TypeOK
<1>2. ASSUME NEW t \in Tasks, SubmitFails(t) PROVE CallShape'
  BY <1>2 DEF SubmitFails, Return, BeatReturns, CallShape, TypeOK
<1>3. ASSUME NEW t \in Tasks, Receive(t) PROVE CallShape'
  BY <1>3 DEF Receive, Return, BeatReturns, CallShape, TypeOK
<1>4. ASSUME NEW t \in Tasks, Timeout(t) PROVE CallShape'
  BY <1>4 DEF Timeout, CallShape, TypeOK
<1>5. ASSUME NEW t \in Tasks, SendCancel(t) PROVE CallShape'
  BY <1>5 DEF SendCancel, Return, BeatReturns, CallShape, TypeOK
<1>6. ASSUME NEW c \in Callers, StartExchange(c) PROVE CallShape'
  BY <1>6 DEF StartExchange, Begin, CallShape, TypeOK
<1>7. ASSUME NEW c \in Callers, StartUntagged(c) PROVE CallShape'
  BY <1>7 DEF StartUntagged, Begin, CallShape, TypeOK
<1>8. ASSUME NEW c \in Callers, StartSend(c) PROVE CallShape'
  BY <1>8 DEF StartSend, Begin, CallShape, TypeOK
<1>9. ASSUME NEW c \in Callers, StartClose(c) PROVE CallShape'
  BY <1>9 DEF StartClose, Begin, CallShape, TypeOK
<1>10. ASSUME NEW c \in Callers, SubmitClose(c) PROVE CallShape'
  BY <1>10 DEF SubmitClose, AbortHeartbeat, CallShape, TypeOK
<1>11. ASSUME EnableHeartbeat PROVE CallShape'
  BY <1>11 DEF EnableHeartbeat, AbortHeartbeat, CallShape, TypeOK
<1>12. ASSUME Beat PROVE CallShape'
  BY <1>12 DEF Beat, Begin, CallShape, TypeOK
<1>13. ASSUME KillConnection PROVE CallShape'
  BY <1>13 DEF KillConnection, CallShape, TypeOK
<1>14. ASSUME TakeWrite PROVE CallShape'
  BY <1>14 DEF TakeWrite, Serving, CallShape, TypeOK
<1>15. ASSUME WriteOk PROVE CallShape'
  BY <1>15 DEF WriteOk, Resolve, Waits, CallShape, TypeOK
<1>16. ASSUME WriteFails PROVE CallShape'
  BY <1>16 DEF WriteFails, Resolve, Waits, CallShape, TypeOK
<1>17. ASSUME ServeCancel PROVE CallShape'
  BY <1>17 DEF ServeCancel, Serving, CallShape, TypeOK
<1>18. ASSUME ServeShutdown PROVE CallShape'
  BY <1>18 DEF ServeShutdown, Serving, Resolve, Waits, CallShape, TypeOK
<1>19. ASSUME Dispatch PROVE CallShape'
  BY <1>19 DEF Dispatch, Serving, Resolve, Waits, CallShape, TypeOK
<1>20. ASSUME ServeError PROVE CallShape'
  BY <1>20 DEF ServeError, Serving, CallShape, TypeOK
<1>21. ASSUME ServeEof PROVE CallShape'
  BY <1>21 DEF ServeEof, Serving, CallShape, TypeOK
<1>22. ASSUME Finish PROVE CallShape'
  BY <1>22 DEF Finish, Waits, CallShape, TypeOK
<1>23. ASSUME DropActor PROVE CallShape'
  BY <1>23 DEF DropActor, Waits, CallShape, TypeOK
<1>24. ASSUME ReadAnswer PROVE CallShape'
  BY <1>24 DEF ReadAnswer, Forward, CallShape, TypeOK
<1>25. ASSUME ReadPush PROVE CallShape'
  BY <1>25 DEF ReadPush, Forward, CallShape, TypeOK
<1>26. ASSUME ReadEof PROVE CallShape'
  BY <1>26 DEF ReadEof, CallShape, TypeOK
<1>27. ASSUME ReadError PROVE CallShape'
  BY <1>27 DEF ReadError, CallShape, TypeOK
<1>28. ASSUME DeviceIgnore PROVE CallShape'
  BY <1>28 DEF DeviceIgnore, CallShape, TypeOK
<1>29. ASSUME DeviceFails PROVE CallShape'
  BY <1>29 DEF DeviceFails, CallShape, TypeOK
<1> QED
  BY <1>0, <1>1, <1>2, <1>3, <1>4, <1>5, <1>6, <1>7, <1>8, <1>9, <1>10, <1>11, <1>12, <1>13, <1>14,
       <1>15, <1>16, <1>17, <1>18, <1>19, <1>20, <1>21, <1>22, <1>23, <1>24, <1>25, <1>26, <1>27,
              <1>28, <1>29 DEF Next, CallStep, CallerStart, HeartbeatStep, ActorStep, ReaderStep,
                     DeviceStep

\* Every step keeps the shape of the requests, wherever they are.
LEMMA RequestShapeStep ==
  ASSUME TypeOK, CallShape, RequestShape, ActorShape, HeartbeatShape, [Next]_vars
  PROVE  RequestShape'
<1> USE TaskAssumption, KeyAssumption, BoundAssumption, StallAssumption
    DEF Tasks, Keys, Slots, callVars, actorVars, hbVars, deviceVars
<1>0. CASE UNCHANGED vars
  BY <1>0 DEF vars, RequestShape, ExchangeShape, TypeOK, CallShape
<1>1. ASSUME NEW t \in Tasks, Submit(t) PROVE RequestShape'
  <2>1. UNCHANGED <<writing, outstanding>>
    BY <1>1 DEF Submit
  <2>2. /\ op[t] \in {"exchange", "send"}
        /\ op[t] = "exchange" => key[t] \in Keys /\ slot[t] \in Ids /\ (key[t] \in Ids => slot[t] = key[t])
        /\ op[t] = "send" => slot[t] \notin Ids
    BY ZenonT(60), <1>1, SubmitFacts DEF CallShape
  <2>3. ASSUME NEW i \in 1 .. Len(requests')
        PROVE  /\ requests'[i].op = "exchange" => ExchangeShape(requests'[i])
               /\ requests'[i].op = "cancel" => requests'[i].key \in Keys /\ requests'[i].slot = None
               /\ requests'[i].op \in {"send", "shutdown"} => requests'[i].slot \notin Ids
    <3>1. CASE i \in 1 .. Len(requests) /\ requests'[i] = requests[i]
      BY <3>1 DEF RequestShape
    <3>2. CASE requests'[i].op = op[t] /\ requests'[i].key = key[t] /\ requests'[i].slot = slot[t]
      BY <2>2, <3>2 DEF ExchangeShape
    <3> QED
      BY <1>1, <3>1, <3>2, SubmitQueue
  <2> QED
    BY <2>1, <2>3 DEF RequestShape, ExchangeShape
<1>2. ASSUME NEW t \in Tasks, SubmitFails(t) PROVE RequestShape'
  BY <1>2 DEF SubmitFails, Return, BeatReturns, RequestShape, ExchangeShape, TypeOK, CallShape
<1>3. ASSUME NEW t \in Tasks, Receive(t) PROVE RequestShape'
  BY <1>3 DEF Receive, Return, BeatReturns, RequestShape, ExchangeShape, TypeOK, CallShape
<1>4. ASSUME NEW t \in Tasks, Timeout(t) PROVE RequestShape'
  BY <1>4 DEF Timeout, RequestShape, ExchangeShape, TypeOK, CallShape
<1>5. ASSUME NEW t \in Tasks, SendCancel(t) PROVE RequestShape'
  <2>1. UNCHANGED <<writing, outstanding>>
    BY <1>5 DEF SendCancel
  <2>2. key[t] \in Keys
    BY <1>5, CancelFacts
  <2>3. ASSUME NEW i \in 1 .. Len(requests')
        PROVE  /\ requests'[i].op = "exchange" => ExchangeShape(requests'[i])
               /\ requests'[i].op = "cancel" => requests'[i].key \in Keys /\ requests'[i].slot = None
               /\ requests'[i].op \in {"send", "shutdown"} => requests'[i].slot \notin Ids
    BY <1>5, <2>2, CancelQueue DEF RequestShape
  <2> QED
    BY <2>1, <2>3 DEF RequestShape, ExchangeShape
<1>6. ASSUME NEW c \in Callers, StartExchange(c) PROVE RequestShape'
  BY <1>6 DEF StartExchange, Begin, RequestShape, ExchangeShape, TypeOK, CallShape
<1>7. ASSUME NEW c \in Callers, StartUntagged(c) PROVE RequestShape'
  BY <1>7 DEF StartUntagged, Begin, RequestShape, ExchangeShape, TypeOK, CallShape
<1>8. ASSUME NEW c \in Callers, StartSend(c) PROVE RequestShape'
  BY <1>8 DEF StartSend, Begin, RequestShape, ExchangeShape, TypeOK, CallShape
<1>9. ASSUME NEW c \in Callers, StartClose(c) PROVE RequestShape'
  BY <1>9 DEF StartClose, Begin, RequestShape, ExchangeShape, TypeOK, CallShape
<1>10. ASSUME NEW c \in Callers, SubmitClose(c) PROVE RequestShape'
  <2>1. UNCHANGED <<writing, outstanding>>
    BY <1>10 DEF SubmitClose
  <2>2. ASSUME NEW i \in 1 .. Len(requests')
        PROVE  /\ requests'[i].op = "exchange" => ExchangeShape(requests'[i])
               /\ requests'[i].op = "cancel" => requests'[i].key \in Keys /\ requests'[i].slot = None
               /\ requests'[i].op \in {"send", "shutdown"} => requests'[i].slot \notin Ids
    BY <1>10, CloseQueue DEF RequestShape, ExchangeShape, CallShape
  <2> QED
    BY <2>1, <2>2 DEF RequestShape, ExchangeShape
<1>11. ASSUME EnableHeartbeat PROVE RequestShape'
  BY <1>11 DEF EnableHeartbeat, AbortHeartbeat, RequestShape, ExchangeShape, TypeOK, CallShape
<1>12. ASSUME Beat PROVE RequestShape'
  BY <1>12 DEF Beat, Begin, RequestShape, ExchangeShape, TypeOK, CallShape
<1>13. ASSUME KillConnection PROVE RequestShape'
  <2>1. UNCHANGED <<writing, outstanding>>
    BY <1>13 DEF KillConnection
  <2>2. ASSUME NEW i \in 1 .. Len(requests')
        PROVE  /\ requests'[i].op = "exchange" => ExchangeShape(requests'[i])
               /\ requests'[i].op = "cancel" => requests'[i].key \in Keys /\ requests'[i].slot = None
               /\ requests'[i].op \in {"send", "shutdown"} => requests'[i].slot \notin Ids
    BY <1>13, KillQueue DEF RequestShape, ExchangeShape, CallShape
  <2> QED
    BY <2>1, <2>2 DEF RequestShape, ExchangeShape
<1>14. ASSUME TakeWrite PROVE RequestShape'
  BY <1>14 DEF TakeWrite, Serving, RequestShape, ExchangeShape, TypeOK, CallShape
<1>15. ASSUME WriteOk PROVE RequestShape'
  BY <1>15 DEF WriteOk, Resolve, Waits, RequestShape, ExchangeShape, TypeOK, CallShape
<1>16. ASSUME WriteFails PROVE RequestShape'
  BY <1>16 DEF WriteFails, Resolve, Waits, RequestShape, ExchangeShape, TypeOK, CallShape
<1>17. ASSUME ServeCancel PROVE RequestShape'
  BY <1>17 DEF ServeCancel, Serving, RequestShape, ExchangeShape, TypeOK, CallShape
<1>18. ASSUME ServeShutdown PROVE RequestShape'
  BY <1>18 DEF ServeShutdown, Serving, Resolve, Waits, RequestShape, ExchangeShape, TypeOK, CallShape
<1>19. ASSUME Dispatch PROVE RequestShape'
  BY <1>19 DEF Dispatch, Serving, Resolve, Waits, RequestShape, ExchangeShape, TypeOK, CallShape
<1>20. ASSUME ServeError PROVE RequestShape'
  BY <1>20 DEF ServeError, Serving, RequestShape, ExchangeShape, TypeOK, CallShape
<1>21. ASSUME ServeEof PROVE RequestShape'
  BY <1>21 DEF ServeEof, Serving, RequestShape, ExchangeShape, TypeOK, CallShape
<1>22. ASSUME Finish PROVE RequestShape'
  BY <1>22 DEF Finish, Waits, RequestShape, ExchangeShape, TypeOK, CallShape
<1>23. ASSUME DropActor PROVE RequestShape'
  BY <1>23 DEF DropActor, Waits, RequestShape, ExchangeShape, TypeOK, CallShape
<1>24. ASSUME ReadAnswer PROVE RequestShape'
  BY <1>24 DEF ReadAnswer, Forward, RequestShape, ExchangeShape, TypeOK, CallShape
<1>25. ASSUME ReadPush PROVE RequestShape'
  BY <1>25 DEF ReadPush, Forward, RequestShape, ExchangeShape, TypeOK, CallShape
<1>26. ASSUME ReadEof PROVE RequestShape'
  BY <1>26 DEF ReadEof, RequestShape, ExchangeShape, TypeOK, CallShape
<1>27. ASSUME ReadError PROVE RequestShape'
  BY <1>27 DEF ReadError, RequestShape, ExchangeShape, TypeOK, CallShape
<1>28. ASSUME DeviceIgnore PROVE RequestShape'
  BY <1>28 DEF DeviceIgnore, RequestShape, ExchangeShape, TypeOK, CallShape
<1>29. ASSUME DeviceFails PROVE RequestShape'
  BY <1>29 DEF DeviceFails, RequestShape, ExchangeShape, TypeOK, CallShape
<1> QED
  BY <1>0, <1>1, <1>2, <1>3, <1>4, <1>5, <1>6, <1>7, <1>8, <1>9, <1>10, <1>11, <1>12, <1>13, <1>14,
       <1>15, <1>16, <1>17, <1>18, <1>19, <1>20, <1>21, <1>22, <1>23, <1>24, <1>25, <1>26, <1>27,
              <1>28, <1>29 DEF Next, CallStep, CallerStart, HeartbeatStep, ActorStep, ReaderStep,
                     DeviceStep

\* An actor that has left serve does not come back.
LEMMA ActorShapeStep ==
  ASSUME TypeOK, CallShape, RequestShape, ActorShape, HeartbeatShape, [Next]_vars
  PROVE  ActorShape'
<1> USE TaskAssumption, KeyAssumption, BoundAssumption, StallAssumption
    DEF Tasks, Keys, Slots, callVars, actorVars, hbVars, deviceVars
<1>0. CASE UNCHANGED vars
  BY <1>0 DEF vars, ActorShape, TypeOK, RequestShape, ExchangeShape
<1>1. ASSUME NEW t \in Tasks, Submit(t) PROVE ActorShape'
  BY <1>1 DEF Submit, ActorShape, TypeOK, RequestShape, ExchangeShape, Enqueues, EnqueuesUnlessStopped
<1>2. ASSUME NEW t \in Tasks, SubmitFails(t) PROVE ActorShape'
  BY <1>2 DEF SubmitFails, Return, BeatReturns, ActorShape, TypeOK, RequestShape, ExchangeShape
<1>3. ASSUME NEW t \in Tasks, Receive(t) PROVE ActorShape'
  BY <1>3 DEF Receive, Return, BeatReturns, ActorShape, TypeOK, RequestShape, ExchangeShape
<1>4. ASSUME NEW t \in Tasks, Timeout(t) PROVE ActorShape'
  BY <1>4 DEF Timeout, ActorShape, TypeOK, RequestShape, ExchangeShape
<1>5. ASSUME NEW t \in Tasks, SendCancel(t) PROVE ActorShape'
  BY <1>5 DEF SendCancel, Return, BeatReturns, ActorShape, TypeOK, RequestShape, ExchangeShape,
       Enqueues, EnqueuesUnlessStopped
<1>6. ASSUME NEW c \in Callers, StartExchange(c) PROVE ActorShape'
  BY <1>6 DEF StartExchange, Begin, ActorShape, TypeOK, RequestShape, ExchangeShape
<1>7. ASSUME NEW c \in Callers, StartUntagged(c) PROVE ActorShape'
  BY <1>7 DEF StartUntagged, Begin, ActorShape, TypeOK, RequestShape, ExchangeShape
<1>8. ASSUME NEW c \in Callers, StartSend(c) PROVE ActorShape'
  BY <1>8 DEF StartSend, Begin, ActorShape, TypeOK, RequestShape, ExchangeShape
<1>9. ASSUME NEW c \in Callers, StartClose(c) PROVE ActorShape'
  BY <1>9 DEF StartClose, Begin, ActorShape, TypeOK, RequestShape, ExchangeShape
<1>10. ASSUME NEW c \in Callers, SubmitClose(c) PROVE ActorShape'
  BY <1>10 DEF SubmitClose, AbortHeartbeat, ActorShape, TypeOK, RequestShape, ExchangeShape,
       Enqueues, EnqueuesUnlessStopped
<1>11. ASSUME EnableHeartbeat PROVE ActorShape'
  BY <1>11 DEF EnableHeartbeat, AbortHeartbeat, ActorShape, TypeOK, RequestShape, ExchangeShape
<1>12. ASSUME Beat PROVE ActorShape'
  BY <1>12 DEF Beat, Begin, ActorShape, TypeOK, RequestShape, ExchangeShape
<1>13. ASSUME KillConnection PROVE ActorShape'
  BY <1>13 DEF KillConnection, ActorShape, TypeOK, RequestShape, ExchangeShape, Enqueues,
       EnqueuesUnlessStopped
<1>14. ASSUME TakeWrite PROVE ActorShape'
  BY <1>14 DEF TakeWrite, Serving, ActorShape, TypeOK, RequestShape, ExchangeShape, Enqueues,
       EnqueuesUnlessStopped
<1>15. ASSUME WriteOk PROVE ActorShape'
  BY <1>15 DEF WriteOk, Resolve, Waits, ActorShape, TypeOK, RequestShape, ExchangeShape
<1>16. ASSUME WriteFails PROVE ActorShape'
  BY <1>16 DEF WriteFails, Resolve, Waits, ActorShape, TypeOK, RequestShape, ExchangeShape
<1>17. ASSUME ServeCancel PROVE ActorShape'
  BY <1>17 DEF ServeCancel, Serving, ActorShape, TypeOK, RequestShape, ExchangeShape, Enqueues,
       EnqueuesUnlessStopped
<1>18. ASSUME ServeShutdown PROVE ActorShape'
  BY <1>18 DEF ServeShutdown, Serving, Resolve, Waits, ActorShape, TypeOK, RequestShape,
       ExchangeShape, Enqueues, EnqueuesUnlessStopped
<1>19. ASSUME Dispatch PROVE ActorShape'
  BY <1>19 DEF Dispatch, Serving, Resolve, Waits, ActorShape, TypeOK, RequestShape, ExchangeShape
<1>20. ASSUME ServeError PROVE ActorShape'
  BY <1>20 DEF ServeError, Serving, ActorShape, TypeOK, RequestShape, ExchangeShape
<1>21. ASSUME ServeEof PROVE ActorShape'
  BY <1>21 DEF ServeEof, Serving, ActorShape, TypeOK, RequestShape, ExchangeShape
<1>22. ASSUME Finish PROVE ActorShape'
  BY <1>22 DEF Finish, Waits, ActorShape, TypeOK, RequestShape, ExchangeShape
<1>23. ASSUME DropActor PROVE ActorShape'
  BY <1>23 DEF DropActor, Waits, ActorShape, TypeOK, RequestShape, ExchangeShape
<1>24. ASSUME ReadAnswer PROVE ActorShape'
  BY <1>24 DEF ReadAnswer, Forward, ActorShape, TypeOK, RequestShape, ExchangeShape
<1>25. ASSUME ReadPush PROVE ActorShape'
  BY <1>25 DEF ReadPush, Forward, ActorShape, TypeOK, RequestShape, ExchangeShape
<1>26. ASSUME ReadEof PROVE ActorShape'
  BY <1>26 DEF ReadEof, ActorShape, TypeOK, RequestShape, ExchangeShape
<1>27. ASSUME ReadError PROVE ActorShape'
  BY <1>27 DEF ReadError, ActorShape, TypeOK, RequestShape, ExchangeShape
<1>28. ASSUME DeviceIgnore PROVE ActorShape'
  BY <1>28 DEF DeviceIgnore, ActorShape, TypeOK, RequestShape, ExchangeShape
<1>29. ASSUME DeviceFails PROVE ActorShape'
  BY <1>29 DEF DeviceFails, ActorShape, TypeOK, RequestShape, ExchangeShape
<1> QED
  BY <1>0, <1>1, <1>2, <1>3, <1>4, <1>5, <1>6, <1>7, <1>8, <1>9, <1>10, <1>11, <1>12, <1>13, <1>14,
       <1>15, <1>16, <1>17, <1>18, <1>19, <1>20, <1>21, <1>22, <1>23, <1>24, <1>25, <1>26, <1>27,
              <1>28, <1>29 DEF Next, CallStep, CallerStart, HeartbeatStep, ActorStep, ReaderStep,
                     DeviceStep

\* The heartbeat is inside an exchange only while it beats.
LEMMA HeartbeatShapeStep ==
  ASSUME TypeOK, CallShape, RequestShape, ActorShape, HeartbeatShape, [Next]_vars
  PROVE  HeartbeatShape'
<1> USE TaskAssumption, KeyAssumption, BoundAssumption, StallAssumption
    DEF Tasks, Keys, Slots, callVars, actorVars, hbVars, deviceVars
<1>0. CASE UNCHANGED vars
  BY <1>0 DEF vars, HeartbeatShape, TypeOK, CallShape
<1>1. ASSUME NEW t \in Tasks, Submit(t) PROVE HeartbeatShape'
  BY <1>1 DEF Submit, HeartbeatShape, TypeOK, CallShape
<1>2. ASSUME NEW t \in Tasks, SubmitFails(t) PROVE HeartbeatShape'
  BY <1>2 DEF SubmitFails, Return, BeatReturns, HeartbeatShape, TypeOK, CallShape
<1>3. ASSUME NEW t \in Tasks, Receive(t) PROVE HeartbeatShape'
  BY <1>3 DEF Receive, Return, BeatReturns, HeartbeatShape, TypeOK, CallShape
<1>4. ASSUME NEW t \in Tasks, Timeout(t) PROVE HeartbeatShape'
  BY <1>4 DEF Timeout, HeartbeatShape, TypeOK, CallShape
<1>5. ASSUME NEW t \in Tasks, SendCancel(t) PROVE HeartbeatShape'
  BY <1>5 DEF SendCancel, Return, BeatReturns, HeartbeatShape, TypeOK, CallShape
<1>6. ASSUME NEW c \in Callers, StartExchange(c) PROVE HeartbeatShape'
  BY <1>6 DEF StartExchange, Begin, HeartbeatShape, TypeOK, CallShape
<1>7. ASSUME NEW c \in Callers, StartUntagged(c) PROVE HeartbeatShape'
  BY <1>7 DEF StartUntagged, Begin, HeartbeatShape, TypeOK, CallShape
<1>8. ASSUME NEW c \in Callers, StartSend(c) PROVE HeartbeatShape'
  BY <1>8 DEF StartSend, Begin, HeartbeatShape, TypeOK, CallShape
<1>9. ASSUME NEW c \in Callers, StartClose(c) PROVE HeartbeatShape'
  BY <1>9 DEF StartClose, Begin, HeartbeatShape, TypeOK, CallShape
<1>10. ASSUME NEW c \in Callers, SubmitClose(c) PROVE HeartbeatShape'
  BY <1>10 DEF SubmitClose, AbortHeartbeat, HeartbeatShape, TypeOK, CallShape
<1>11. ASSUME EnableHeartbeat PROVE HeartbeatShape'
  BY <1>11 DEF EnableHeartbeat, AbortHeartbeat, HeartbeatShape, TypeOK, CallShape
<1>12. ASSUME Beat PROVE HeartbeatShape'
  BY <1>12 DEF Beat, Begin, HeartbeatShape, TypeOK, CallShape
<1>13. ASSUME KillConnection PROVE HeartbeatShape'
  BY <1>13 DEF KillConnection, HeartbeatShape, TypeOK, CallShape
<1>14. ASSUME TakeWrite PROVE HeartbeatShape'
  BY <1>14 DEF TakeWrite, Serving, HeartbeatShape, TypeOK, CallShape
<1>15. ASSUME WriteOk PROVE HeartbeatShape'
  BY <1>15 DEF WriteOk, Resolve, Waits, HeartbeatShape, TypeOK, CallShape
<1>16. ASSUME WriteFails PROVE HeartbeatShape'
  BY <1>16 DEF WriteFails, Resolve, Waits, HeartbeatShape, TypeOK, CallShape
<1>17. ASSUME ServeCancel PROVE HeartbeatShape'
  BY <1>17 DEF ServeCancel, Serving, HeartbeatShape, TypeOK, CallShape
<1>18. ASSUME ServeShutdown PROVE HeartbeatShape'
  BY <1>18 DEF ServeShutdown, Serving, Resolve, Waits, HeartbeatShape, TypeOK, CallShape
<1>19. ASSUME Dispatch PROVE HeartbeatShape'
  BY <1>19 DEF Dispatch, Serving, Resolve, Waits, HeartbeatShape, TypeOK, CallShape
<1>20. ASSUME ServeError PROVE HeartbeatShape'
  BY <1>20 DEF ServeError, Serving, HeartbeatShape, TypeOK, CallShape
<1>21. ASSUME ServeEof PROVE HeartbeatShape'
  BY <1>21 DEF ServeEof, Serving, HeartbeatShape, TypeOK, CallShape
<1>22. ASSUME Finish PROVE HeartbeatShape'
  BY <1>22 DEF Finish, Waits, HeartbeatShape, TypeOK, CallShape
<1>23. ASSUME DropActor PROVE HeartbeatShape'
  BY <1>23 DEF DropActor, Waits, HeartbeatShape, TypeOK, CallShape
<1>24. ASSUME ReadAnswer PROVE HeartbeatShape'
  BY <1>24 DEF ReadAnswer, Forward, HeartbeatShape, TypeOK, CallShape
<1>25. ASSUME ReadPush PROVE HeartbeatShape'
  BY <1>25 DEF ReadPush, Forward, HeartbeatShape, TypeOK, CallShape
<1>26. ASSUME ReadEof PROVE HeartbeatShape'
  BY <1>26 DEF ReadEof, HeartbeatShape, TypeOK, CallShape
<1>27. ASSUME ReadError PROVE HeartbeatShape'
  BY <1>27 DEF ReadError, HeartbeatShape, TypeOK, CallShape
<1>28. ASSUME DeviceIgnore PROVE HeartbeatShape'
  BY <1>28 DEF DeviceIgnore, HeartbeatShape, TypeOK, CallShape
<1>29. ASSUME DeviceFails PROVE HeartbeatShape'
  BY <1>29 DEF DeviceFails, HeartbeatShape, TypeOK, CallShape
<1> QED
  BY <1>0, <1>1, <1>2, <1>3, <1>4, <1>5, <1>6, <1>7, <1>8, <1>9, <1>10, <1>11, <1>12, <1>13, <1>14,
       <1>15, <1>16, <1>17, <1>18, <1>19, <1>20, <1>21, <1>22, <1>23, <1>24, <1>25, <1>26, <1>27,
              <1>28, <1>29 DEF Next, CallStep, CallerStart, HeartbeatStep, ActorStep, ReaderStep,
                     DeviceStep

\* Shape is inductive.
LEMMA ShapeStep ==
  ASSUME Shape, [Next]_vars
  PROVE  Shape'
  BY TypeStep, CallShapeStep, RequestShapeStep, ActorShapeStep, HeartbeatShapeStep DEF Shape

\* The state in which connect() leaves a fresh connection has the shape.
LEMMA ShapeInit ==
  ASSUME Init
  PROVE  Shape
<1> USE TaskAssumption, KeyAssumption, BoundAssumption, StallAssumption DEF Init, Tasks, Keys, Slots
<1>1. TypeOK
  <2>1. requests \in Seq(Request) /\ Len(requests) <= RequestQueue
    OBVIOUS
  <2>2. inbound \in Seq(Inbound) /\ Len(inbound) <= InboundQueue /\ heard \in Seq({"connection_lost", "connection_closed"})
    OBVIOUS
  <2>3. accepted \in SUBSET Asked /\ orphans \in SUBSET Ids /\ lapsed \in BOOLEAN
    OBVIOUS
  <2> QED
    BY <2>1, <2>2, <2>3 DEF TypeOK
<1>2. CallShape
  BY DEF CallShape
<1>3. RequestShape /\ ActorShape /\ HeartbeatShape
  BY DEF RequestShape, ActorShape, HeartbeatShape
<1> QED
  BY <1>1, <1>2, <1>3 DEF Shape

\* Type correctness, with the shape of calls, requests, actor and heartbeat: in particular an actor
\* that left serve has failed everything it held before it drops its channels (actor.rs, run).
THEOREM ShapeCorrect == Spec => []Shape
<1>1. Init => Shape
  BY ShapeInit
<1>2. Shape /\ [Next]_vars => Shape'
  BY ShapeStep
<1> QED
  BY <1>1, <1>2, PTL DEF Spec

\* Every variable keeps its type; the channels never exceed REQUEST_QUEUE and INBOUND_QUEUE.
THEOREM TypeCorrect == Spec => []TypeOK
<1>1. Shape => TypeOK
  BY DEF Shape
<1> QED
  BY <1>1, ShapeCorrect, PTL

=============================================================================

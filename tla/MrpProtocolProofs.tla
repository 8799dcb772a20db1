--------------------------- MODULE MrpProtocolProofs ---------------------------
(***************************************************************************)
(* Proofs about MrpProtocol, second part: who holds the two ends of every  *)
(* oneshot, and what follows for the callers: no table entry is pinned, no *)
(* call is forgotten, no exchange evicts another; then that the listener   *)
(* is left alone after a close, and that every exchange is a call in the   *)
(* sense of RpcChannel.                                                    *)
(***************************************************************************)
EXTENDS MrpProtocolShape

\* Fresh identifiers keep receivers apart.
LEMMA OneReceiverStep ==
  ASSUME TypeOK, CallShape, RequestShape, ActorShape, HeartbeatShape, OneReceiver, OneSender,
         SendersAgree, CancelsAreLate, [Next]_vars
  PROVE  OneReceiver'
<1> USE TaskAssumption, KeyAssumption, BoundAssumption, StallAssumption
    DEF Tasks, Keys, Slots, callVars, actorVars, hbVars, deviceVars
<1>0. CASE UNCHANGED vars
  BY <1>0 DEF vars, OneReceiver, TypeOK, CallShape, InUse, RequestShape, ExchangeShape
<1>1. ASSUME NEW t \in Tasks, Submit(t) PROVE OneReceiver'
  BY <1>1 DEF Submit, OneReceiver, TypeOK, CallShape, InUse, RequestShape, ExchangeShape, HeartbeatShape
<1>2. ASSUME NEW t \in Tasks, SubmitFails(t) PROVE OneReceiver'
  BY <1>2 DEF SubmitFails, Return, BeatReturns, OneReceiver, TypeOK, CallShape, InUse,
       RequestShape, ExchangeShape
<1>3. ASSUME NEW t \in Tasks, Receive(t) PROVE OneReceiver'
  BY <1>3 DEF Receive, Return, BeatReturns, OneReceiver, TypeOK, CallShape, InUse, RequestShape,
       ExchangeShape
<1>4. ASSUME NEW t \in Tasks, Timeout(t) PROVE OneReceiver'
  BY <1>4 DEF Timeout, OneReceiver, TypeOK, CallShape, InUse, RequestShape, ExchangeShape
<1>5. ASSUME NEW t \in Tasks, SendCancel(t) PROVE OneReceiver'
  BY <1>5 DEF SendCancel, Return, BeatReturns, OneReceiver, TypeOK, CallShape, InUse, RequestShape,
       ExchangeShape, HeartbeatShape
<1>6. ASSUME NEW c \in Callers, StartExchange(c) PROVE OneReceiver'
  BY <1>6 DEF StartExchange, Begin, OneReceiver, TypeOK, CallShape, InUse, RequestShape, ExchangeShape
<1>7. ASSUME NEW c \in Callers, StartUntagged(c) PROVE OneReceiver'
  BY <1>7 DEF StartUntagged, Begin, OneReceiver, TypeOK, CallShape, InUse, RequestShape, ExchangeShape
<1>8. ASSUME NEW c \in Callers, StartSend(c) PROVE OneReceiver'
  BY <1>8 DEF StartSend, Begin, OneReceiver, TypeOK, CallShape, InUse, RequestShape, ExchangeShape
<1>9. ASSUME NEW c \in Callers, StartClose(c) PROVE OneReceiver'
  BY <1>9 DEF StartClose, Begin, OneReceiver, TypeOK, CallShape, InUse, RequestShape, ExchangeShape
<1>10. ASSUME NEW c \in Callers, SubmitClose(c) PROVE OneReceiver'
  BY <1>10 DEF SubmitClose, AbortHeartbeat, OneReceiver, TypeOK, CallShape, InUse, RequestShape,
       ExchangeShape, HeartbeatShape
<1>11. ASSUME EnableHeartbeat PROVE OneReceiver'
  BY <1>11 DEF EnableHeartbeat, AbortHeartbeat, OneReceiver, TypeOK, CallShape, InUse,
       RequestShape, ExchangeShape
<1>12. ASSUME Beat PROVE OneReceiver'
  BY <1>12 DEF Beat, Begin, OneReceiver, TypeOK, CallShape, InUse, RequestShape, ExchangeShape
<1>13. ASSUME KillConnection PROVE OneReceiver'
  BY <1>13 DEF KillConnection, OneReceiver, TypeOK, CallShape, InUse, RequestShape, ExchangeShape,
       HeartbeatShape
<1>14. ASSUME TakeWrite PROVE OneReceiver'
  BY <1>14 DEF TakeWrite, Serving, OneReceiver, TypeOK, CallShape, InUse, RequestShape,
       ExchangeShape, HeartbeatShape
<1>15. ASSUME WriteOk PROVE OneReceiver'
  BY <1>15 DEF WriteOk, Resolve, Waits, OneReceiver, TypeOK, CallShape, InUse, RequestShape,
       ExchangeShape
<1>16. ASSUME WriteFails PROVE OneReceiver'
  BY <1>16 DEF WriteFails, Resolve, Waits, OneReceiver, TypeOK, CallShape, InUse, RequestShape,
       ExchangeShape
<1>17. ASSUME ServeCancel PROVE OneReceiver'
  BY <1>17 DEF ServeCancel, Serving, OneReceiver, TypeOK, CallShape, InUse, RequestShape,
       ExchangeShape, HeartbeatShape
<1>18. ASSUME ServeShutdown PROVE OneReceiver'
  BY <1>18 DEF ServeShutdown, Serving, Resolve, Waits, OneReceiver, TypeOK, CallShape, InUse,
       RequestShape, ExchangeShape, HeartbeatShape
<1>19. ASSUME Dispatch PROVE OneReceiver'
  BY <1>19 DEF Dispatch, Serving, Resolve, Waits, OneReceiver, TypeOK, CallShape, InUse,
       RequestShape, ExchangeShape
<1>20. ASSUME ServeError PROVE OneReceiver'
  BY <1>20 DEF ServeError, Serving, OneReceiver, TypeOK, CallShape, InUse, RequestShape, ExchangeShape
<1>21. ASSUME ServeEof PROVE OneReceiver'
  BY <1>21 DEF ServeEof, Serving, OneReceiver, TypeOK, CallShape, InUse, RequestShape, ExchangeShape
<1>22. ASSUME Finish PROVE OneReceiver'
  BY <1>22 DEF Finish, Waits, OneReceiver, TypeOK, CallShape, InUse, RequestShape, ExchangeShape
<1>23. ASSUME DropActor PROVE OneReceiver'
  BY <1>23 DEF DropActor, Waits, OneReceiver, TypeOK, CallShape, InUse, RequestShape, ExchangeShape
<1>24. ASSUME ReadAnswer PROVE OneReceiver'
  BY <1>24 DEF ReadAnswer, Forward, OneReceiver, TypeOK, CallShape, InUse, RequestShape, ExchangeShape
<1>25. ASSUME ReadPush PROVE OneReceiver'
  BY <1>25 DEF ReadPush, Forward, OneReceiver, TypeOK, CallShape, InUse, RequestShape, ExchangeShape
<1>26. ASSUME ReadEof PROVE OneReceiver'
  BY <1>26 DEF ReadEof, OneReceiver, TypeOK, CallShape, InUse, RequestShape, ExchangeShape
<1>27. ASSUME ReadError PROVE OneReceiver'
  BY <1>27 DEF ReadError, OneReceiver, TypeOK, CallShape, InUse, RequestShape, ExchangeShape
<1>28. ASSUME DeviceIgnore PROVE OneReceiver'
  BY <1>28 DEF DeviceIgnore, OneReceiver, TypeOK, CallShape, InUse, RequestShape, ExchangeShape
<1>29. ASSUME DeviceFails PROVE OneReceiver'
  BY <1>29 DEF DeviceFails, OneReceiver, TypeOK, CallShape, InUse, RequestShape, ExchangeShape
<1> QED
  BY <1>0, <1>1, <1>2, <1>3, <1>4, <1>5, <1>6, <1>7, <1>8, <1>9, <1>10, <1>11, <1>12, <1>13, <1>14,
       <1>15, <1>16, <1>17, <1>18, <1>19, <1>20, <1>21, <1>22, <1>23, <1>24, <1>25, <1>26, <1>27,
              <1>28, <1>29 DEF Next, CallStep, CallerStart, HeartbeatStep, ActorStep, ReaderStep,
                     DeviceStep

\* A sender moves from the channel to the actor's hands to the table; it is never copied.  That the
\* request of a call about to be submitted is in none of them follows from SendersAccountedFor.
LEMMA OneSenderStep ==
  ASSUME TypeOK, CallShape, RequestShape, ActorShape, HeartbeatShape, OneReceiver, OneSender,
         SendersAgree, CancelsAreLate, SendersAccountedFor, [Next]_vars
  PROVE  OneSender'
<1> USE TaskAssumption, KeyAssumption, BoundAssumption, StallAssumption
    DEF Tasks, Keys, Slots, callVars, actorVars, hbVars, deviceVars
<1>0. CASE UNCHANGED vars
  BY <1>0 DEF vars, OneSender, TypeOK, CallShape, RequestShape, ExchangeShape
<1>1. ASSUME NEW t \in Tasks, Submit(t) PROVE OneSender'
  <2>1. /\ UNCHANGED <<writing, outstanding>> /\ phase[t] = "submit"
    BY <1>1 DEF Submit
  <2>2. CASE slot[t] \notin Ids
    <3>1. ASSUME NEW i \in 1 .. Len(requests'), requests'[i].slot \in Ids
          PROVE  i \in 1 .. Len(requests) /\ requests'[i] = requests[i]
      BY <1>1, <2>2, <3>1, SubmitQueue
    <3> QED
      BY <2>1, <3>1 DEF OneSender
  <2>3. CASE slot[t] \in Ids
    <3>1. \A u \in Tasks : slot[u] = slot[t] => u = t
      BY <2>3 DEF OneReceiver
    <3>2. \A k : ~Expected(k, slot[t])
      BY <2>1, <3>1 DEF Expected, OneReceiver
    <3>3. ASSUME NEW i \in 1 .. Len(requests) PROVE requests[i].slot # slot[t]
      <4>1. requests[i] \in Request
        BY DEF TypeOK
      <4>2. CASE requests[i].op = "exchange" /\ requests[i].slot = slot[t]
        <5>1. PICK j \in i + 1 .. Len(requests) : requests[j].op = "cancel" /\ requests[j].key = requests[i].key
          BY <3>2, <4>2 DEF SendersAccountedFor
        <5>2. j \in 1 .. Len(requests) /\ i \in 1 .. j - 1
          BY <5>1 DEF TypeOK
        <5>3. Abandoned(requests[i].slot)
          BY <4>2, <5>1, <5>2 DEF CancelsAreLate
        <5> QED
          BY <4>2, <5>3 DEF Abandoned
      <4> QED
        BY <2>3, <4>1, <4>2 DEF RequestShape, Request
    <3>4. writing # None => writing.slot # slot[t]
      BY <2>3, <3>2 DEF SendersAccountedFor, CancelQueued, CancelsAreLate, Abandoned, RequestShape
    <3>5. ASSUME NEW k \in Keys PROVE outstanding[k] # slot[t]
      BY <2>3, <3>2 DEF SendersAccountedFor, CancelQueued, CancelsAreLate, Abandoned
    <3>7. \A i \in 1 .. Len(requests') : \/ i \in 1 .. Len(requests) /\ requests'[i] = requests[i]
                                         \/ i = Len(requests) + 1 /\ requests'[i].slot = slot[t]
      BY <1>1, SubmitQueue
    <3> QED
      BY <2>1, <3>3, <3>4, <3>5, <3>7 DEF OneSender
  <2> QED
    BY <2>2, <2>3
<1>2. ASSUME NEW t \in Tasks, SubmitFails(t) PROVE OneSender'
  BY <1>2 DEF SubmitFails, Return, BeatReturns, OneSender, TypeOK, CallShape, RequestShape,
       ExchangeShape
<1>3. ASSUME NEW t \in Tasks, Receive(t) PROVE OneSender'
  BY <1>3 DEF Receive, Return, BeatReturns, OneSender, TypeOK, CallShape, RequestShape, ExchangeShape
<1>4. ASSUME NEW t \in Tasks, Timeout(t) PROVE OneSender'
  BY <1>4 DEF Timeout, OneSender, TypeOK, CallShape, RequestShape, ExchangeShape
<1>5. ASSUME NEW t \in Tasks, SendCancel(t) PROVE OneSender'
  <2>1. UNCHANGED <<writing, outstanding>>
    BY <1>5 DEF SendCancel
  <2>2. ASSUME NEW i \in 1 .. Len(requests'), requests'[i].slot \in Ids
        PROVE  i \in 1 .. Len(requests) /\ requests'[i] = requests[i]
    BY <1>5, <2>2, CancelQueue
  <2> QED
    BY <2>1, <2>2 DEF OneSender
<1>6. ASSUME NEW c \in Callers, StartExchange(c) PROVE OneSender'
  BY <1>6 DEF StartExchange, Begin, OneSender, TypeOK, CallShape, RequestShape, ExchangeShape
<1>7. ASSUME NEW c \in Callers, StartUntagged(c) PROVE OneSender'
  BY <1>7 DEF StartUntagged, Begin, OneSender, TypeOK, CallShape, RequestShape, ExchangeShape
<1>8. ASSUME NEW c \in Callers, StartSend(c) PROVE OneSender'
  BY <1>8 DEF StartSend, Begin, OneSender, TypeOK, CallShape, RequestShape, ExchangeShape
<1>9. ASSUME NEW c \in Callers, StartClose(c) PROVE OneSender'
  BY <1>9 DEF StartClose, Begin, OneSender, TypeOK, CallShape, RequestShape, ExchangeShape
<1>10. ASSUME NEW c \in Callers, SubmitClose(c) PROVE OneSender'
  <2>1. UNCHANGED <<writing, outstanding>>
    BY <1>10 DEF SubmitClose
  <2>2. ASSUME NEW i \in 1 .. Len(requests'), requests'[i].slot \in Ids
        PROVE  i \in 1 .. Len(requests) /\ requests'[i] = requests[i]
    BY <1>10, <2>2, CloseQueue
  <2> QED
    BY <2>1, <2>2 DEF OneSender
<1>11. ASSUME EnableHeartbeat PROVE OneSender'
  BY <1>11 DEF EnableHeartbeat, AbortHeartbeat, OneSender, TypeOK, CallShape, RequestShape,
       ExchangeShape
<1>12. ASSUME Beat PROVE OneSender'
  BY <1>12 DEF Beat, Begin, OneSender, TypeOK, CallShape, RequestShape, ExchangeShape
<1>13. ASSUME KillConnection PROVE OneSender'
  <2>1. UNCHANGED <<writing, outstanding>>
    BY <1>13 DEF KillConnection
  <2>2. ASSUME NEW i \in 1 .. Len(requests'), requests'[i].slot \in Ids
        PROVE  i \in 1 .. Len(requests) /\ requests'[i] = requests[i]
    BY <1>13, <2>2, KillQueue
  <2> QED
    BY <2>1, <2>2 DEF OneSender
<1>14. ASSUME TakeWrite PROVE OneSender'
  <2>1. /\ writing' = Head(requests) /\ requests # << >> /\ requests' = Tail(requests)
        /\ Head(requests).op \in {"exchange", "send"} /\ actor = "serving" /\ writing = None
        /\ UNCHANGED <<phase, op, key, slot, reply, outstanding, actor, orphans>>
    BY <1>14 DEF TakeWrite, Serving
  <2>2. /\ Len(requests) \in Nat \ {0} /\ Len(requests') = Len(requests) - 1
        /\ writing' = requests[1] /\ writing' \in Request
        /\ \A i \in 1 .. Len(requests') : requests'[i] = requests[i + 1]
    BY <2>1, DequeueFacts
  <2> QED
    BY <2>1, <2>2 DEF OneSender, TypeOK, CallShape, RequestShape, ExchangeShape
<1>15. ASSUME WriteOk PROVE OneSender'
  BY <1>15 DEF WriteOk, Resolve, Waits, OneSender, TypeOK, CallShape, RequestShape, ExchangeShape
<1>16. ASSUME WriteFails PROVE OneSender'
  BY <1>16 DEF WriteFails, Resolve, Waits, OneSender, TypeOK, CallShape, RequestShape, ExchangeShape
<1>17. ASSUME ServeCancel PROVE OneSender'
  <2>1. /\ requests # << >> /\ requests' = Tail(requests)
        /\ Head(requests).op = "cancel" /\ actor = "serving" /\ writing = None
        /\ outstanding' = [outstanding EXCEPT ![Head(requests).key] = None]
        /\ UNCHANGED <<phase, op, key, slot, reply, writing, actor, orphans>>
    BY <1>17 DEF ServeCancel, Serving
  <2>2. /\ Len(requests) \in Nat \ {0} /\ Len(requests') = Len(requests) - 1
        /\ Head(requests) = requests[1] /\ requests[1].key \in Keys
        /\ \A i \in 1 .. Len(requests') : requests'[i] = requests[i + 1]
    BY <2>1, DequeueFacts DEF RequestShape
  <2> QED
    BY <2>1, <2>2 DEF OneSender, TypeOK, CallShape, RequestShape, ExchangeShape
<1>18. ASSUME ServeShutdown PROVE OneSender'
  <2>1. /\ requests # << >> /\ requests' = Tail(requests)
        /\ Head(requests).op = "shutdown" /\ actor = "serving" /\ writing = None
        /\ Resolve(Head(requests).slot, "done") /\ actor' = "stopping"
        /\ UNCHANGED <<phase, op, key, slot, writing, outstanding, orphans>>
    BY <1>18 DEF ServeShutdown, Serving
  <2>2. /\ Len(requests) \in Nat \ {0} /\ Len(requests') = Len(requests) - 1
        /\ Head(requests) = requests[1] /\ requests[1].slot \notin Ids
        /\ \A i \in 1 .. Len(requests') : requests'[i] = requests[i + 1]
    BY <2>1, DequeueFacts DEF RequestShape
  <2> QED
    BY <2>1, <2>2 DEF OneSender, TypeOK, CallShape, RequestShape, ExchangeShape, Resolve, Waits
<1>19. ASSUME Dispatch PROVE OneSender'
  BY <1>19 DEF Dispatch, Serving, Resolve, Waits, OneSender, TypeOK, CallShape, RequestShape,
       ExchangeShape
<1>20. ASSUME ServeError PROVE OneSender'
  BY <1>20 DEF ServeError, Serving, OneSender, TypeOK, CallShape, RequestShape, ExchangeShape
<1>21. ASSUME ServeEof PROVE OneSender'
  BY <1>21 DEF ServeEof, Serving, OneSender, TypeOK, CallShape, RequestShape, ExchangeShape
<1>22. ASSUME Finish PROVE OneSender'
  BY <1>22 DEF Finish, Waits, OneSender, TypeOK, CallShape, RequestShape, ExchangeShape
<1>23. ASSUME DropActor PROVE OneSender'
  BY <1>23 DEF DropActor, Waits, OneSender, TypeOK, CallShape, RequestShape, ExchangeShape
<1>24. ASSUME ReadAnswer PROVE OneSender'
  BY <1>24 DEF ReadAnswer, Forward, OneSender, TypeOK, CallShape, RequestShape, ExchangeShape
<1>25. ASSUME ReadPush PROVE OneSender'
  BY <1>25 DEF ReadPush, Forward, OneSender, TypeOK, CallShape, RequestShape, ExchangeShape
<1>26. ASSUME ReadEof PROVE OneSender'
  BY <1>26 DEF ReadEof, OneSender, TypeOK, CallShape, RequestShape, ExchangeShape
<1>27. ASSUME ReadError PROVE OneSender'
  BY <1>27 DEF ReadError, OneSender, TypeOK, CallShape, RequestShape, ExchangeShape
<1>28. ASSUME DeviceIgnore PROVE OneSender'
  BY <1>28 DEF DeviceIgnore, OneSender, TypeOK, CallShape, RequestShape, ExchangeShape
<1>29. ASSUME DeviceFails PROVE OneSender'
  BY <1>29 DEF DeviceFails, OneSender, TypeOK, CallShape, RequestShape, ExchangeShape
<1> QED
  BY <1>0, <1>1, <1>2, <1>3, <1>4, <1>5, <1>6, <1>7, <1>8, <1>9, <1>10, <1>11, <1>12, <1>13, <1>14,
       <1>15, <1>16, <1>17, <1>18, <1>19, <1>20, <1>21, <1>22, <1>23, <1>24, <1>25, <1>26, <1>27,
              <1>28, <1>29 DEF Next, CallStep, CallerStart, HeartbeatStep, ActorStep, ReaderStep,
                     DeviceStep

\* A sender is filed under the key its call waits with.
LEMMA SendersAgreeStep ==
  ASSUME TypeOK, CallShape, RequestShape, ActorShape, HeartbeatShape, OneReceiver, OneSender,
         SendersAgree, CancelsAreLate, [Next]_vars
  PROVE  SendersAgree'
<1> USE TaskAssumption, KeyAssumption, BoundAssumption, StallAssumption
    DEF Tasks, Keys, Slots, callVars, actorVars, hbVars, deviceVars
<1>0. CASE UNCHANGED vars
  BY <1>0 DEF vars, SendersAgree, Agrees, TypeOK, CallShape, RequestShape, ExchangeShape,
       OneReceiver, InUse
<1>1. ASSUME NEW t \in Tasks, Submit(t) PROVE SendersAgree'
  <2>1. UNCHANGED <<writing, outstanding, slot, key, orphans>>
    BY <1>1 DEF Submit
  <2>2. op[t] = "exchange" => Agrees(key[t], slot[t])
    BY DEF OneReceiver, CallShape, Agrees
  <2>3. ASSUME NEW i \in 1 .. Len(requests'), requests'[i].op = "exchange"
        PROVE  \/ i \in 1 .. Len(requests) /\ requests'[i] = requests[i]
               \/ op[t] = "exchange" /\ requests'[i].key = key[t] /\ requests'[i].slot = slot[t]
    BY <1>1, <2>3, SubmitQueue
  <2> QED
    BY <2>1, <2>2, <2>3 DEF SendersAgree, Agrees
<1>2. ASSUME NEW t \in Tasks, SubmitFails(t) PROVE SendersAgree'
  BY <1>2 DEF SubmitFails, Return, BeatReturns, SendersAgree, Agrees, TypeOK, CallShape,
       RequestShape, ExchangeShape, OneReceiver, InUse
<1>3. ASSUME NEW t \in Tasks, Receive(t) PROVE SendersAgree'
  BY <1>3 DEF Receive, Return, BeatReturns, SendersAgree, Agrees, TypeOK, CallShape, RequestShape,
       ExchangeShape, OneReceiver, InUse
<1>4. ASSUME NEW t \in Tasks, Timeout(t) PROVE SendersAgree'
  BY <1>4 DEF Timeout, SendersAgree, Agrees, TypeOK, CallShape, RequestShape, ExchangeShape,
       OneReceiver, InUse
<1>5. ASSUME NEW t \in Tasks, SendCancel(t) PROVE SendersAgree'
  <2>1. /\ \A u \in Tasks : slot'[u] \in {slot[u], None} /\ (slot'[u] # None => key'[u] = key[u])
        /\ UNCHANGED <<writing, outstanding>>
    BY <1>5 DEF SendCancel, Return, TypeOK, CallShape
  <2>2. ASSUME NEW s \in orphans' PROVE s \in orphans \/ (slot[Heartbeat] = s /\ key[Heartbeat] \in Ids)
    BY <1>5, <2>2 DEF SendCancel, Return, TypeOK, CallShape, HeartbeatShape
  <2>3. ASSUME NEW k, NEW s \in Ids, Agrees(k, s)
        PROVE  /\ \A u \in Tasks : slot'[u] = s => key'[u] = k
               /\ s \in orphans' => k \in Ids
    <3>1. \A u \in Tasks : slot'[u] = s => key'[u] = k
      BY <2>1, <2>3 DEF Agrees
    <3>2. s \in orphans' => k \in Ids
      BY <2>2, <2>3 DEF Agrees
    <3> QED
      BY <3>1, <3>2
  <2>4. ASSUME NEW i \in 1 .. Len(requests'), requests'[i].op = "exchange"
        PROVE  i \in 1 .. Len(requests) /\ requests'[i] = requests[i]
    BY <1>5, <2>4, CancelQueue
  <2>5. ASSUME NEW i \in 1 .. Len(requests), requests[i].op = "exchange"
        PROVE  /\ \A u \in Tasks : slot'[u] = requests[i].slot => key'[u] = requests[i].key
               /\ requests[i].slot \in orphans' => requests[i].key \in Ids
    <3>1. Agrees(requests[i].key, requests[i].slot) /\ requests[i].slot \in Ids
      BY <2>5 DEF SendersAgree, RequestShape, ExchangeShape
    <3> QED
      BY <2>3, <3>1
  <2>6. writing # None /\ writing.op = "exchange" =>
          /\ \A u \in Tasks : slot'[u] = writing.slot => key'[u] = writing.key
          /\ writing.slot \in orphans' => writing.key \in Ids
    BY <2>3 DEF SendersAgree, RequestShape, ExchangeShape, Agrees
  <2>7. ASSUME NEW k \in Keys, outstanding[k] # None
        PROVE  /\ \A u \in Tasks : slot'[u] = outstanding[k] => key'[u] = k
               /\ outstanding[k] \in orphans' => k \in Ids
    BY <2>3, <2>7 DEF SendersAgree, TypeOK, Agrees
  <2> QED
    BY <2>1, <2>4, <2>5, <2>6, <2>7 DEF SendersAgree, Agrees
<1>6. ASSUME NEW c \in Callers, StartExchange(c) PROVE SendersAgree'
  BY <1>6 DEF StartExchange, Begin, SendersAgree, Agrees, TypeOK, CallShape, RequestShape,
       ExchangeShape, OneReceiver, InUse
<1>7. ASSUME NEW c \in Callers, StartUntagged(c) PROVE SendersAgree'
  BY <1>7 DEF StartUntagged, Begin, SendersAgree, Agrees, TypeOK, CallShape, RequestShape,
       ExchangeShape, OneReceiver, InUse
<1>8. ASSUME NEW c \in Callers, StartSend(c) PROVE SendersAgree'
  BY <1>8 DEF StartSend, Begin, SendersAgree, Agrees, TypeOK, CallShape, RequestShape,
       ExchangeShape, OneReceiver, InUse
<1>9. ASSUME NEW c \in Callers, StartClose(c) PROVE SendersAgree'
  BY <1>9 DEF StartClose, Begin, SendersAgree, Agrees, TypeOK, CallShape, RequestShape,
       ExchangeShape, OneReceiver, InUse
<1>10. ASSUME NEW c \in Callers, SubmitClose(c) PROVE SendersAgree'
  <2>1. /\ \A u \in Tasks : slot'[u] \in {slot[u], None} /\ (slot'[u] # None => key'[u] = key[u])
        /\ UNCHANGED <<writing, outstanding>>
    BY <1>10 DEF SubmitClose, AbortHeartbeat, TypeOK, CallShape
  <2>2. ASSUME NEW s \in orphans' PROVE s \in orphans \/ (slot[Heartbeat] = s /\ key[Heartbeat] \in Ids)
    BY <1>10, <2>2 DEF SubmitClose, AbortHeartbeat, TypeOK, CallShape, HeartbeatShape
  <2>3. ASSUME NEW k, NEW s \in Ids, Agrees(k, s)
        PROVE  /\ \A u \in Tasks : slot'[u] = s => key'[u] = k
               /\ s \in orphans' => k \in Ids
    <3>1. \A u \in Tasks : slot'[u] = s => key'[u] = k
      BY <2>1, <2>3 DEF Agrees
    <3>2. s \in orphans' => k \in Ids
      BY <2>2, <2>3 DEF Agrees
    <3> QED
      BY <3>1, <3>2
  <2>4. ASSUME NEW i \in 1 .. Len(requests'), requests'[i].op = "exchange"
        PROVE  i \in 1 .. Len(requests) /\ requests'[i] = requests[i]
    BY <1>10, <2>4, CloseQueue
  <2>5. ASSUME NEW i \in 1 .. Len(requests), requests[i].op = "exchange"
        PROVE  /\ \A u \in Tasks : slot'[u] = requests[i].slot => key'[u] = requests[i].key
               /\ requests[i].slot \in orphans' => requests[i].key \in Ids
    <3>1. Agrees(requests[i].key, requests[i].slot) /\ requests[i].slot \in Ids
      BY <2>5 DEF SendersAgree, RequestShape, ExchangeShape
    <3> QED
      BY <2>3, <3>1
  <2>6. writing # None /\ writing.op = "exchange" =>
          /\ \A u \in Tasks : slot'[u] = writing.slot => key'[u] = writing.key
          /\ writing.slot \in orphans' => writing.key \in Ids
    BY <2>3 DEF SendersAgree, RequestShape, ExchangeShape, Agrees
  <2>7. ASSUME NEW k \in Keys, outstanding[k] # None
        PROVE  /\ \A u \in Tasks : slot'[u] = outstanding[k] => key'[u] = k
               /\ outstanding[k] \in orphans' => k \in Ids
    BY <2>3, <2>7 DEF SendersAgree, TypeOK, Agrees
  <2> QED
    BY <2>1, <2>4, <2>5, <2>6, <2>7 DEF SendersAgree, Agrees
<1>11. ASSUME EnableHeartbeat PROVE SendersAgree'
  <2>1. /\ \A u \in Tasks : slot'[u] \in {slot[u], None} /\ (slot'[u] # None => key'[u] = key[u])
        /\ UNCHANGED <<writing, outstanding>>
    BY <1>11 DEF EnableHeartbeat, AbortHeartbeat, TypeOK, CallShape
  <2>2. ASSUME NEW s \in orphans' PROVE s \in orphans \/ (slot[Heartbeat] = s /\ key[Heartbeat] \in Ids)
    BY <1>11, <2>2 DEF EnableHeartbeat, AbortHeartbeat, TypeOK, CallShape, HeartbeatShape
  <2>3. ASSUME NEW k, NEW s \in Ids, Agrees(k, s)
        PROVE  /\ \A u \in Tasks : slot'[u] = s => key'[u] = k
               /\ s \in orphans' => k \in Ids
    <3>1. \A u \in Tasks : slot'[u] = s => key'[u] = k
      BY <2>1, <2>3 DEF Agrees
    <3>2. s \in orphans' => k \in Ids
      BY <2>2, <2>3 DEF Agrees
    <3> QED
      BY <3>1, <3>2
  <2>4. ASSUME NEW i \in 1 .. Len(requests'), requests'[i].op = "exchange"
        PROVE  i \in 1 .. Len(requests) /\ requests'[i] = requests[i]
    BY <1>11 DEF EnableHeartbeat, AbortHeartbeat
  <2>5. ASSUME NEW i \in 1 .. Len(requests), requests[i].op = "exchange"
        PROVE  /\ \A u \in Tasks : slot'[u] = requests[i].slot => key'[u] = requests[i].key
               /\ requests[i].slot \in orphans' => requests[i].key \in Ids
    <3>1. Agrees(requests[i].key, requests[i].slot) /\ requests[i].slot \in Ids
      BY <2>5 DEF SendersAgree, RequestShape, ExchangeShape
    <3> QED
      BY <2>3, <3>1
  <2>6. writing # None /\ writing.op = "exchange" =>
          /\ \A u \in Tasks : slot'[u] = writing.slot => key'[u] = writing.key
          /\ writing.slot \in orphans' => writing.key \in Ids
    BY <2>3 DEF SendersAgree, RequestShape, ExchangeShape, Agrees
  <2>7. ASSUME NEW k \in Keys, outstanding[k] # None
        PROVE  /\ \A u \in Tasks : slot'[u] = outstanding[k] => key'[u] = k
               /\ outstanding[k] \in orphans' => k \in Ids
    BY <2>3, <2>7 DEF SendersAgree, TypeOK, Agrees
  <2> QED
    BY <2>1, <2>4, <2>5, <2>6, <2>7 DEF SendersAgree, Agrees
<1>12. ASSUME Beat PROVE SendersAgree'
  BY <1>12 DEF Beat, Begin, SendersAgree, Agrees, TypeOK, CallShape, RequestShape, ExchangeShape,
       OneReceiver, InUse
<1>13. ASSUME KillConnection PROVE SendersAgree'
  <2>1. /\ \A u \in Tasks : slot'[u] \in {slot[u], None} /\ (slot'[u] # None => key'[u] = key[u])
        /\ UNCHANGED <<writing, outstanding>>
    BY <1>13 DEF KillConnection, TypeOK, CallShape
  <2>2. ASSUME NEW s \in orphans' PROVE s \in orphans \/ (slot[Heartbeat] = s /\ key[Heartbeat] \in Ids)
    BY <1>13, <2>2 DEF KillConnection, TypeOK, CallShape, HeartbeatShape
  <2>3. ASSUME NEW k, NEW s \in Ids, Agrees(k, s)
        PROVE  /\ \A u \in Tasks : slot'[u] = s => key'[u] = k
               /\ s \in orphans' => k \in Ids
    <3>1. \A u \in Tasks : slot'[u] = s => key'[u] = k
      BY <2>1, <2>3 DEF Agrees
    <3>2. s \in orphans' => k \in Ids
      BY <2>2, <2>3 DEF Agrees
    <3> QED
      BY <3>1, <3>2
  <2>4. ASSUME NEW i \in 1 .. Len(requests'), requests'[i].op = "exchange"
        PROVE  i \in 1 .. Len(requests) /\ requests'[i] = requests[i]
    BY <1>13, <2>4, KillQueue
  <2>5. ASSUME NEW i \in 1 .. Len(requests), requests[i].op = "exchange"
        PROVE  /\ \A u \in Tasks : slot'[u] = requests[i].slot => key'[u] = requests[i].key
               /\ requests[i].slot \in orphans' => requests[i].key \in Ids
    <3>1. Agrees(requests[i].key, requests[i].slot) /\ requests[i].slot \in Ids
      BY <2>5 DEF SendersAgree, RequestShape, ExchangeShape
    <3> QED
      BY <2>3, <3>1
  <2>6. writing # None /\ writing.op = "exchange" =>
          /\ \A u \in Tasks : slot'[u] = writing.slot => key'[u] = writing.key
          /\ writing.slot \in orphans' => writing.key \in Ids
    BY <2>3 DEF SendersAgree, RequestShape, ExchangeShape, Agrees
  <2>7. ASSUME NEW k \in Keys, outstanding[k] # None
        PROVE  /\ \A u \in Tasks : slot'[u] = outstanding[k] => key'[u] = k
               /\ outstanding[k] \in orphans' => k \in Ids
    BY <2>3, <2>7 DEF SendersAgree, TypeOK, Agrees
  <2> QED
    BY <2>1, <2>4, <2>5, <2>6, <2>7 DEF SendersAgree, Agrees
<1>14. ASSUME TakeWrite PROVE SendersAgree'
  <2>1. /\ writing' = Head(requests) /\ requests # << >> /\ requests' = Tail(requests)
        /\ Head(requests).op \in {"exchange", "send"} /\ actor = "serving" /\ writing = None
        /\ UNCHANGED <<phase, op, key, slot, reply, outstanding, actor, orphans>>
    BY <1>14 DEF TakeWrite, Serving
  <2>2. /\ Len(requests) \in Nat \ {0} /\ Len(requests') = Len(requests) - 1
        /\ writing' = requests[1] /\ writing' \in Request
        /\ \A i \in 1 .. Len(requests') : requests'[i] = requests[i + 1]
    BY <2>1, DequeueFacts
  <2> QED
    BY <2>1, <2>2 DEF SendersAgree, Agrees, TypeOK, CallShape, RequestShape, ExchangeShape,
         OneReceiver, InUse
<1>15. ASSUME WriteOk PROVE SendersAgree'
  BY <1>15 DEF WriteOk, Resolve, Waits, SendersAgree, Agrees, TypeOK, CallShape, RequestShape,
       ExchangeShape, OneReceiver, InUse
<1>16. ASSUME WriteFails PROVE SendersAgree'
  BY <1>16 DEF WriteFails, Resolve, Waits, SendersAgree, Agrees, TypeOK, CallShape, RequestShape,
       ExchangeShape, OneReceiver, InUse
<1>17. ASSUME ServeCancel PROVE SendersAgree'
  <2>1. /\ requests # << >> /\ requests' = Tail(requests)
        /\ Head(requests).op = "cancel" /\ actor = "serving" /\ writing = None
        /\ outstanding' = [outstanding EXCEPT ![Head(requests).key] = None]
        /\ UNCHANGED <<phase, op, key, slot, reply, writing, actor, orphans>>
    BY <1>17 DEF ServeCancel, Serving
  <2>2. /\ Len(requests) \in Nat \ {0} /\ Len(requests') = Len(requests) - 1
        /\ Head(requests) = requests[1] /\ requests[1].key \in Keys
        /\ \A i \in 1 .. Len(requests') : requests'[i] = requests[i + 1]
    BY <2>1, DequeueFacts DEF RequestShape
  <2> QED
    BY <2>1, <2>2 DEF SendersAgree, Agrees, TypeOK, CallShape, RequestShape, ExchangeShape,
         OneReceiver, InUse
<1>18. ASSUME ServeShutdown PROVE SendersAgree'
  <2>1. /\ requests # << >> /\ requests' = Tail(requests)
        /\ Head(requests).op = "shutdown" /\ actor = "serving" /\ writing = None
        /\ Resolve(Head(requests).slot, "done") /\ actor' = "stopping"
        /\ UNCHANGED <<phase, op, key, slot, writing, outstanding, orphans>>
    BY <1>18 DEF ServeShutdown, Serving
  <2>2. /\ Len(requests) \in Nat \ {0} /\ Len(requests') = Len(requests) - 1
        /\ Head(requests) = requests[1] /\ requests[1].slot \notin Ids
        /\ \A i \in 1 .. Len(requests') : requests'[i] = requests[i + 1]
    BY <2>1, DequeueFacts DEF RequestShape
  <2> QED
    BY <2>1, <2>2 DEF SendersAgree, Agrees, TypeOK, CallShape, RequestShape, ExchangeShape,
         OneReceiver, InUse, Resolve, Waits
<1>19. ASSUME Dispatch PROVE SendersAgree'
  BY SMTT(60), <1>19 DEF Dispatch, Serving, Resolve, Waits, SendersAgree, Agrees, TypeOK, CallShape,
       RequestShape, ExchangeShape, OneReceiver, InUse
<1>20. ASSUME ServeError PROVE SendersAgree'
  BY <1>20 DEF ServeError, Serving, SendersAgree, Agrees, TypeOK, CallShape, RequestShape,
       ExchangeShape, OneReceiver, InUse
<1>21. ASSUME ServeEof PROVE SendersAgree'
  BY <1>21 DEF ServeEof, Serving, SendersAgree, Agrees, TypeOK, CallShape, RequestShape,
       ExchangeShape, OneReceiver, InUse
<1>22. ASSUME Finish PROVE SendersAgree'
  BY <1>22 DEF Finish, Waits, SendersAgree, Agrees, TypeOK, CallShape, RequestShape, ExchangeShape,
       OneReceiver, InUse
<1>23. ASSUME DropActor PROVE SendersAgree'
  BY <1>23 DEF DropActor, Waits, SendersAgree, Agrees, TypeOK, CallShape, RequestShape,
       ExchangeShape, OneReceiver, InUse
<1>24. ASSUME ReadAnswer PROVE SendersAgree'
  BY <1>24 DEF ReadAnswer, Forward, SendersAgree, Agrees, TypeOK, CallShape, RequestShape,
       ExchangeShape, OneReceiver, InUse
<1>25. ASSUME ReadPush PROVE SendersAgree'
  BY <1>25 DEF ReadPush, Forward, SendersAgree, Agrees, TypeOK, CallShape, RequestShape,
       ExchangeShape, OneReceiver, InUse
<1>26. ASSUME ReadEof PROVE SendersAgree'
  BY <1>26 DEF ReadEof, SendersAgree, Agrees
<1>27. ASSUME ReadError PROVE SendersAgree'
  BY <1>27 DEF ReadError, SendersAgree, Agrees, TypeOK, CallShape, RequestShape, ExchangeShape,
       OneReceiver, InUse
<1>28. ASSUME DeviceIgnore PROVE SendersAgree'
  BY <1>28 DEF DeviceIgnore, SendersAgree, Agrees, TypeOK, CallShape, RequestShape, ExchangeShape,
       OneReceiver, InUse
<1>29. ASSUME DeviceFails PROVE SendersAgree'
  BY <1>29 DEF DeviceFails, SendersAgree, Agrees, TypeOK, CallShape, RequestShape, ExchangeShape,
       OneReceiver, InUse
<1> QED
  BY <1>0, <1>1, <1>2, <1>3, <1>4, <1>5, <1>6, <1>7, <1>8, <1>9, <1>10, <1>11, <1>12, <1>13, <1>14,
       <1>15, <1>16, <1>17, <1>18, <1>19, <1>20, <1>21, <1>22, <1>23, <1>24, <1>25, <1>26, <1>27,
              <1>28, <1>29 DEF Next, CallStep, CallerStart, HeartbeatStep, ActorStep, ReaderStep,
                     DeviceStep

\* After the step no task waits on oneshot s.
Unclaimed(s) == \A u \in Tasks : slot'[u] # s

\* The Cancel of a call is queued behind its request, and nobody reuses its oneshot meanwhile.
LEMMA CancelsStep ==
  ASSUME TypeOK, CallShape, RequestShape, ActorShape, HeartbeatShape, OneReceiver, OneSender,
         SendersAgree, CancelsAreLate, [Next]_vars
  PROVE  CancelsAreLate'
<1> USE TaskAssumption, KeyAssumption, BoundAssumption, StallAssumption
    DEF Tasks, Keys, Slots, callVars, actorVars, hbVars, deviceVars
<1>0. CASE UNCHANGED vars
  BY <1>0 DEF vars, CancelsAreLate, Abandoned, TypeOK, CallShape, RequestShape, ExchangeShape,
       OneReceiver, SendersAgree, Agrees, InUse
<1>1. ASSUME NEW t \in Tasks, Submit(t) PROVE CancelsAreLate'
  <2>1. /\ \A u \in Tasks : slot'[u] \in {slot[u], None}
        /\ UNCHANGED <<writing, outstanding>>
    BY <1>1 DEF Submit, TypeOK
  <2>2. ASSUME NEW s \in Ids, Abandoned(s) PROVE Unclaimed(s)
    BY <2>1, <2>2 DEF Abandoned, Unclaimed
  <2>3. ASSUME NEW i \in 1 .. Len(requests), requests[i].op = "cancel"
        PROVE  /\ \A j \in 1 .. i - 1 :
                    requests[j].op = "exchange" /\ requests[j].key = requests[i].key => Unclaimed(requests[j].slot)
               /\ writing # None /\ writing.op = "exchange" /\ writing.key = requests[i].key
                    => Unclaimed(writing.slot)
               /\ outstanding[requests[i].key] # None => Unclaimed(outstanding[requests[i].key])
               /\ requests[i].key \in Ids => Unclaimed(requests[i].key)
    <3>1. requests[i].key \in Keys
      BY <2>3 DEF RequestShape
    <3>2. ASSUME NEW j \in 1 .. i - 1, requests[j].op = "exchange", requests[j].key = requests[i].key
          PROVE  Unclaimed(requests[j].slot)
      <4>1. j \in 1 .. Len(requests)
        BY DEF TypeOK
      <4>2. requests[j].slot \in Ids
        BY <3>2, <4>1 DEF RequestShape, ExchangeShape
      <4>3. Abandoned(requests[j].slot)
        BY <2>3, <3>2 DEF CancelsAreLate
      <4> QED
        BY <2>2, <4>2, <4>3
    <3>3. ASSUME writing # None, writing.op = "exchange", writing.key = requests[i].key
          PROVE  Unclaimed(writing.slot)
      BY <2>2, <2>3, <3>3 DEF CancelsAreLate, RequestShape, ExchangeShape
    <3>4. ASSUME outstanding[requests[i].key] # None PROVE Unclaimed(outstanding[requests[i].key])
      BY <2>2, <2>3, <3>1, <3>4 DEF CancelsAreLate, TypeOK
    <3>5. ASSUME requests[i].key \in Ids PROVE Unclaimed(requests[i].key)
      BY <2>2, <2>3, <3>5 DEF CancelsAreLate
    <3> QED
      BY <3>2, <3>3, <3>4, <3>5
  <2>4. Len(requests) \in Nat /\ \A j \in 1 .. Len(requests) : requests'[j] = requests[j]
    BY <1>1, SubmitFacts
  <2>5. ASSUME NEW i \in 1 .. Len(requests'), requests'[i].op = "cancel"
        PROVE  /\ i \in 1 .. Len(requests) /\ requests'[i] = requests[i]
               /\ \A j \in 1 .. i - 1 : requests'[j] = requests[j]
    <3>1. i \in 1 .. Len(requests) /\ requests'[i] = requests[i]
      <4>1. op[t] # "cancel"
        BY <1>1, SubmitFacts
      <4> QED
        BY <1>1, <2>5, <4>1, SubmitQueue
    <3> QED
      BY <2>4, <3>1
  <2>6. ASSUME NEW i \in 1 .. Len(requests'), requests'[i].op = "cancel"
        PROVE  /\ \A j \in 1 .. i - 1 :
                    requests'[j].op = "exchange" /\ requests'[j].key = requests'[i].key => Unclaimed(requests'[j].slot)
               /\ writing # None /\ writing.op = "exchange" /\ writing.key = requests'[i].key
                    => Unclaimed(writing.slot)
               /\ outstanding[requests'[i].key] # None => Unclaimed(outstanding[requests'[i].key])
               /\ requests'[i].key \in Ids => Unclaimed(requests'[i].key)
    BY <2>3, <2>5, <2>6
  <2> QED
    BY <2>1, <2>6 DEF CancelsAreLate, Abandoned, Unclaimed
<1>2. ASSUME NEW t \in Tasks, SubmitFails(t) PROVE CancelsAreLate'
  BY SMTT(60), <1>2 DEF SubmitFails, Return, BeatReturns, CancelsAreLate, Abandoned, TypeOK, CallShape,
       RequestShape, ExchangeShape, OneReceiver, SendersAgree, Agrees, InUse
<1>3. ASSUME NEW t \in Tasks, Receive(t) PROVE CancelsAreLate'
  BY SMTT(60), <1>3 DEF Receive, Return, BeatReturns, CancelsAreLate, Abandoned, TypeOK, CallShape,
       RequestShape, ExchangeShape, OneReceiver, SendersAgree, Agrees, InUse
<1>4. ASSUME NEW t \in Tasks, Timeout(t) PROVE CancelsAreLate'
  BY <1>4 DEF Timeout, CancelsAreLate, Abandoned, TypeOK, CallShape, RequestShape, ExchangeShape,
       OneReceiver, SendersAgree, Agrees, InUse
<1>5. ASSUME NEW t \in Tasks, SendCancel(t) PROVE CancelsAreLate'
  <2>1. /\ \A u \in Tasks : slot'[u] \in {slot[u], None}
        /\ UNCHANGED <<writing, outstanding>>
    BY <1>5 DEF SendCancel, Return, TypeOK
  <2>2. ASSUME NEW s \in Ids, Abandoned(s) PROVE Unclaimed(s)
    BY <2>1, <2>2 DEF Abandoned, Unclaimed
  <2>3. ASSUME NEW i \in 1 .. Len(requests), requests[i].op = "cancel"
        PROVE  /\ \A j \in 1 .. i - 1 :
                    requests[j].op = "exchange" /\ requests[j].key = requests[i].key => Unclaimed(requests[j].slot)
               /\ writing # None /\ writing.op = "exchange" /\ writing.key = requests[i].key
                    => Unclaimed(writing.slot)
               /\ outstanding[requests[i].key] # None => Unclaimed(outstanding[requests[i].key])
               /\ requests[i].key \in Ids => Unclaimed(requests[i].key)
    <3>1. requests[i].key \in Keys
      BY <2>3 DEF RequestShape
    <3>2. ASSUME NEW j \in 1 .. i - 1, requests[j].op = "exchange", requests[j].key = requests[i].key
          PROVE  Unclaimed(requests[j].slot)
      <4>1. j \in 1 .. Len(requests)
        BY DEF TypeOK
      <4>2. requests[j].slot \in Ids
        BY <3>2, <4>1 DEF RequestShape, ExchangeShape
      <4>3. Abandoned(requests[j].slot)
        BY <2>3, <3>2 DEF CancelsAreLate
      <4> QED
        BY <2>2, <4>2, <4>3
    <3>3. ASSUME writing # None, writing.op = "exchange", writing.key = requests[i].key
          PROVE  Unclaimed(writing.slot)
      BY <2>2, <2>3, <3>3 DEF CancelsAreLate, RequestShape, ExchangeShape
    <3>4. ASSUME outstanding[requests[i].key] # None PROVE Unclaimed(outstanding[requests[i].key])
      BY <2>2, <2>3, <3>1, <3>4 DEF CancelsAreLate, TypeOK
    <3>5. ASSUME requests[i].key \in Ids PROVE Unclaimed(requests[i].key)
      BY <2>2, <2>3, <3>5 DEF CancelsAreLate
    <3> QED
      BY <3>2, <3>3, <3>4, <3>5
  <2>4. /\ key[t] \in Keys /\ slot'[t] = None /\ op[t] = "exchange"
        /\ \A j \in 1 .. Len(requests) : requests'[j] = requests[j]
        /\ Len(requests) \in Nat
    BY <1>5, CancelFacts DEF SendCancel, Return, TypeOK
  <2>5. \A u \in Tasks : key[u] = key[t] => u = t
    BY SMTT(60), <2>4 DEF OneReceiver, CallShape, TypeOK
  <2>6. ASSUME NEW s \in Ids, Agrees(key[t], s) PROVE Unclaimed(s)
    BY <2>1, <2>4, <2>5, <2>6 DEF Agrees, Unclaimed
  <2>7. ASSUME NEW j \in 1 .. Len(requests), requests[j].op = "exchange", requests[j].key = key[t]
        PROVE  Unclaimed(requests[j].slot)
    BY <2>6, <2>7 DEF SendersAgree, RequestShape, ExchangeShape
  <2>8. writing # None /\ writing.op = "exchange" /\ writing.key = key[t] => Unclaimed(writing.slot)
    BY <2>6 DEF SendersAgree, RequestShape, ExchangeShape
  <2>9. outstanding[key[t]] # None => Unclaimed(outstanding[key[t]])
    BY <2>4, <2>6 DEF SendersAgree, TypeOK
  <2>10. key[t] \in Ids => Unclaimed(key[t])
    BY <2>1, <2>4 DEF OneReceiver, CallShape, TypeOK, Unclaimed
  <2>11. ASSUME NEW i \in 1 .. Len(requests')
         PROVE  \/ i \in 1 .. Len(requests) /\ requests'[i] = requests[i]
                \/ i = Len(requests) + 1 /\ requests'[i].op = "cancel" /\ requests'[i].key = key[t]
    BY <1>5, CancelQueue
  <2>12. ASSUME NEW i \in 1 .. Len(requests'), requests'[i].op = "cancel"
         PROVE  \/ /\ i \in 1 .. Len(requests) /\ requests'[i] = requests[i]
                   /\ \A j \in 1 .. i - 1 : requests'[j] = requests[j]
                \/ /\ requests'[i].key = key[t]
                   /\ \A j \in 1 .. i - 1 : j \in 1 .. Len(requests) /\ requests'[j] = requests[j]
    BY <2>4, <2>11, <2>12
  <2> QED
    BY SMTT(60), <2>1, <2>3, <2>7, <2>8, <2>9, <2>10, <2>12 DEF CancelsAreLate, Abandoned, Unclaimed
<1>6. ASSUME NEW c \in Callers, StartExchange(c) PROVE CancelsAreLate'
  BY <1>6 DEF StartExchange, Begin, CancelsAreLate, Abandoned, TypeOK, CallShape, RequestShape,
       ExchangeShape, OneReceiver, SendersAgree, Agrees, InUse
<1>7. ASSUME NEW c \in Callers, StartUntagged(c) PROVE CancelsAreLate'
  BY SMTT(60), <1>7 DEF StartUntagged, Begin, CancelsAreLate, Abandoned, TypeOK, CallShape, RequestShape,
       ExchangeShape, OneReceiver, SendersAgree, Agrees, InUse
<1>8. ASSUME NEW c \in Callers, StartSend(c) PROVE CancelsAreLate'
  BY SMTT(60), <1>8 DEF StartSend, Begin, CancelsAreLate, Abandoned, TypeOK, CallShape, RequestShape,
       ExchangeShape, OneReceiver, SendersAgree, Agrees, InUse
<1>9. ASSUME NEW c \in Callers, StartClose(c) PROVE CancelsAreLate'
  BY <1>9 DEF StartClose, Begin, CancelsAreLate, Abandoned, TypeOK, CallShape, RequestShape,
       ExchangeShape, OneReceiver, SendersAgree, Agrees, InUse
<1>10. ASSUME NEW c \in Callers, SubmitClose(c) PROVE CancelsAreLate'
  <2>1. /\ \A u \in Tasks : slot'[u] \in {slot[u], None}
        /\ UNCHANGED <<writing, outstanding>>
    BY <1>10 DEF SubmitClose, AbortHeartbeat, TypeOK
  <2>2. ASSUME NEW s \in Ids, Abandoned(s) PROVE Unclaimed(s)
    BY <2>1, <2>2 DEF Abandoned, Unclaimed
  <2>3. ASSUME NEW i \in 1 .. Len(requests), requests[i].op = "cancel"
        PROVE  /\ \A j \in 1 .. i - 1 :
                    requests[j].op = "exchange" /\ requests[j].key = requests[i].key => Unclaimed(requests[j].slot)
               /\ writing # None /\ writing.op = "exchange" /\ writing.key = requests[i].key
                    => Unclaimed(writing.slot)
               /\ outstanding[requests[i].key] # None => Unclaimed(outstanding[requests[i].key])
               /\ requests[i].key \in Ids => Unclaimed(requests[i].key)
    <3>1. requests[i].key \in Keys
      BY <2>3 DEF RequestShape
    <3>2. ASSUME NEW j \in 1 .. i - 1, requests[j].op = "exchange", requests[j].key = requests[i].key
          PROVE  Unclaimed(requests[j].slot)
      <4>1. j \in 1 .. Len(requests)
        BY DEF TypeOK
      <4>2. requests[j].slot \in Ids
        BY <3>2, <4>1 DEF RequestShape, ExchangeShape
      <4>3. Abandoned(requests[j].slot)
        BY <2>3, <3>2 DEF CancelsAreLate
      <4> QED
        BY <2>2, <4>2, <4>3
    <3>3. ASSUME writing # None, writing.op = "exchange", writing.key = requests[i].key
          PROVE  Unclaimed(writing.slot)
      BY <2>2, <2>3, <3>3 DEF CancelsAreLate, RequestShape, ExchangeShape
    <3>4. ASSUME outstanding[requests[i].key] # None PROVE Unclaimed(outstanding[requests[i].key])
      BY <2>2, <2>3, <3>1, <3>4 DEF CancelsAreLate, TypeOK
    <3>5. ASSUME requests[i].key \in Ids PROVE Unclaimed(requests[i].key)
      BY <2>2, <2>3, <3>5 DEF CancelsAreLate
    <3> QED
      BY <3>2, <3>3, <3>4, <3>5
  <2>4. Len(requests) \in Nat /\ \A j \in 1 .. Len(requests) : requests'[j] = requests[j]
    BY <1>10, CloseFacts
  <2>5. ASSUME NEW i \in 1 .. Len(requests'), requests'[i].op = "cancel"
        PROVE  /\ i \in 1 .. Len(requests) /\ requests'[i] = requests[i]
               /\ \A j \in 1 .. i - 1 : requests'[j] = requests[j]
    <3>1. i \in 1 .. Len(requests) /\ requests'[i] = requests[i]
      BY <1>10, <2>5, CloseQueue
    <3> QED
      BY <2>4, <3>1
  <2>6. ASSUME NEW i \in 1 .. Len(requests'), requests'[i].op = "cancel"
        PROVE  /\ \A j \in 1 .. i - 1 :
                    requests'[j].op = "exchange" /\ requests'[j].key = requests'[i].key => Unclaimed(requests'[j].slot)
               /\ writing # None /\ writing.op = "exchange" /\ writing.key = requests'[i].key
                    => Unclaimed(writing.slot)
               /\ outstanding[requests'[i].key] # None => Unclaimed(outstanding[requests'[i].key])
               /\ requests'[i].key \in Ids => Unclaimed(requests'[i].key)
    BY <2>3, <2>5, <2>6
  <2> QED
    BY <2>1, <2>6 DEF CancelsAreLate, Abandoned, Unclaimed
<1>11. ASSUME EnableHeartbeat PROVE CancelsAreLate'
  <2>1. /\ \A u \in Tasks : slot'[u] \in {slot[u], None}
        /\ UNCHANGED <<writing, outstanding>>
    BY <1>11 DEF EnableHeartbeat, AbortHeartbeat, TypeOK
  <2>2. ASSUME NEW s \in Ids, Abandoned(s) PROVE Unclaimed(s)
    BY <2>1, <2>2 DEF Abandoned, Unclaimed
  <2>3. ASSUME NEW i \in 1 .. Len(requests), requests[i].op = "cancel"
        PROVE  /\ \A j \in 1 .. i - 1 :
                    requests[j].op = "exchange" /\ requests[j].key = requests[i].key => Unclaimed(requests[j].slot)
               /\ writing # None /\ writing.op = "exchange" /\ writing.key = requests[i].key
                    => Unclaimed(writing.slot)
               /\ outstanding[requests[i].key] # None => Unclaimed(outstanding[requests[i].key])
               /\ requests[i].key \in Ids => Unclaimed(requests[i].key)
    <3>1. requests[i].key \in Keys
      BY <2>3 DEF RequestShape
    <3>2. ASSUME NEW j \in 1 .. i - 1, requests[j].op = "exchange", requests[j].key = requests[i].key
          PROVE  Unclaimed(requests[j].slot)
      <4>1. j \in 1 .. Len(requests)
        BY DEF TypeOK
      <4>2. requests[j].slot \in Ids
        BY <3>2, <4>1 DEF RequestShape, ExchangeShape
      <4>3. Abandoned(requests[j].slot)
        BY <2>3, <3>2 DEF CancelsAreLate
      <4> QED
        BY <2>2, <4>2, <4>3
    <3>3. ASSUME writing # None, writing.op = "exchange", writing.key = requests[i].key
          PROVE  Unclaimed(writing.slot)
      BY <2>2, <2>3, <3>3 DEF CancelsAreLate, RequestShape, ExchangeShape
    <3>4. ASSUME outstanding[requests[i].key] # None PROVE Unclaimed(outstanding[requests[i].key])
      BY <2>2, <2>3, <3>1, <3>4 DEF CancelsAreLate, TypeOK
    <3>5. ASSUME requests[i].key \in Ids PROVE Unclaimed(requests[i].key)
      BY <2>2, <2>3, <3>5 DEF CancelsAreLate
    <3> QED
      BY <3>2, <3>3, <3>4, <3>5
  <2> QED
    BY <1>11, <2>1, <2>3 DEF EnableHeartbeat, CancelsAreLate, Abandoned, Unclaimed
<1>12. ASSUME Beat PROVE CancelsAreLate'
  BY <1>12 DEF Beat, Begin, CancelsAreLate, Abandoned, TypeOK, CallShape, RequestShape,
       ExchangeShape, OneReceiver, SendersAgree, Agrees, InUse
<1>13. ASSUME KillConnection PROVE CancelsAreLate'
  <2>1. /\ \A u \in Tasks : slot'[u] \in {slot[u], None}
        /\ UNCHANGED <<writing, outstanding>>
    BY <1>13 DEF KillConnection, TypeOK
  <2>2. ASSUME NEW s \in Ids, Abandoned(s) PROVE Unclaimed(s)
    BY <2>1, <2>2 DEF Abandoned, Unclaimed
  <2>3. ASSUME NEW i \in 1 .. Len(requests), requests[i].op = "cancel"
        PROVE  /\ \A j \in 1 .. i - 1 :
                    requests[j].op = "exchange" /\ requests[j].key = requests[i].key => Unclaimed(requests[j].slot)
               /\ writing # None /\ writing.op = "exchange" /\ writing.key = requests[i].key
                    => Unclaimed(writing.slot)
               /\ outstanding[requests[i].key] # None => Unclaimed(outstanding[requests[i].key])
               /\ requests[i].key \in Ids => Unclaimed(requests[i].key)
    <3>1. requests[i].key \in Keys
      BY <2>3 DEF RequestShape
    <3>2. ASSUME NEW j \in 1 .. i - 1, requests[j].op = "exchange", requests[j].key = requests[i].key
          PROVE  Unclaimed(requests[j].slot)
      <4>1. j \in 1 .. Len(requests)
        BY DEF TypeOK
      <4>2. requests[j].slot \in Ids
        BY <3>2, <4>1 DEF RequestShape, ExchangeShape
      <4>3. Abandoned(requests[j].slot)
        BY <2>3, <3>2 DEF CancelsAreLate
      <4> QED
        BY <2>2, <4>2, <4>3
    <3>3. ASSUME writing # None, writing.op = "exchange", writing.key = requests[i].key
          PROVE  Unclaimed(writing.slot)
      BY <2>2, <2>3, <3>3 DEF CancelsAreLate, RequestShape, ExchangeShape
    <3>4. ASSUME outstanding[requests[i].key] # None PROVE Unclaimed(outstanding[requests[i].key])
      BY <2>2, <2>3, <3>1, <3>4 DEF CancelsAreLate, TypeOK
    <3>5. ASSUME requests[i].key \in Ids PROVE Unclaimed(requests[i].key)
      BY <2>2, <2>3, <3>5 DEF CancelsAreLate
    <3> QED
      BY <3>2, <3>3, <3>4, <3>5
  <2>4. ASSUME NEW i \in 1 .. Len(requests'), requests'[i].op = "cancel"
        PROVE  i \in 1 .. Len(requests) /\ requests'[i] = requests[i]
    BY <1>13, <2>4, KillQueue
  <2>5. \A i \in 1 .. Len(requests) : \A j \in 1 .. i - 1 : requests'[j] = requests[j]
    BY <1>13, KillFacts
  <2> QED
    BY <2>1, <2>3, <2>4, <2>5 DEF CancelsAreLate, Abandoned, Unclaimed
<1>14. ASSUME TakeWrite PROVE CancelsAreLate'
  <2>1. /\ writing' = Head(requests) /\ requests # << >> /\ requests' = Tail(requests)
        /\ Head(requests).op \in {"exchange", "send"} /\ actor = "serving" /\ writing = None
        /\ UNCHANGED <<phase, op, key, slot, reply, outstanding, actor, orphans>>
    BY <1>14 DEF TakeWrite, Serving
  <2>2. /\ Len(requests) \in Nat \ {0} /\ Len(requests') = Len(requests) - 1
        /\ writing' = requests[1] /\ writing' \in Request
        /\ \A i \in 1 .. Len(requests') : requests'[i] = requests[i + 1]
    BY <2>1, DequeueFacts
  <2>3. \A s : Abandoned(s)' <=> Abandoned(s)
    BY <2>1 DEF Abandoned
  <2>4. ASSUME NEW i \in 1 .. Len(requests'), requests'[i].op = "cancel"
        PROVE  /\ \A j \in 1 .. i - 1 :
                    requests'[j].op = "exchange" /\ requests'[j].key = requests'[i].key
                      => Abandoned(requests'[j].slot)
               /\ writing'.op = "exchange" /\ writing'.key = requests'[i].key => Abandoned(writing'.slot)
               /\ outstanding'[requests'[i].key] # None => Abandoned(outstanding'[requests'[i].key])
               /\ requests'[i].key \in Ids => Abandoned(requests'[i].key)
    <3>1. i + 1 \in 1 .. Len(requests) /\ requests'[i] = requests[i + 1]
      BY <2>2
    <3>2. ASSUME NEW j \in 1 .. i - 1, requests'[j].op = "exchange", requests'[j].key = requests'[i].key
          PROVE  Abandoned(requests'[j].slot)
      <4>1. j + 1 \in 1 .. (i + 1) - 1 /\ requests'[j] = requests[j + 1]
        BY <2>2
      <4> QED
        BY <2>4, <3>1, <3>2, <4>1 DEF CancelsAreLate
    <3>3. 1 \in 1 .. (i + 1) - 1
      BY <2>2
    <3> QED
      BY <2>1, <2>2, <2>4, <3>1, <3>2, <3>3 DEF CancelsAreLate
  <2> QED
    BY <2>3, <2>4 DEF CancelsAreLate
<1>15. ASSUME WriteOk PROVE CancelsAreLate'
  BY SMTT(60), <1>15 DEF WriteOk, Resolve, Waits, CancelsAreLate, Abandoned, TypeOK, CallShape, RequestShape,
       ExchangeShape, OneReceiver, SendersAgree, Agrees, InUse
<1>16. ASSUME WriteFails PROVE CancelsAreLate'
  BY <1>16 DEF WriteFails, Resolve, Waits, CancelsAreLate, Abandoned, TypeOK, CallShape,
       RequestShape, ExchangeShape, OneReceiver, SendersAgree, Agrees, InUse
<1>17. ASSUME ServeCancel PROVE CancelsAreLate'
  <2>1. /\ requests # << >> /\ requests' = Tail(requests)
        /\ Head(requests).op = "cancel" /\ actor = "serving" /\ writing = None
        /\ outstanding' = [outstanding EXCEPT ![Head(requests).key] = None]
        /\ UNCHANGED <<phase, op, key, slot, reply, writing, actor, orphans>>
    BY <1>17 DEF ServeCancel, Serving
  <2>2. /\ Len(requests) \in Nat \ {0} /\ Len(requests') = Len(requests) - 1
        /\ Head(requests) = requests[1] /\ requests[1].key \in Keys
        /\ \A i \in 1 .. Len(requests') : requests'[i] = requests[i + 1]
    BY <2>1, DequeueFacts DEF RequestShape
  <2>3. ASSUME NEW i \in 1 .. Len(requests'), requests'[i].op = "cancel"
        PROVE  /\ \A j \in 1 .. i - 1 :
                    requests'[j].op = "exchange" /\ requests'[j].key = requests'[i].key => Unclaimed(requests'[j].slot)
               /\ outstanding'[requests'[i].key] # None => Unclaimed(outstanding'[requests'[i].key])
               /\ requests'[i].key \in Ids => Unclaimed(requests'[i].key)
    <3>1. i + 1 \in 1 .. Len(requests) /\ requests'[i] = requests[i + 1] /\ requests[i + 1].op = "cancel"
      BY <2>2, <2>3
    <3>2. ASSUME NEW j \in 1 .. i - 1, requests'[j].op = "exchange", requests'[j].key = requests'[i].key
          PROVE  Unclaimed(requests'[j].slot)
      <4>1. j + 1 \in 1 .. (i + 1) - 1 /\ requests'[j] = requests[j + 1]
        BY <2>2, <2>3
      <4>2. Abandoned(requests[j + 1].slot)
        BY <3>1, <3>2, <4>1 DEF CancelsAreLate
      <4> QED
        BY <2>1, <4>1, <4>2 DEF Abandoned, Unclaimed
    <3>3. requests[i + 1].key \in Keys
      BY <3>1 DEF RequestShape
    <3>4. outstanding'[requests[i + 1].key] \in {outstanding[requests[i + 1].key], None}
      BY <2>1, <2>2, <3>3 DEF TypeOK
    <3>5. outstanding[requests[i + 1].key] # None => Abandoned(outstanding[requests[i + 1].key])
      BY <3>1 DEF CancelsAreLate
    <3>6. requests[i + 1].key \in Ids => Abandoned(requests[i + 1].key)
      BY <3>1 DEF CancelsAreLate
    <3> QED
      BY <2>1, <3>1, <3>2, <3>4, <3>5, <3>6 DEF Abandoned, Unclaimed
  <2> QED
    BY <2>1, <2>3 DEF CancelsAreLate, Abandoned, Unclaimed
<1>18. ASSUME ServeShutdown PROVE CancelsAreLate'
  <2>1. /\ requests # << >> /\ requests' = Tail(requests)
        /\ Head(requests).op = "shutdown" /\ actor = "serving" /\ writing = None
        /\ Resolve(Head(requests).slot, "done") /\ actor' = "stopping"
        /\ UNCHANGED <<phase, op, key, slot, writing, outstanding, orphans>>
    BY <1>18 DEF ServeShutdown, Serving
  <2>2. /\ Len(requests) \in Nat \ {0} /\ Len(requests') = Len(requests) - 1
        /\ Head(requests) = requests[1] /\ requests[1].slot \notin Ids
        /\ \A i \in 1 .. Len(requests') : requests'[i] = requests[i + 1]
    BY <2>1, DequeueFacts DEF RequestShape
  <2> QED
    BY <2>1, <2>2 DEF CancelsAreLate, Abandoned, TypeOK, CallShape, RequestShape, ExchangeShape,
         OneReceiver, SendersAgree, Agrees, InUse, Resolve, Waits
<1>19. ASSUME Dispatch PROVE CancelsAreLate'
  BY <1>19 DEF Dispatch, Serving, Resolve, Waits, CancelsAreLate, Abandoned, TypeOK, CallShape,
       RequestShape, ExchangeShape, OneReceiver, SendersAgree, Agrees, InUse
<1>20. ASSUME ServeError PROVE CancelsAreLate'
  BY <1>20 DEF ServeError, Serving, CancelsAreLate, Abandoned, TypeOK, CallShape, RequestShape,
       ExchangeShape, OneReceiver, SendersAgree, Agrees, InUse
<1>21. ASSUME ServeEof PROVE CancelsAreLate'
  BY <1>21 DEF ServeEof, Serving, CancelsAreLate, Abandoned, TypeOK, CallShape, RequestShape,
       ExchangeShape, OneReceiver, SendersAgree, Agrees, InUse
<1>22. ASSUME Finish PROVE CancelsAreLate'
  BY SMTT(60), <1>22 DEF Finish, Waits, CancelsAreLate, Abandoned, TypeOK, CallShape, RequestShape,
       ExchangeShape, OneReceiver, SendersAgree, Agrees, InUse
<1>23. ASSUME DropActor PROVE CancelsAreLate'
  BY <1>23 DEF DropActor, Waits, CancelsAreLate, Abandoned, TypeOK, CallShape, RequestShape,
       ExchangeShape, OneReceiver, SendersAgree, Agrees, InUse
<1>24. ASSUME ReadAnswer PROVE CancelsAreLate'
  BY <1>24 DEF ReadAnswer, Forward, CancelsAreLate, Abandoned, TypeOK, CallShape, RequestShape,
       ExchangeShape, OneReceiver, SendersAgree, Agrees, InUse
<1>25. ASSUME ReadPush PROVE CancelsAreLate'
  BY <1>25 DEF ReadPush, CancelsAreLate, Abandoned
<1>26. ASSUME ReadEof PROVE CancelsAreLate'
  BY <1>26 DEF ReadEof, CancelsAreLate, Abandoned, TypeOK, CallShape, RequestShape, ExchangeShape,
       OneReceiver, SendersAgree, Agrees, InUse
<1>27. ASSUME ReadError PROVE CancelsAreLate'
  BY <1>27 DEF ReadError, CancelsAreLate, Abandoned, TypeOK, CallShape, RequestShape,
       ExchangeShape, OneReceiver, SendersAgree, Agrees, InUse
<1>28. ASSUME DeviceIgnore PROVE CancelsAreLate'
  BY <1>28 DEF DeviceIgnore, CancelsAreLate, Abandoned, TypeOK, CallShape, RequestShape,
       ExchangeShape, OneReceiver, SendersAgree, Agrees, InUse
<1>29. ASSUME DeviceFails PROVE CancelsAreLate'
  BY <1>29 DEF DeviceFails, CancelsAreLate, Abandoned, TypeOK, CallShape, RequestShape,
       ExchangeShape, OneReceiver, SendersAgree, Agrees, InUse
<1> QED
  BY <1>0, <1>1, <1>2, <1>3, <1>4, <1>5, <1>6, <1>7, <1>8, <1>9, <1>10, <1>11, <1>12, <1>13, <1>14,
       <1>15, <1>16, <1>17, <1>18, <1>19, <1>20, <1>21, <1>22, <1>23, <1>24, <1>25, <1>26, <1>27,
              <1>28, <1>29 DEF Next, CallStep, CallerStart, HeartbeatStep, ActorStep, ReaderStep,
                     DeviceStep

\* Expected(k, s) after the step, and whether somebody then holds the sender of oneshot s.
StillExpected(k, s) ==
  \/ \E t \in Tasks : /\ slot'[t] = s /\ key'[t] = k
                      /\ phase'[t] = "giveup" \/ (phase'[t] = "wait" /\ reply'[t] = "none")
  \/ s \in orphans'

StillHeld(s) ==
  \/ \E i \in 1 .. Len(requests') : requests'[i].slot = s
  \/ writing' # None /\ writing'.slot = s
  \/ \E k \in Keys : outstanding'[k] = s

\* The actor gives a message to the exchange that has its key, if there is one.
LEMMA DispatchFacts ==
  ASSUME TypeOK, Dispatch
  PROVE  \/ UNCHANGED <<outstanding, reply>>
         \/ \E k \in Keys : /\ outstanding[k] # None
                            /\ outstanding' = [outstanding EXCEPT ![k] = None]
                            /\ Resolve(outstanding[k], "answer") \/ Resolve(outstanding[k], "misanswer")
<1>1. inbound \in Seq(Inbound) /\ inbound # << >>
  BY DEF Dispatch, TypeOK
<1>2. Head(inbound) \in Inbound
  BY <1>1, TailFacts
<1>3. Head(inbound).key \in Keys \cup {None}
  BY <1>2 DEF Inbound
<1> QED
  BY <1>3 DEF Dispatch, Answers

\* A step that queues nothing only has to keep its promise to the senders that remain.
LEMMA AccountedSameQueue ==
  ASSUME TypeOK, RequestShape, SendersAccountedFor,
         requests' = requests, writing' \in {writing, None},
         \A k \in Keys : outstanding'[k] \in {outstanding[k], None},
         \A k : \A s \in Ids : StillHeld(s) /\ Expected(k, s) => StillExpected(k, s)
  PROVE  SendersAccountedFor'
<1> USE KeyAssumption DEF Keys
<1>1. ASSUME NEW i \in 1 .. Len(requests), requests[i].op = "exchange"
      PROVE  \/ StillExpected(requests[i].key, requests[i].slot)
             \/ \E j \in i + 1 .. Len(requests) : requests[j].op = "cancel" /\ requests[j].key = requests[i].key
  <2>1. requests[i].slot \in Ids /\ StillHeld(requests[i].slot)
    BY <1>1 DEF RequestShape, ExchangeShape, StillHeld
  <2> QED
    BY <1>1, <2>1 DEF SendersAccountedFor
<1>2. ASSUME writing' # None, writing.op = "exchange"
      PROVE  StillExpected(writing.key, writing.slot) \/ CancelQueued(writing.key)
  <2>1. writing # None /\ writing' = writing
    BY <1>2
  <2>2. writing.slot \in Ids /\ StillHeld(writing.slot)
    BY <1>2, <2>1 DEF RequestShape, ExchangeShape, StillHeld
  <2> QED
    BY <1>2, <2>1, <2>2 DEF SendersAccountedFor
<1>3. ASSUME NEW k \in Keys, outstanding'[k] # None
      PROVE  StillExpected(k, outstanding[k]) \/ CancelQueued(k)
  <2>1. outstanding'[k] = outstanding[k]
    BY <1>3
  <2>2. outstanding[k] \in Ids /\ StillHeld(outstanding[k])
    BY <1>3, <2>1 DEF TypeOK, StillHeld
  <2> QED
    BY <1>3, <2>1, <2>2 DEF SendersAccountedFor
<1> QED
  BY <1>1, <1>2, <1>3 DEF SendersAccountedFor, CancelQueued, Expected, StillExpected

\* A step that queues a request r: r accounts for itself, and for those whose call it abandons.
LEMMA AccountedAppend ==
  ASSUME TypeOK, RequestShape, SendersAccountedFor, NEW r,
         Len(requests) \in Nat, Len(requests') = Len(requests) + 1, requests'[Len(requests) + 1] = r,
         \A i \in 1 .. Len(requests) : requests'[i] = requests[i],
         UNCHANGED <<writing, outstanding>>,
         \A k : \A s \in Ids : Expected(k, s) => StillExpected(k, s) \/ (r.op = "cancel" /\ r.key = k),
         r.op = "exchange" => StillExpected(r.key, r.slot)
  PROVE  SendersAccountedFor'
<1> USE KeyAssumption DEF Keys
<1> DEFINE Cancels(j, k) == requests'[j].op = "cancel" /\ requests'[j].key = k
<1>1. ASSUME NEW i \in 1 .. Len(requests), requests[i].op = "exchange"
      PROVE  \/ StillExpected(requests[i].key, requests[i].slot)
             \/ \E j \in i + 1 .. Len(requests') : Cancels(j, requests[i].key)
  <2>1. requests[i].slot \in Ids
    BY <1>1 DEF RequestShape, ExchangeShape
  <2>2. CASE Expected(requests[i].key, requests[i].slot)
    <3>1. CASE r.op = "cancel" /\ r.key = requests[i].key
      <4>1. Len(requests) + 1 \in i + 1 .. Len(requests') /\ Cancels(Len(requests) + 1, requests[i].key)
        BY <3>1
      <4> QED
        BY <4>1
    <3> QED
      BY <2>1, <2>2, <3>1
  <2>3. ASSUME NEW j \in i + 1 .. Len(requests), requests[j].op = "cancel",
         requests[j].key = requests[i].key
        PROVE  \E m \in i + 1 .. Len(requests') : Cancels(m, requests[i].key)
    <3>1. j \in 1 .. Len(requests) /\ j \in i + 1 .. Len(requests')
      OBVIOUS
    <3> QED
      BY <2>3, <3>1
  <2> QED
    BY <1>1, <2>2, <2>3 DEF SendersAccountedFor
<1>2. ASSUME NEW k PROVE CancelQueued(k) => \E j \in 1 .. Len(requests') : Cancels(j, k)
  BY DEF CancelQueued
<1>3. ASSUME NEW k, NEW s \in Ids, Expected(k, s)
      PROVE  StillExpected(k, s) \/ \E j \in 1 .. Len(requests') : Cancels(j, k)
  <2>1. CASE r.op = "cancel" /\ r.key = k
    <3>1. Len(requests) + 1 \in 1 .. Len(requests') /\ Cancels(Len(requests) + 1, k)
      BY <2>1
    <3> QED
      BY <3>1
  <2> QED
    BY <1>3, <2>1
<1>4. writing # None /\ writing.op = "exchange" =>
        StillExpected(writing.key, writing.slot) \/ \E j \in 1 .. Len(requests') : Cancels(j,
               writing.key)
  BY <1>2, <1>3 DEF SendersAccountedFor, RequestShape, ExchangeShape
<1>5. ASSUME NEW k \in Keys, outstanding[k] # None
      PROVE  StillExpected(k, outstanding[k]) \/ \E j \in 1 .. Len(requests') : Cancels(j, k)
  <2>1. outstanding[k] \in Ids
    BY <1>5 DEF TypeOK
  <2>2. Expected(k, outstanding[k]) \/ CancelQueued(k)
    BY <1>5 DEF SendersAccountedFor
  <2> QED
    BY <1>2, <1>3, <2>1, <2>2
<1>6. ASSUME NEW i \in 1 .. Len(requests'), requests'[i].op = "exchange"
      PROVE  \/ StillExpected(requests'[i].key, requests'[i].slot)
             \/ \E j \in i + 1 .. Len(requests') : Cancels(j, requests'[i].key)
  <2>1. \/ i \in 1 .. Len(requests) /\ requests'[i] = requests[i]
        \/ requests'[i] = r
    OBVIOUS
  <2> QED
    BY <1>1, <1>6, <2>1
<1> QED
  BY <1>4, <1>5, <1>6 DEF SendersAccountedFor, CancelQueued, Expected, StillExpected

\* A step that takes the oldest request: the actor writes it, or it was no exchange.
LEMMA AccountedDequeue ==
  ASSUME TypeOK, RequestShape, SendersAccountedFor,
         requests # << >>, requests' = Tail(requests), writing = None,
         \/ writing' = None /\ Head(requests).op # "exchange"
         \/ writing' = Head(requests) /\ Head(requests).op # "cancel",
         \A k \in Keys : outstanding'[k] \in {outstanding[k], None},
         Head(requests).op = "cancel" => outstanding'[Head(requests).key] = None,
         \A k : \A s \in Ids : Expected(k, s) => StillExpected(k, s)
  PROVE  SendersAccountedFor'
<1> USE KeyAssumption DEF Keys
<1> DEFINE Cancels(j, k) == requests'[j].op = "cancel" /\ requests'[j].key = k
<1>1. /\ Len(requests) \in Nat \ {0} /\ Len(requests') = Len(requests) - 1
      /\ Head(requests) = requests[1]
      /\ \A i \in 1 .. Len(requests') : requests'[i] = requests[i + 1]
  BY DequeueFacts
<1>2. ASSUME NEW i \in 1 .. Len(requests), requests[i].op = "exchange"
      PROVE  \/ StillExpected(requests[i].key, requests[i].slot)
             \/ \E j \in i .. Len(requests') : Cancels(j, requests[i].key)
  <2>1. requests[i].slot \in Ids
    BY <1>2 DEF RequestShape, ExchangeShape
  <2>2. ASSUME NEW j \in i + 1 .. Len(requests), requests[j].op = "cancel",
         requests[j].key = requests[i].key
        PROVE  \E m \in i .. Len(requests') : Cancels(m, requests[i].key)
    <3>1. j - 1 \in i .. Len(requests') /\ j - 1 \in 1 .. Len(requests') /\ (j - 1) + 1 = j
      BY <1>1
    <3>2. requests'[j - 1] = requests[j]
      BY <1>1, <3>1
    <3> QED
      BY <2>2, <3>1, <3>2
  <2> QED
    BY <1>2, <2>1, <2>2 DEF SendersAccountedFor
<1>3. ASSUME NEW i \in 1 .. Len(requests'), requests'[i].op = "exchange"
      PROVE  \/ StillExpected(requests'[i].key, requests'[i].slot)
             \/ \E j \in i + 1 .. Len(requests') : Cancels(j, requests'[i].key)
  <2>1. i + 1 \in 1 .. Len(requests) /\ requests'[i] = requests[i + 1]
    BY <1>1
  <2> QED
    BY <1>2, <1>3, <2>1
<1>4. writing' # None /\ writing'.op = "exchange" =>
        StillExpected(writing'.key, writing'.slot) \/ \E j \in 1 .. Len(requests') : Cancels(j,
               writing'.key)
  BY <1>1, <1>2
<1>5. ASSUME NEW k \in Keys, outstanding'[k] # None
      PROVE  StillExpected(k, outstanding[k]) \/ \E j \in 1 .. Len(requests') : Cancels(j, k)
  <2>1. outstanding'[k] = outstanding[k] /\ outstanding[k] \in Ids
    BY <1>5 DEF TypeOK
  <2>2. ASSUME NEW i \in 1 .. Len(requests), requests[i].op = "cancel", requests[i].key = k
        PROVE  \E j \in 1 .. Len(requests') : Cancels(j, k)
    <3>1. i # 1
      BY <1>1, <1>5, <2>2
    <3>2. i - 1 \in 1 .. Len(requests') /\ (i - 1) + 1 = i
      BY <1>1, <3>1
    <3>3. requests'[i - 1] = requests[i]
      BY <1>1, <3>2
    <3> QED
      BY <2>2, <3>2, <3>3
  <2> QED
    BY <1>5, <2>1, <2>2 DEF SendersAccountedFor, CancelQueued
<1>6. \A k \in Keys : outstanding'[k] # None => outstanding'[k] = outstanding[k]
  OBVIOUS
<1> QED
  BY <1>3, <1>4, <1>5, <1>6 DEF SendersAccountedFor, CancelQueued, Expected, StillExpected

\* Every sender of an exchange stays accounted for.
LEMMA AccountedStep ==
  ASSUME TypeOK, CallShape, RequestShape, ActorShape, HeartbeatShape, OneReceiver, OneSender,
         SendersAgree, CancelsAreLate, SendersAccountedFor, [Next]_vars
  PROVE  SendersAccountedFor'
<1> USE TaskAssumption, KeyAssumption, BoundAssumption, StallAssumption
    DEF Tasks, Keys, Slots, callVars, actorVars, hbVars, deviceVars
<1>0. CASE UNCHANGED vars
  BY <1>0 DEF vars, SendersAccountedFor, Expected, CancelQueued, TypeOK, CallShape, RequestShape,
       ExchangeShape
<1>1. ASSUME NEW t \in Tasks, Submit(t) PROVE SendersAccountedFor'
  <2> DEFINE r == [op |-> op[t], key |-> key[t], slot |-> slot[t]]
  <2>1. /\ Len(requests) \in Nat /\ Len(requests') = Len(requests) + 1 /\ requests'[Len(requests) + 1] = r
        /\ \A i \in 1 .. Len(requests) : requests'[i] = requests[i]
    BY <1>1, SubmitFacts
  <2>2. /\ UNCHANGED <<writing, outstanding, slot, key, reply, orphans>>
        /\ phase' = [phase EXCEPT ![t] = "wait"] /\ phase[t] = "submit" /\ reply[t] = "none"
    BY <1>1 DEF Submit, CallShape
  <2>3. ASSUME NEW k, NEW s \in Ids, Expected(k, s) PROVE StillExpected(k, s)
    BY <2>2, <2>3 DEF Expected, StillExpected, TypeOK
  <2>4. StillExpected(r.key, r.slot)
    BY <2>2 DEF StillExpected, TypeOK
  <2> HIDE DEF r
  <2> QED
    BY <2>1, <2>2, <2>3, <2>4, AccountedAppend
<1>2. ASSUME NEW t \in Tasks, SubmitFails(t) PROVE SendersAccountedFor'
  <2>1. requests' = requests /\ requests = << >> /\ writing' = None /\ \A k \in Keys : outstanding'[k] = None
    BY <1>2 DEF SubmitFails, ActorShape
  <2> QED
    BY <2>1 DEF SendersAccountedFor
<1>3. ASSUME NEW t \in Tasks, Receive(t) PROVE SendersAccountedFor'
  <2>1. /\ requests' = requests /\ writing' \in {writing, None}
        /\ \A k \in Keys : outstanding'[k] \in {outstanding[k], None}
    BY <1>3 DEF Receive, Return, TypeOK
  <2>2. ASSUME NEW k, NEW s \in Ids, StillHeld(s), Expected(k, s) PROVE StillExpected(k, s)
    <3>1. /\ \A u \in Tasks \ {t} : slot'[u] = slot[u] /\ key'[u] = key[u] /\ phase'[u] = phase[u] /\ reply'[u] = reply[u]
          /\ orphans' = orphans /\ phase[t] = "wait" /\ reply[t] # "none"
      BY <1>3 DEF Receive, Return, TypeOK
    <3> QED
      BY <2>2, <3>1 DEF Expected, StillExpected
  <2> QED
    BY <2>1, <2>2, AccountedSameQueue
<1>4. ASSUME NEW t \in Tasks, Timeout(t) PROVE SendersAccountedFor'
  <2>1. /\ requests' = requests /\ writing' \in {writing, None}
        /\ \A k \in Keys : outstanding'[k] \in {outstanding[k], None}
    BY <1>4 DEF Timeout, TypeOK
  <2>2. ASSUME NEW k, NEW s \in Ids, StillHeld(s), Expected(k, s) PROVE StillExpected(k, s)
    BY <1>4, <2>2 DEF Timeout, Expected, StillExpected, TypeOK
  <2> QED
    BY <2>1, <2>2, AccountedSameQueue
<1>5. ASSUME NEW t \in Tasks, SendCancel(t) PROVE SendersAccountedFor'
  <2> DEFINE r == [op |-> "cancel", key |-> key[t], slot |-> None]
  <2>1. UNCHANGED <<writing, outstanding>>
    BY <1>5 DEF SendCancel
  <2>2. CASE actor = "stopped"
    <3>1. requests' = << >> /\ writing = None /\ \A k \in Keys : outstanding[k] = None
      BY <1>5, <2>2, CancelFacts DEF ActorShape
    <3> QED
      BY <2>1, <3>1 DEF SendersAccountedFor
  <2>3. CASE actor # "stopped"
    <3>1. /\ Len(requests) \in Nat /\ Len(requests') = Len(requests) + 1 /\ requests'[Len(requests) + 1] = r
          /\ \A i \in 1 .. Len(requests) : requests'[i] = requests[i]
      BY <1>5, <2>3, CancelFacts
    <3>2. /\ \A u \in Tasks \ {t} : slot'[u] = slot[u] /\ key'[u] = key[u] /\ phase'[u] = phase[u] /\ reply'[u] = reply[u]
          /\ orphans' = orphans
      BY <1>5 DEF SendCancel, Return, TypeOK
    <3>3. ASSUME NEW k, NEW s \in Ids, Expected(k, s) PROVE StillExpected(k, s) \/ key[t] = k
      BY <3>2, <3>3 DEF Expected, StillExpected
    <3>4. r.op = "cancel" /\ r.key = key[t]
      OBVIOUS
    <3> HIDE DEF r
    <3> QED
      BY <2>1, <3>1, <3>3, <3>4, AccountedAppend
  <2> QED
    BY <2>2, <2>3
<1>6. ASSUME NEW c \in Callers, StartExchange(c) PROVE SendersAccountedFor'
  <2>1. /\ requests' = requests /\ writing' \in {writing, None}
        /\ \A k \in Keys : outstanding'[k] \in {outstanding[k], None}
    BY <1>6 DEF StartExchange, Begin, TypeOK
  <2>2. ASSUME NEW k, NEW s \in Ids, StillHeld(s), Expected(k, s) PROVE StillExpected(k, s)
    <3>1. PICK n \in Ids : ~InUse(n) /\ Begin(c, "exchange", n, n) /\ orphans' = orphans \ {n}
      BY <1>6 DEF StartExchange
    <3>2. /\ \A u \in Tasks \ {c} : slot'[u] = slot[u] /\ key'[u] = key[u] /\ phase'[u] = phase[u] /\ reply'[u] = reply[u]
          /\ phase[c] = "idle"
      BY <1>6, <3>1 DEF Begin, StartExchange, TypeOK
    <3>3. s # n
      BY <1>6, <2>1, <2>2, <3>1 DEF InUse, StillHeld
    <3> QED
      BY <2>2, <3>1, <3>2, <3>3 DEF Expected, StillExpected
  <2> QED
    BY <2>1, <2>2, AccountedSameQueue
<1>7. ASSUME NEW c \in Callers, StartUntagged(c) PROVE SendersAccountedFor'
  <2>1. /\ requests' = requests /\ writing' \in {writing, None}
        /\ \A k \in Keys : outstanding'[k] \in {outstanding[k], None}
    BY <1>7 DEF StartUntagged, Begin, TypeOK
  <2>2. ASSUME NEW k, NEW s \in Ids, StillHeld(s), Expected(k, s) PROVE StillExpected(k, s)
    <3>1. PICK n \in Ids : ~InUse(n) /\ Begin(c, "exchange", TypeKey, n) /\ orphans' = orphans \ {n}
      BY <1>7 DEF StartUntagged
    <3>2. /\ \A u \in Tasks \ {c} : slot'[u] = slot[u] /\ key'[u] = key[u] /\ phase'[u] = phase[u] /\ reply'[u] = reply[u]
          /\ phase[c] = "idle"
      BY <1>7, <3>1 DEF Begin, StartUntagged, TypeOK
    <3>3. s # n
      BY <1>7, <2>1, <2>2, <3>1 DEF InUse, StillHeld
    <3> QED
      BY <2>2, <3>1, <3>2, <3>3 DEF Expected, StillExpected
  <2> QED
    BY <2>1, <2>2, AccountedSameQueue
<1>8. ASSUME NEW c \in Callers, StartSend(c) PROVE SendersAccountedFor'
  <2>1. /\ requests' = requests /\ writing' \in {writing, None}
        /\ \A k \in Keys : outstanding'[k] \in {outstanding[k], None}
    BY <1>8 DEF StartSend, TypeOK
  <2>2. ASSUME NEW k, NEW s \in Ids, StillHeld(s), Expected(k, s) PROVE StillExpected(k, s)
    <3>1. /\ \A u \in Tasks \ {c} : slot'[u] = slot[u] /\ key'[u] = key[u] /\ phase'[u] = phase[u] /\ reply'[u] = reply[u]
          /\ phase[c] = "idle" /\ orphans' = orphans
      BY <1>8 DEF StartSend, Begin, TypeOK
    <3> QED
      BY <2>2, <3>1 DEF Expected, StillExpected
  <2> QED
    BY <2>1, <2>2, AccountedSameQueue
<1>9. ASSUME NEW c \in Callers, StartClose(c) PROVE SendersAccountedFor'
  <2>1. /\ requests' = requests /\ writing' \in {writing, None}
        /\ \A k \in Keys : outstanding'[k] \in {outstanding[k], None}
    BY <1>9 DEF StartClose, TypeOK
  <2>2. ASSUME NEW k, NEW s \in Ids, StillHeld(s), Expected(k, s) PROVE StillExpected(k, s)
    <3>1. /\ \A u \in Tasks \ {c} : slot'[u] = slot[u] /\ key'[u] = key[u] /\ phase'[u] = phase[u] /\ reply'[u] = reply[u]
          /\ phase[c] = "idle" /\ orphans' = orphans
      BY <1>9 DEF StartClose, Begin, TypeOK
    <3> QED
      BY <2>2, <3>1 DEF Expected, StillExpected
  <2> QED
    BY <2>1, <2>2, AccountedSameQueue
<1>10. ASSUME NEW c \in Callers, SubmitClose(c) PROVE SendersAccountedFor'
  <2> DEFINE r == [op |-> "shutdown", key |-> None, slot |-> c]
  <2>1. /\ Len(requests) \in Nat /\ Len(requests') = Len(requests) + 1 /\ requests'[Len(requests) + 1] = r
        /\ \A i \in 1 .. Len(requests) : requests'[i] = requests[i]
    BY <1>10, CloseFacts
  <2>2. UNCHANGED <<writing, outstanding>>
    BY <1>10 DEF SubmitClose
  <2>3. ASSUME NEW k, NEW s \in Ids, Expected(k, s) PROVE StillExpected(k, s)
    <3>1. /\ \A u \in Callers : slot'[u] = slot[u] /\ key'[u] = key[u] /\ reply'[u] = reply[u]
          /\ \A u \in Callers \ {c} : phase'[u] = phase[u]
          /\ phase[c] = "submit"
          /\ orphans \subseteq orphans'
          /\ phase[Heartbeat] \in {"wait", "giveup"} => slot[Heartbeat] \in orphans'
      BY <1>10 DEF SubmitClose, AbortHeartbeat, TypeOK
    <3> QED
      BY <2>3, <3>1 DEF Expected, StillExpected
  <2>4. r.op = "shutdown"
    OBVIOUS
  <2> HIDE DEF r
  <2> QED
    BY <2>1, <2>2, <2>3, <2>4, AccountedAppend
<1>11. ASSUME EnableHeartbeat PROVE SendersAccountedFor'
  <2>1. /\ requests' = requests /\ writing' \in {writing, None}
        /\ \A k \in Keys : outstanding'[k] \in {outstanding[k], None}
    BY <1>11 DEF EnableHeartbeat, TypeOK
  <2>2. ASSUME NEW k, NEW s \in Ids, StillHeld(s), Expected(k, s) PROVE StillExpected(k, s)
    <3>1. /\ \A u \in Callers : slot'[u] = slot[u] /\ key'[u] = key[u] /\ phase'[u] = phase[u] /\ reply'[u] = reply[u]
          /\ orphans \subseteq orphans'
          /\ phase[Heartbeat] \in {"wait", "giveup"} => slot[Heartbeat] \in orphans'
      BY <1>11 DEF EnableHeartbeat, AbortHeartbeat, TypeOK
    <3> QED
      BY <2>2, <3>1 DEF Expected, StillExpected
  <2> QED
    BY <2>1, <2>2, AccountedSameQueue
<1>12. ASSUME Beat PROVE SendersAccountedFor'
  <2>1. /\ requests' = requests /\ writing' \in {writing, None}
        /\ \A k \in Keys : outstanding'[k] \in {outstanding[k], None}
    BY <1>12 DEF Beat, Begin, TypeOK
  <2>2. ASSUME NEW k, NEW s \in Ids, StillHeld(s), Expected(k, s) PROVE StillExpected(k, s)
    <3>1. PICK n \in Ids : ~InUse(n) /\ Begin(Heartbeat, "exchange", n, n) /\ orphans' = orphans \ {n}
      BY <1>12 DEF Beat
    <3>2. /\ \A u \in Tasks \ {Heartbeat} : slot'[u] = slot[u] /\ key'[u] = key[u] /\ phase'[u] = phase[u] /\ reply'[u] = reply[u]
          /\ phase[Heartbeat] = "idle"
      BY <1>12, <3>1 DEF Begin, Beat, TypeOK, HeartbeatShape
    <3>3. s # n
      BY <1>12, <2>1, <2>2, <3>1 DEF InUse, StillHeld
    <3> QED
      BY <2>2, <3>1, <3>2, <3>3 DEF Expected, StillExpected
  <2> QED
    BY <2>1, <2>2, AccountedSameQueue
<1>13. ASSUME KillConnection PROVE SendersAccountedFor'
  <2> DEFINE r == [op |-> "shutdown", key |-> None, slot |-> None]
  <2>1. UNCHANGED <<writing, outstanding, phase, slot, key, reply, orphans>>
    BY <1>13 DEF KillConnection
  <2>2. CASE actor = "stopped"
    <3>1. requests' = << >> /\ writing = None /\ \A k \in Keys : outstanding[k] = None
      BY <1>13, <2>2, KillFacts DEF ActorShape
    <3> QED
      BY <2>1, <3>1 DEF SendersAccountedFor
  <2>3. CASE actor # "stopped"
    <3>1. /\ Len(requests) \in Nat /\ Len(requests') = Len(requests) + 1 /\ requests'[Len(requests) + 1] = r
          /\ \A i \in 1 .. Len(requests) : requests'[i] = requests[i]
      BY <1>13, <2>3, KillFacts
    <3>2. ASSUME NEW k, NEW s \in Ids, Expected(k, s) PROVE StillExpected(k, s)
      BY <2>1, <3>2 DEF Expected, StillExpected
    <3>3. r.op = "shutdown"
      OBVIOUS
    <3> HIDE DEF r
    <3> QED
      BY <2>1, <3>1, <3>2, <3>3, AccountedAppend
  <2> QED
    BY <2>2, <2>3
<1>14. ASSUME TakeWrite PROVE SendersAccountedFor'
  <2>1. /\ requests # << >> /\ requests' = Tail(requests) /\ writing = None
        /\ \/ writing' = None /\ Head(requests).op # "exchange"
           \/ writing' = Head(requests) /\ Head(requests).op # "cancel"
        /\ \A k \in Keys : outstanding'[k] \in {outstanding[k], None}
        /\ UNCHANGED <<phase, slot, key, orphans>>
    BY <1>14 DEF TakeWrite, Serving, TypeOK
  <2>2. Head(requests).op = "cancel" => outstanding'[Head(requests).key] = None
    BY <1>14 DEF TakeWrite
  <2>3. ASSUME NEW k, NEW s \in Ids, Expected(k, s) PROVE StillExpected(k, s)
    BY <1>14, <2>1, <2>3 DEF TakeWrite, Expected, StillExpected
  <2> QED
    BY <2>1, <2>2, <2>3, AccountedDequeue
<1>15. ASSUME WriteOk PROVE SendersAccountedFor'
  <2>1. /\ UNCHANGED <<requests, phase, slot, key, orphans>> /\ writing # None /\ writing' = None
    BY <1>15 DEF WriteOk
  <2>2. CASE writing.op = "exchange"
    <3>1. /\ outstanding' = [outstanding EXCEPT ![writing.key] = writing.slot]
          /\ Resolve(outstanding[writing.key], "replaced")
          /\ writing.key \in Keys /\ writing.slot \in Ids
      BY <1>15, <2>1, <2>2 DEF WriteOk, RequestShape, ExchangeShape
    <3>2. ASSUME NEW k, NEW s \in Ids, Expected(k, s),
           s # outstanding[writing.key] PROVE StillExpected(k, s)
      <4>1. \A u \in Tasks : slot[u] = s => reply'[u] = reply[u]
        BY <3>1, <3>2 DEF Resolve, Waits
      <4> QED
        BY <2>1, <3>2, <4>1 DEF Expected, StillExpected
    <3>3. ASSUME NEW i \in 1 .. Len(requests), requests[i].op = "exchange"
          PROVE  \/ StillExpected(requests[i].key, requests[i].slot)
                 \/ \E j \in i + 1 .. Len(requests) : requests[j].op = "cancel" /\ requests[j].key = requests[i].key
      <4>1. requests[i].slot \in Ids /\ requests[i].slot # outstanding[writing.key]
        BY <3>1, <3>3 DEF OneSender, RequestShape, ExchangeShape
      <4> QED
        BY <3>2, <3>3, <4>1 DEF SendersAccountedFor
    <3>4. StillExpected(writing.key, writing.slot) \/ CancelQueued(writing.key)
      BY <2>1, <2>2, <3>1, <3>2 DEF SendersAccountedFor, OneSender
    <3>5. ASSUME NEW k \in Keys \ {writing.key}, outstanding[k] # None
          PROVE  StillExpected(k, outstanding[k]) \/ CancelQueued(k)
      <4>1. outstanding[k] \in Ids /\ outstanding[k] # outstanding[writing.key]
        BY <3>1, <3>5 DEF OneSender, TypeOK
      <4> QED
        BY <3>2, <3>5, <4>1 DEF SendersAccountedFor
    <3>6. \A k \in Keys : outstanding'[k] = IF k = writing.key THEN writing.slot ELSE outstanding[k]
      BY <3>1 DEF TypeOK
    <3> QED
      BY <2>1, <3>3, <3>4, <3>5, <3>6 DEF SendersAccountedFor, CancelQueued, Expected, StillExpected
  <2>3. CASE writing.op # "exchange"
    <3>1. UNCHANGED outstanding /\ Resolve(writing.slot, "done") /\ writing.slot \notin Ids
      BY <1>15, <2>1, <2>3 DEF WriteOk, RequestShape
    <3>2. ASSUME NEW k, NEW s \in Ids, Expected(k, s) PROVE StillExpected(k, s)
      <4>1. \A u \in Tasks : slot[u] = s => reply'[u] = reply[u]
        BY <3>1, <3>2 DEF Resolve, Waits
      <4> QED
        BY <2>1, <3>2, <4>1 DEF Expected, StillExpected
    <3> QED
      BY <2>1, <3>1, <3>2, AccountedSameQueue
  <2> QED
    BY <2>2, <2>3
<1>16. ASSUME WriteFails PROVE SendersAccountedFor'
  <2>1. /\ requests' = requests /\ writing' \in {writing, None}
        /\ \A k \in Keys : outstanding'[k] \in {outstanding[k], None}
    BY <1>16 DEF WriteFails, TypeOK
  <2>2. ASSUME NEW k, NEW s \in Ids, StillHeld(s), Expected(k, s) PROVE StillExpected(k, s)
    <3>1. /\ phase' = phase /\ slot' = slot /\ key' = key /\ orphans' = orphans
          /\ \A u \in Tasks : slot[u] = s => reply'[u] = reply[u]
      <4>1. s # writing.slot
        BY <1>16, <2>1, <2>2 DEF WriteFails, OneSender, StillHeld, TypeOK
      <4> QED
        BY <1>16, <4>1 DEF WriteFails, Resolve, Waits, TypeOK
    <3> QED
      BY <2>2, <3>1 DEF Expected, StillExpected
  <2> QED
    BY <2>1, <2>2, AccountedSameQueue
<1>17. ASSUME ServeCancel PROVE SendersAccountedFor'
  <2>1. /\ requests # << >> /\ requests' = Tail(requests) /\ writing = None
        /\ \/ writing' = None /\ Head(requests).op # "exchange"
           \/ writing' = Head(requests) /\ Head(requests).op # "cancel"
        /\ \A k \in Keys : outstanding'[k] \in {outstanding[k], None}
        /\ UNCHANGED <<phase, slot, key, orphans>>
    BY <1>17 DEF ServeCancel, Serving, TypeOK
  <2>2. Head(requests).op = "cancel" => outstanding'[Head(requests).key] = None
    BY <1>17, DequeueFacts DEF ServeCancel, RequestShape, TypeOK
  <2>3. ASSUME NEW k, NEW s \in Ids, Expected(k, s) PROVE StillExpected(k, s)
    BY <1>17, <2>1, <2>3 DEF ServeCancel, Expected, StillExpected
  <2> QED
    BY <2>1, <2>2, <2>3, AccountedDequeue
<1>18. ASSUME ServeShutdown PROVE SendersAccountedFor'
  <2>1. /\ requests # << >> /\ requests' = Tail(requests) /\ writing = None
        /\ \/ writing' = None /\ Head(requests).op # "exchange"
           \/ writing' = Head(requests) /\ Head(requests).op # "cancel"
        /\ \A k \in Keys : outstanding'[k] \in {outstanding[k], None}
        /\ UNCHANGED <<phase, slot, key, orphans>>
    BY <1>18 DEF ServeShutdown, Serving, TypeOK
  <2>2. Head(requests).op = "cancel" => outstanding'[Head(requests).key] = None
    BY <1>18 DEF ServeShutdown
  <2>3. ASSUME NEW k, NEW s \in Ids, Expected(k, s) PROVE StillExpected(k, s)
    <3>1. Head(requests).slot # s
      BY <1>18, <2>1, DequeueFacts DEF ServeShutdown, RequestShape
    <3>2. \A u \in Tasks : slot[u] = s => reply'[u] = reply[u]
      BY <1>18, <3>1 DEF ServeShutdown, Resolve, Waits
    <3> QED
      BY <2>1, <2>3, <3>2 DEF Expected, StillExpected
  <2> QED
    BY <2>1, <2>2, <2>3, AccountedDequeue
<1>19. ASSUME Dispatch PROVE SendersAccountedFor'
  <2>1. /\ requests' = requests /\ writing' \in {writing, None}
        /\ \A k \in Keys : outstanding'[k] \in {outstanding[k], None}
    BY <1>19 DEF Dispatch, Serving, TypeOK
  <2>2. ASSUME NEW k, NEW s \in Ids, StillHeld(s), Expected(k, s) PROVE StillExpected(k, s)
    <3>1. /\ phase' = phase /\ slot' = slot /\ key' = key /\ orphans' = orphans
          /\ \A u \in Tasks : slot[u] = s => reply'[u] = reply[u]
      <4>1. CASE reply' = reply
        BY <1>19, <4>1 DEF Dispatch
      <4>2. CASE reply' # reply
        <5>1. PICK k0 \in Keys : /\ outstanding' = [outstanding EXCEPT ![k0] = None]
                                 /\ Resolve(outstanding[k0], "answer") \/ Resolve(outstanding[k0], "misanswer")
          BY <1>19, <4>2, DispatchFacts
        <5>2. s # outstanding[k0]
          BY <2>1, <2>2, <5>1, <1>19 DEF Dispatch, Serving, OneSender, StillHeld, TypeOK
        <5> QED
          BY <1>19, <5>1, <5>2 DEF Dispatch, Resolve, Waits, TypeOK
      <4> QED
        BY <4>1, <4>2
    <3> QED
      BY <2>2, <3>1 DEF Expected, StillExpected
  <2> QED
    BY <2>1, <2>2, AccountedSameQueue
<1>20. ASSUME ServeError PROVE SendersAccountedFor'
  BY <1>20 DEF ServeError, Serving, SendersAccountedFor, Expected, CancelQueued, TypeOK, CallShape,
       RequestShape, ExchangeShape
<1>21. ASSUME ServeEof PROVE SendersAccountedFor'
  BY <1>21 DEF ServeEof, Serving, SendersAccountedFor, Expected, CancelQueued, TypeOK, CallShape,
       RequestShape, ExchangeShape
<1>22. ASSUME Finish PROVE SendersAccountedFor'
  <2>1. /\ requests' = requests /\ writing' \in {writing, None}
        /\ \A k \in Keys : outstanding'[k] \in {outstanding[k], None}
    BY <1>22 DEF Finish, TypeOK
  <2>2. ASSUME NEW k, NEW s \in Ids, StillHeld(s), Expected(k, s) PROVE StillExpected(k, s)
    <3>1. /\ phase' = phase /\ slot' = slot /\ key' = key /\ orphans' = orphans
          /\ \A u \in Tasks : slot[u] = s => reply'[u] = reply[u]
      <4>1. \A j \in Keys : s # outstanding[j]
        BY SMTT(60), <1>22, <2>1, <2>2 DEF Finish, OneSender, StillHeld, TypeOK, ActorShape
      <4> QED
        BY <1>22, <4>1 DEF Finish, Waits, TypeOK
    <3> QED
      BY <2>2, <3>1 DEF Expected, StillExpected
  <2> QED
    BY <2>1, <2>2, AccountedSameQueue
<1>23. ASSUME DropActor PROVE SendersAccountedFor'
  <2>1. requests' = << >> /\ writing' = None /\ \A k \in Keys : outstanding'[k] = None
    BY <1>23 DEF DropActor, ActorShape
  <2> QED
    BY <2>1 DEF SendersAccountedFor
<1>24. ASSUME ReadAnswer PROVE SendersAccountedFor'
  BY <1>24 DEF ReadAnswer, Forward, SendersAccountedFor, Expected, CancelQueued, TypeOK, CallShape,
       RequestShape, ExchangeShape
<1>25. ASSUME ReadPush PROVE SendersAccountedFor'
  BY <1>25 DEF ReadPush, Forward, SendersAccountedFor, Expected, CancelQueued, TypeOK, CallShape,
       RequestShape, ExchangeShape
<1>26. ASSUME ReadEof PROVE SendersAccountedFor'
  BY <1>26 DEF ReadEof, SendersAccountedFor, Expected, CancelQueued, TypeOK, CallShape,
       RequestShape, ExchangeShape
<1>27. ASSUME ReadError PROVE SendersAccountedFor'
  BY <1>27 DEF ReadError, SendersAccountedFor, Expected, CancelQueued, TypeOK, CallShape,
       RequestShape, ExchangeShape
<1>28. ASSUME DeviceIgnore PROVE SendersAccountedFor'
  BY <1>28 DEF DeviceIgnore, SendersAccountedFor, Expected, CancelQueued, TypeOK, CallShape,
       RequestShape, ExchangeShape
<1>29. ASSUME DeviceFails PROVE SendersAccountedFor'
  BY <1>29 DEF DeviceFails, SendersAccountedFor, Expected, CancelQueued, TypeOK, CallShape,
       RequestShape, ExchangeShape
<1> QED
  BY <1>0, <1>1, <1>2, <1>3, <1>4, <1>5, <1>6, <1>7, <1>8, <1>9, <1>10, <1>11, <1>12, <1>13, <1>14,
       <1>15, <1>16, <1>17, <1>18, <1>19, <1>20, <1>21, <1>22, <1>23, <1>24, <1>25, <1>26, <1>27,
              <1>28, <1>29 DEF Next, CallStep, CallerStart, HeartbeatStep, ActorStep, ReaderStep,
                     DeviceStep

\* The sender of a waiting call is never lost on its way.
LEMMA ForgottenStep ==
  ASSUME TypeOK, CallShape, RequestShape, ActorShape, HeartbeatShape, OneReceiver, OneSender,
         SendersAgree, CancelsAreLate, NoCallerForgotten, [Next]_vars
  PROVE  NoCallerForgotten'
<1> USE TaskAssumption, KeyAssumption, BoundAssumption, StallAssumption
    DEF Tasks, Keys, Slots, callVars, actorVars, hbVars, deviceVars
<1>0. CASE UNCHANGED vars
  <2>1. UNCHANGED <<phase, reply, slot, key, requests, writing, outstanding>>
    BY <1>0 DEF vars
  <2> QED BY ONLY <2>1, NoCallerForgotten DEF NoCallerForgotten
<1>1. ASSUME NEW t \in Tasks, Submit(t) PROVE NoCallerForgotten'
  <2>1. /\ \A u \in Tasks \ {t} : phase'[u] = phase[u]
        /\ UNCHANGED <<slot, key, reply, writing, outstanding>>
    BY <1>1 DEF Submit, TypeOK
  <2>2. ASSUME NEW u \in Tasks, phase'[u] = "wait", reply'[u] = "none"
        PROVE  \/ \E i \in 1 .. Len(requests') : requests'[i].slot = slot'[u]
               \/ writing' # None /\ writing'.slot = slot'[u]
               \/ key'[u] # None /\ outstanding'[key'[u]] = slot'[u]
    <3>2. \A i \in 1 .. Len(requests) : i \in 1 .. Len(requests') /\ requests'[i] = requests[i]
      <4>1. Len(requests) \in Nat /\ \A i \in 1 .. Len(requests) : requests'[i] = requests[i]
        BY <1>1, SubmitFacts
      <4>2. Len(requests') = Len(requests) + 1
        BY <1>1, SubmitFacts
      <4> QED
        BY <4>1, <4>2
    <3>3. CASE u = t
      <4>1. Len(requests) \in Nat /\ Len(requests') = Len(requests) + 1
        BY <1>1, SubmitFacts
      <4>2. requests'[Len(requests) + 1] = [op |-> op[t], key |-> key[t], slot |-> slot[t]]
        BY <1>1, SubmitFacts
      <4> QED
        BY <2>1, <3>3, <4>1, <4>2
    <3>4. CASE u # t
      <4>1. \/ \E i \in 1 .. Len(requests) : requests[i].slot = slot[u]
            \/ writing # None /\ writing.slot = slot[u]
            \/ key[u] # None /\ outstanding[key[u]] = slot[u]
        BY <2>1, <2>2, <3>4 DEF NoCallerForgotten
      <4> QED
        BY <2>1, <3>2, <4>1
    <3> QED
      BY <3>3, <3>4
  <2> QED
    BY <2>2 DEF NoCallerForgotten
<1>2. ASSUME NEW t \in Tasks, SubmitFails(t) PROVE NoCallerForgotten'
  BY SMTT(60), <1>2 DEF SubmitFails, Return, BeatReturns, NoCallerForgotten, TypeOK, CallShape
<1>3. ASSUME NEW t \in Tasks, Receive(t) PROVE NoCallerForgotten'
  BY SMTT(60), <1>3 DEF Receive, Return, BeatReturns, NoCallerForgotten, TypeOK, CallShape
<1>4. ASSUME NEW t \in Tasks, Timeout(t) PROVE NoCallerForgotten'
  BY SMTT(60), <1>4 DEF Timeout, NoCallerForgotten, TypeOK, CallShape
<1>5. ASSUME NEW t \in Tasks, SendCancel(t) PROVE NoCallerForgotten'
  <2>1. /\ \A u \in Tasks \ {t} : slot'[u] = slot[u] /\ key'[u] = key[u] /\ phase'[u] = phase[u] /\ reply'[u] = reply[u]
        /\ phase'[t] = "idle" /\ UNCHANGED <<writing, outstanding>>
    BY <1>5 DEF SendCancel, Return, TypeOK
  <2>2. ASSUME NEW u \in Tasks, phase'[u] = "wait", reply'[u] = "none"
        PROVE  \/ \E i \in 1 .. Len(requests') : requests'[i].slot = slot'[u]
               \/ writing' # None /\ writing'.slot = slot'[u]
               \/ key'[u] # None /\ outstanding'[key'[u]] = slot'[u]
    <3>1. u # t
      BY <2>1, <2>2
    <3>2. \A i \in 1 .. Len(requests) : i \in 1 .. Len(requests') /\ requests'[i] = requests[i]
      <4>1. Len(requests) \in Nat /\ \A i \in 1 .. Len(requests) : requests'[i] = requests[i]
        BY <1>5, CancelFacts
      <4>2. Len(requests') = Len(requests) + 1 \/ (requests = << >> /\ requests' = << >>)
        BY <1>5, CancelFacts
      <4> QED
        BY <4>1, <4>2
    <3>3. \/ \E i \in 1 .. Len(requests) : requests[i].slot = slot[u]
          \/ writing # None /\ writing.slot = slot[u]
          \/ key[u] # None /\ outstanding[key[u]] = slot[u]
      BY <2>1, <2>2, <3>1 DEF NoCallerForgotten
    <3> QED
      BY <2>1, <3>1, <3>2, <3>3
  <2> QED
    BY <2>2 DEF NoCallerForgotten
<1>6. ASSUME NEW c \in Callers, StartExchange(c) PROVE NoCallerForgotten'
  BY <1>6 DEF StartExchange, Begin, NoCallerForgotten, TypeOK, CallShape
<1>7. ASSUME NEW c \in Callers, StartUntagged(c) PROVE NoCallerForgotten'
  BY <1>7 DEF StartUntagged, Begin, NoCallerForgotten, TypeOK, CallShape
<1>8. ASSUME NEW c \in Callers, StartSend(c) PROVE NoCallerForgotten'
  BY <1>8 DEF StartSend, Begin, NoCallerForgotten, TypeOK, CallShape
<1>9. ASSUME NEW c \in Callers, StartClose(c) PROVE NoCallerForgotten'
  BY <1>9 DEF StartClose, Begin, NoCallerForgotten, TypeOK, CallShape
<1>10. ASSUME NEW c \in Callers, SubmitClose(c) PROVE NoCallerForgotten'
  <2>1. /\ \A u \in Callers : slot'[u] = slot[u] /\ key'[u] = key[u] /\ reply'[u] = reply[u]
        /\ \A u \in Callers \ {c} : phase'[u] = phase[u]
        /\ phase'[Heartbeat] = "idle" /\ slot[c] = c
        /\ UNCHANGED <<writing, outstanding>>
    BY <1>10 DEF SubmitClose, AbortHeartbeat, TypeOK, CallShape
  <2>2. ASSUME NEW u \in Tasks, phase'[u] = "wait", reply'[u] = "none"
        PROVE  \/ \E i \in 1 .. Len(requests') : requests'[i].slot = slot'[u]
               \/ writing' # None /\ writing'.slot = slot'[u]
               \/ key'[u] # None /\ outstanding'[key'[u]] = slot'[u]
    <3>1. u \in Callers
      BY <2>1, <2>2
    <3>2. \A i \in 1 .. Len(requests) : i \in 1 .. Len(requests') /\ requests'[i] = requests[i]
      <4>1. Len(requests) \in Nat /\ \A i \in 1 .. Len(requests) : requests'[i] = requests[i]
        BY <1>10, CloseFacts
      <4>2. Len(requests') = Len(requests) + 1
        BY <1>10, CloseFacts
      <4> QED
        BY <4>1, <4>2
    <3>3. CASE u = c
      <4>1. Len(requests) \in Nat /\ Len(requests') = Len(requests) + 1
        BY <1>10, CloseFacts
      <4>2. requests'[Len(requests) + 1] = [op |-> "shutdown", key |-> None, slot |-> c]
        BY <1>10, CloseFacts
      <4> QED
        BY <2>1, <3>3, <4>1, <4>2
    <3>4. CASE u # c
      <4>1. \/ \E i \in 1 .. Len(requests) : requests[i].slot = slot[u]
            \/ writing # None /\ writing.slot = slot[u]
            \/ key[u] # None /\ outstanding[key[u]] = slot[u]
        BY <2>1, <2>2, <3>1, <3>4 DEF NoCallerForgotten
      <4> QED
        BY <2>1, <3>1, <3>2, <4>1
    <3> QED
      BY <3>3, <3>4
  <2> QED
    BY <2>2 DEF NoCallerForgotten
<1>11. ASSUME EnableHeartbeat PROVE NoCallerForgotten'
  BY <1>11 DEF EnableHeartbeat, AbortHeartbeat, NoCallerForgotten, TypeOK, CallShape
<1>12. ASSUME Beat PROVE NoCallerForgotten'
  BY <1>12 DEF Beat, Begin, NoCallerForgotten, TypeOK, CallShape
<1>13. ASSUME KillConnection PROVE NoCallerForgotten'
  <2>1. UNCHANGED <<writing, outstanding, phase, slot, key, reply>>
    BY <1>13 DEF KillConnection
  <2>2. ASSUME NEW u \in Tasks, phase'[u] = "wait", reply'[u] = "none"
        PROVE  \/ \E i \in 1 .. Len(requests') : requests'[i].slot = slot'[u]
               \/ writing' # None /\ writing'.slot = slot'[u]
               \/ key'[u] # None /\ outstanding'[key'[u]] = slot'[u]
    <3>2. /\ \A i \in 1 .. Len(requests) : i \in 1 .. Len(requests') /\ requests'[i] = requests[i]
      BY <1>13, KillFacts
    <3>3. \/ \E i \in 1 .. Len(requests) : requests[i].slot = slot[u]
          \/ writing # None /\ writing.slot = slot[u]
          \/ key[u] # None /\ outstanding[key[u]] = slot[u]
      BY <2>1, <2>2 DEF NoCallerForgotten
    <3> QED
      BY <2>1, <3>2, <3>3
  <2> QED
    BY <2>2 DEF NoCallerForgotten
<1>14. ASSUME TakeWrite PROVE NoCallerForgotten'
  <2>1. /\ requests # << >> /\ requests' = Tail(requests) /\ writing' = Head(requests)
        /\ UNCHANGED <<outstanding, phase, slot, key, reply>> /\ writing = None
    BY <1>14 DEF TakeWrite, Serving
  <2>2. ASSUME NEW u \in Tasks, phase'[u] = "wait", reply'[u] = "none"
        PROVE  \/ \E i \in 1 .. Len(requests') : requests'[i].slot = slot'[u]
               \/ writing' # None /\ writing'.slot = slot'[u]
               \/ key'[u] # None /\ outstanding'[key'[u]] = slot'[u]
    <3>2. ASSUME NEW i \in 1 .. Len(requests), i # 1
          PROVE  i - 1 \in 1 .. Len(requests') /\ requests'[i - 1] = requests[i]
      <4>1. i - 1 \in 1 .. Len(requests') /\ (i - 1) + 1 = i
        BY <2>1, <3>2, DequeueFacts
      <4> QED
        BY <2>1, <4>1, DequeueFacts
    <3>3. \/ \E i \in 1 .. Len(requests) : requests[i].slot = slot[u]
          \/ writing # None /\ writing.slot = slot[u]
          \/ key[u] # None /\ outstanding[key[u]] = slot[u]
      BY <2>1, <2>2 DEF NoCallerForgotten
    <3>4. writing' = requests[1] /\ writing' # None
      BY <2>1, DequeueFacts, NoneAssumption
    <3> QED
      BY ZenonT(60), <2>1, <3>2, <3>3, <3>4
  <2> QED
    BY <2>2 DEF NoCallerForgotten
<1>15. ASSUME WriteOk PROVE NoCallerForgotten'
  <2>1. /\ UNCHANGED <<requests, phase, slot, key>> /\ writing # None
        /\ \/ /\ writing.op = "exchange" /\ outstanding' = [outstanding EXCEPT ![writing.key] = writing.slot]
              /\ Resolve(outstanding[writing.key], "replaced")
           \/ writing.op # "exchange" /\ outstanding' = outstanding /\ Resolve(writing.slot, "done")
    BY <1>15 DEF WriteOk
  <2>2. ASSUME NEW u \in Tasks, phase'[u] = "wait", reply'[u] = "none"
        PROVE  \/ \E i \in 1 .. Len(requests') : requests'[i].slot = slot'[u]
               \/ writing' # None /\ writing'.slot = slot'[u]
               \/ key'[u] # None /\ outstanding'[key'[u]] = slot'[u]
    <3>1. reply[u] = "none"
      BY <2>1, <2>2 DEF Resolve
    <3>2. \/ \E i \in 1 .. Len(requests) : requests[i].slot = slot[u]
          \/ writing # None /\ writing.slot = slot[u]
          \/ key[u] # None /\ outstanding[key[u]] = slot[u]
      BY <2>1, <2>2, <3>1 DEF NoCallerForgotten
    <3>3. CASE writing.slot = slot[u]
      <4>1. writing.op = "exchange"
        BY <2>1, <2>2, <3>1, <3>3 DEF Resolve, Waits
      <4>2. writing.key = key[u] /\ writing.key \in Keys
        BY <2>1, <3>3, <4>1 DEF SendersAgree, Agrees, RequestShape, ExchangeShape
      <4> QED
        BY <2>1, <3>3, <4>1, <4>2 DEF TypeOK
    <3>4. CASE key[u] # None /\ outstanding[key[u]] = slot[u]
      <4>1. ~(writing.op = "exchange" /\ writing.key = key[u])
        BY <2>1, <2>2, <3>1, <3>4 DEF Resolve, Waits
      <4>2. key[u] \in Keys
        BY <3>4 DEF TypeOK
      <4> QED
        BY <2>1, <3>4, <4>1, <4>2 DEF TypeOK
    <3> QED
      BY <2>1, <3>2, <3>3, <3>4
  <2> QED
    BY <2>2 DEF NoCallerForgotten
<1>16. ASSUME WriteFails PROVE NoCallerForgotten'
  BY <1>16 DEF WriteFails, Resolve, Waits, NoCallerForgotten, TypeOK, CallShape
<1>17. ASSUME ServeCancel PROVE NoCallerForgotten'
  <2>1. /\ requests # << >> /\ requests' = Tail(requests) /\ Head(requests).op = "cancel"
        /\ outstanding' = [outstanding EXCEPT ![Head(requests).key] = None]
        /\ UNCHANGED <<writing, phase, slot, key, reply>> /\ writing = None
    BY <1>17 DEF ServeCancel, Serving
  <2>2. ASSUME NEW u \in Tasks, phase'[u] = "wait", reply'[u] = "none"
        PROVE  \/ \E i \in 1 .. Len(requests') : requests'[i].slot = slot'[u]
               \/ writing' # None /\ writing'.slot = slot'[u]
               \/ key'[u] # None /\ outstanding'[key'[u]] = slot'[u]
    <3>2. ASSUME NEW i \in 1 .. Len(requests), i # 1
          PROVE  i - 1 \in 1 .. Len(requests') /\ requests'[i - 1] = requests[i]
      <4>1. i - 1 \in 1 .. Len(requests') /\ (i - 1) + 1 = i
        BY <2>1, <3>2, DequeueFacts
      <4> QED
        BY <2>1, <4>1, DequeueFacts
    <3>3. \/ \E i \in 1 .. Len(requests) : requests[i].slot = slot[u]
          \/ writing # None /\ writing.slot = slot[u]
          \/ key[u] # None /\ outstanding[key[u]] = slot[u]
      BY <2>1, <2>2 DEF NoCallerForgotten
    <3>4. requests[1].op = "cancel" /\ requests[1].slot = None /\ Head(requests) = requests[1] /\ 1 \in 1 .. Len(requests)
      BY <2>1, DequeueFacts DEF RequestShape
    <3>5. phase[u] = "wait" /\ slot[u] \in Slots
      BY ZenonT(60), <2>1, <2>2 DEF CallShape, TypeOK
    <3>6. key[u] # None /\ outstanding[key[u]] = slot[u] => key[u] # requests[1].key
      BY <3>4, <3>5 DEF CancelsAreLate, Abandoned
    <3>7. CASE \E i \in 1 .. Len(requests) : requests[i].slot = slot[u]
      <4>1. PICK i \in 1 .. Len(requests) : requests[i].slot = slot[u]
        BY <3>7
      <4>2. i # 1
        BY <3>4, <3>5, <4>1
      <4> QED
        BY <2>1, <3>2, <4>1, <4>2
    <3>8. CASE key[u] # None /\ outstanding[key[u]] = slot[u]
      <4>1. key[u] \in Keys /\ key[u] # Head(requests).key
        BY <3>4, <3>6, <3>8 DEF TypeOK
      <4>2. outstanding'[key[u]] = slot[u]
        BY <2>1, <3>8, <4>1 DEF TypeOK
      <4> QED
        BY <2>1, <3>8, <4>2
    <3> QED
      BY <2>1, <3>3, <3>7, <3>8
  <2> QED
    BY <2>2 DEF NoCallerForgotten
<1>18. ASSUME ServeShutdown PROVE NoCallerForgotten'
  <2>1. /\ requests # << >> /\ requests' = Tail(requests) /\ Resolve(Head(requests).slot, "done")
        /\ UNCHANGED <<outstanding, writing, phase, slot, key>> /\ writing = None
    BY <1>18 DEF ServeShutdown, Serving
  <2>2. ASSUME NEW u \in Tasks, phase'[u] = "wait", reply'[u] = "none"
        PROVE  \/ \E i \in 1 .. Len(requests') : requests'[i].slot = slot'[u]
               \/ writing' # None /\ writing'.slot = slot'[u]
               \/ key'[u] # None /\ outstanding'[key'[u]] = slot'[u]
    <3>2. ASSUME NEW i \in 1 .. Len(requests), i # 1
          PROVE  i - 1 \in 1 .. Len(requests') /\ requests'[i - 1] = requests[i]
      <4>1. i - 1 \in 1 .. Len(requests') /\ (i - 1) + 1 = i
        BY <2>1, <3>2, DequeueFacts
      <4> QED
        BY <2>1, <4>1, DequeueFacts
    <3>3. reply[u] = "none" /\ slot[u] # requests[1].slot
      BY <2>1, <2>2, DequeueFacts DEF Resolve, Waits
    <3>4. \/ \E i \in 1 .. Len(requests) : requests[i].slot = slot[u]
          \/ writing # None /\ writing.slot = slot[u]
          \/ key[u] # None /\ outstanding[key[u]] = slot[u]
      BY <2>1, <2>2, <3>3 DEF NoCallerForgotten
    <3> QED
      BY ZenonT(60), <2>1, <3>2, <3>3, <3>4
  <2> QED
    BY <2>2 DEF NoCallerForgotten
<1>19. ASSUME Dispatch PROVE NoCallerForgotten'
  <2>1. UNCHANGED <<phase, key, slot, requests, writing>>
    BY <1>19 DEF Dispatch
  <2>2. CASE UNCHANGED <<outstanding, reply>>
    BY <2>1, <2>2 DEF NoCallerForgotten
  <2>3. ASSUME NEW k \in Keys, outstanding' = [outstanding EXCEPT ![k] = None],
               Resolve(outstanding[k], "answer") \/ Resolve(outstanding[k], "misanswer")
        PROVE  NoCallerForgotten'
    <3>1. ASSUME NEW t \in Tasks, phase[t] = "wait", reply'[t] = "none"
          PROVE  reply[t] = "none" /\ slot[t] # outstanding[k]
      BY <2>3, <3>1 DEF Resolve, Waits, TypeOK
    <3>2. ASSUME NEW t \in Tasks, key[t] # None, outstanding[key[t]] = slot[t], slot[t] # outstanding[k]
          PROVE  outstanding'[key[t]] = slot[t]
      BY <2>3, <3>2 DEF TypeOK
    <3> QED
      BY <2>1, <3>1, <3>2 DEF NoCallerForgotten
  <2> QED
    BY <1>19, <2>2, <2>3, DispatchFacts
<1>20. ASSUME ServeError PROVE NoCallerForgotten'
  BY <1>20 DEF ServeError, Serving, NoCallerForgotten, TypeOK, CallShape
<1>21. ASSUME ServeEof PROVE NoCallerForgotten'
  BY <1>21 DEF ServeEof, Serving, NoCallerForgotten, TypeOK, CallShape
<1>22. ASSUME Finish PROVE NoCallerForgotten'
  BY SMTT(60), <1>22 DEF Finish, Waits, NoCallerForgotten, TypeOK, CallShape
<1>23. ASSUME DropActor PROVE NoCallerForgotten'
  BY <1>23 DEF DropActor, Waits, NoCallerForgotten, TypeOK, CallShape
<1>24. ASSUME ReadAnswer PROVE NoCallerForgotten'
  BY <1>24 DEF ReadAnswer, Forward, NoCallerForgotten, TypeOK, CallShape
<1>25. ASSUME ReadPush PROVE NoCallerForgotten'
  BY <1>25 DEF ReadPush, Forward, NoCallerForgotten, TypeOK, CallShape
<1>26. ASSUME ReadEof PROVE NoCallerForgotten'
  BY <1>26 DEF ReadEof, NoCallerForgotten
<1>27. ASSUME ReadError PROVE NoCallerForgotten'
  BY <1>27 DEF ReadError, NoCallerForgotten, TypeOK, CallShape
<1>28. ASSUME DeviceIgnore PROVE NoCallerForgotten'
  BY <1>28 DEF DeviceIgnore, NoCallerForgotten, TypeOK, CallShape
<1>29. ASSUME DeviceFails PROVE NoCallerForgotten'
  BY SMTT(60), <1>29 DEF DeviceFails, NoCallerForgotten, TypeOK, CallShape
<1> QED
  BY <1>0, <1>1, <1>2, <1>3, <1>4, <1>5, <1>6, <1>7, <1>8, <1>9, <1>10, <1>11, <1>12, <1>13, <1>14,
       <1>15, <1>16, <1>17, <1>18, <1>19, <1>20, <1>21, <1>22, <1>23, <1>24, <1>25, <1>26, <1>27,
              <1>28, <1>29 DEF Next, CallStep, CallerStart, HeartbeatStep, ActorStep, ReaderStep,
                     DeviceStep

\* The only write that could evict a waiting call shares its key, and that takes two callers.
LEMMA ReplacedStep ==
  ASSUME TypeOK, CallShape, RequestShape, ActorShape, HeartbeatShape, OneReceiver, OneSender,
         SendersAgree, CancelsAreLate, SendersAccountedFor, NeverReplaced, [Next]_vars
  PROVE  NeverReplaced'
<1> USE TaskAssumption, KeyAssumption, BoundAssumption, StallAssumption
    DEF Tasks, Keys, Slots, callVars, actorVars, hbVars, deviceVars
<1>0. CASE UNCHANGED vars
  BY <1>0 DEF vars, NeverReplaced, TypeOK, CallShape
<1>1. ASSUME NEW t \in Tasks, Submit(t) PROVE NeverReplaced'
  <2>1. /\ phase' = [phase EXCEPT ![t] = "wait"] /\ phase[t] = "submit"
        /\ UNCHANGED <<op, key, slot, reply, writing, outstanding, actor, orphans>>
    BY <1>1 DEF Submit
  <2> QED
    BY <2>1, <1>1, SubmitFacts DEF NeverReplaced, TypeOK, CallShape
<1>2. ASSUME NEW t \in Tasks, SubmitFails(t) PROVE NeverReplaced'
  BY <1>2 DEF SubmitFails, Return, BeatReturns, NeverReplaced, TypeOK, CallShape
<1>3. ASSUME NEW t \in Tasks, Receive(t) PROVE NeverReplaced'
  BY <1>3 DEF Receive, Return, BeatReturns, NeverReplaced, TypeOK, CallShape
<1>4. ASSUME NEW t \in Tasks, Timeout(t) PROVE NeverReplaced'
  BY <1>4 DEF Timeout, NeverReplaced, TypeOK, CallShape
<1>5. ASSUME NEW t \in Tasks, SendCancel(t) PROVE NeverReplaced'
  <2>1. /\ phase' = [phase EXCEPT ![t] = "idle"] /\ phase[t] = "giveup"
        /\ op' = [op EXCEPT ![t] = "none"] /\ key' = [key EXCEPT ![t] = None]
        /\ slot' = [slot EXCEPT ![t] = None] /\ reply' = [reply EXCEPT ![t] = "none"]
        /\ UNCHANGED <<writing, outstanding, actor, orphans>>
    BY <1>5 DEF SendCancel, Return
  <2> QED
    BY <2>1, <1>5, CancelFacts DEF NeverReplaced, TypeOK, CallShape
<1>6. ASSUME NEW c \in Callers, StartExchange(c) PROVE NeverReplaced'
  BY <1>6 DEF StartExchange, Begin, NeverReplaced, TypeOK, CallShape
<1>7. ASSUME NEW c \in Callers, StartUntagged(c) PROVE NeverReplaced'
  BY <1>7 DEF StartUntagged, Begin, NeverReplaced, TypeOK, CallShape
<1>8. ASSUME NEW c \in Callers, StartSend(c) PROVE NeverReplaced'
  BY <1>8 DEF StartSend, Begin, NeverReplaced, TypeOK, CallShape
<1>9. ASSUME NEW c \in Callers, StartClose(c) PROVE NeverReplaced'
  BY <1>9 DEF StartClose, Begin, NeverReplaced, TypeOK, CallShape
<1>10. ASSUME NEW c \in Callers, SubmitClose(c) PROVE NeverReplaced'
  <2>1. /\ phase' = [phase EXCEPT ![c] = "wait", ![Heartbeat] = "idle"]
        /\ phase[c] = "submit" /\ op[c] = "close"
        /\ UNCHANGED <<writing, outstanding, actor>>
        /\ AbortHeartbeat
    BY <1>10 DEF SubmitClose
  <2> QED
    BY <2>1, <1>10, CloseFacts DEF NeverReplaced, TypeOK, CallShape, AbortHeartbeat
<1>11. ASSUME EnableHeartbeat PROVE NeverReplaced'
  BY <1>11 DEF EnableHeartbeat, AbortHeartbeat, NeverReplaced, TypeOK, CallShape
<1>12. ASSUME Beat PROVE NeverReplaced'
  BY <1>12 DEF Beat, Begin, NeverReplaced, TypeOK, CallShape
<1>13. ASSUME KillConnection PROVE NeverReplaced'
  <2>1. UNCHANGED <<phase, op, key, slot, reply, writing, outstanding, actor, orphans>>
    BY <1>13 DEF KillConnection
  <2> QED
    BY <2>1, <1>13, KillFacts DEF NeverReplaced, TypeOK, CallShape
<1>14. ASSUME TakeWrite PROVE NeverReplaced'
  <2>1. /\ writing' = Head(requests) /\ requests # << >> /\ requests' = Tail(requests)
        /\ Head(requests).op \in {"exchange", "send"} /\ actor = "serving" /\ writing = None
        /\ UNCHANGED <<phase, op, key, slot, reply, outstanding, actor, orphans>>
    BY <1>14 DEF TakeWrite, Serving
  <2>2. /\ Len(requests) \in Nat \ {0} /\ Len(requests') = Len(requests) - 1
        /\ writing' = requests[1] /\ writing' \in Request
        /\ \A i \in 1 .. Len(requests') : requests'[i] = requests[i + 1]
    BY <2>1, DequeueFacts
  <2> QED
    BY <2>1, <2>2 DEF NeverReplaced, TypeOK, CallShape
<1>15. ASSUME WriteOk PROVE NeverReplaced'
  <2>1. /\ UNCHANGED <<phase, slot, key>> /\ writing # None
    BY <1>15 DEF WriteOk
  <2>2. CASE writing.op # "exchange"
    BY <1>15, <2>2 DEF WriteOk, Resolve, Waits, NeverReplaced
  <2>3. CASE writing.op = "exchange"
    <3>1. Resolve(outstanding[writing.key], "replaced") /\ writing.key \in Keys /\ writing.slot \in Ids
      BY <1>15, <2>1, <2>3 DEF WriteOk, RequestShape, ExchangeShape
    <3>2. SUFFICES ASSUME NEW t \in Tasks, Waits(t, outstanding[writing.key]) PROVE FALSE
      BY <3>1, <3>2 DEF Resolve, NeverReplaced
    <3> DEFINE s == outstanding[writing.key]
    <3>3. s # None /\ s \in Ids /\ slot[t] = s
      BY <3>1, <3>2 DEF Waits, CallShape, TypeOK
    <3>4. s # writing.slot
      BY <2>1, <3>1, <3>3 DEF OneSender
    <3>5. writing.key = TypeKey
      BY <2>1, <2>3, <3>1, <3>3, <3>4 DEF RequestShape, ExchangeShape
    <3>6. key[t] = TypeKey
      BY <3>1, <3>3, <3>5 DEF SendersAgree, Agrees
    <3>7. CASE CancelQueued(TypeKey)
      BY <3>3, <3>5, <3>7 DEF CancelQueued, CancelsAreLate, Abandoned
    <3>8. CASE writing.slot \in orphans
      BY <2>1, <2>3, <3>5, <3>8 DEF SendersAgree, Agrees
    <3>9. CASE \E u \in Tasks : slot[u] = writing.slot /\ key[u] = TypeKey
      BY <3>3, <3>4, <3>6, <3>9 DEF OneReceiver
    <3> QED
      BY <2>1, <2>3, <3>5, <3>7, <3>8, <3>9 DEF SendersAccountedFor, Expected
  <2> QED
    BY <2>2, <2>3
<1>16. ASSUME WriteFails PROVE NeverReplaced'
  BY <1>16 DEF WriteFails, Resolve, Waits, NeverReplaced, TypeOK, CallShape
<1>17. ASSUME ServeCancel PROVE NeverReplaced'
  <2>1. /\ requests # << >> /\ requests' = Tail(requests)
        /\ Head(requests).op = "cancel" /\ actor = "serving" /\ writing = None
        /\ outstanding' = [outstanding EXCEPT ![Head(requests).key] = None]
        /\ UNCHANGED <<phase, op, key, slot, reply, writing, actor, orphans>>
    BY <1>17 DEF ServeCancel, Serving
  <2>2. /\ Len(requests) \in Nat \ {0} /\ Len(requests') = Len(requests) - 1
        /\ Head(requests) = requests[1] /\ requests[1].key \in Keys
        /\ \A i \in 1 .. Len(requests') : requests'[i] = requests[i + 1]
    BY <2>1, DequeueFacts DEF RequestShape
  <2> QED
    BY <2>1, <2>2 DEF NeverReplaced, TypeOK, CallShape
<1>18. ASSUME ServeShutdown PROVE NeverReplaced'
  <2>1. /\ requests # << >> /\ requests' = Tail(requests)
        /\ Head(requests).op = "shutdown" /\ actor = "serving" /\ writing = None
        /\ Resolve(Head(requests).slot, "done") /\ actor' = "stopping"
        /\ UNCHANGED <<phase, op, key, slot, writing, outstanding, orphans>>
    BY <1>18 DEF ServeShutdown, Serving
  <2>2. /\ Len(requests) \in Nat \ {0} /\ Len(requests') = Len(requests) - 1
        /\ Head(requests) = requests[1] /\ requests[1].slot \notin Ids
        /\ \A i \in 1 .. Len(requests') : requests'[i] = requests[i + 1]
    BY <2>1, DequeueFacts DEF RequestShape
  <2> QED
    BY <2>1, <2>2 DEF NeverReplaced, TypeOK, CallShape, Resolve, Waits
<1>19. ASSUME Dispatch PROVE NeverReplaced'
  <2>1. \A t \in Tasks : reply'[t] \in {reply[t], "answer", "misanswer"}
    BY <1>19, DispatchFacts DEF Resolve, TypeOK
  <2> QED
    BY <2>1 DEF NeverReplaced
<1>20. ASSUME ServeError PROVE NeverReplaced'
  BY <1>20 DEF ServeError, Serving, NeverReplaced, TypeOK, CallShape
<1>21. ASSUME ServeEof PROVE NeverReplaced'
  BY <1>21 DEF ServeEof, Serving, NeverReplaced, TypeOK, CallShape
<1>22. ASSUME Finish PROVE NeverReplaced'
  BY <1>22 DEF Finish, Waits, NeverReplaced, TypeOK, CallShape
<1>23. ASSUME DropActor PROVE NeverReplaced'
  BY <1>23 DEF DropActor, Waits, NeverReplaced, TypeOK, CallShape
<1>24. ASSUME ReadAnswer PROVE NeverReplaced'
  BY <1>24 DEF ReadAnswer, Forward, NeverReplaced, TypeOK, CallShape
<1>25. ASSUME ReadPush PROVE NeverReplaced'
  BY <1>25 DEF ReadPush, Forward, NeverReplaced, TypeOK, CallShape
<1>26. ASSUME ReadEof PROVE NeverReplaced'
  BY <1>26 DEF ReadEof, NeverReplaced, TypeOK, CallShape
<1>27. ASSUME ReadError PROVE NeverReplaced'
  BY <1>27 DEF ReadError, NeverReplaced, TypeOK, CallShape
<1>28. ASSUME DeviceIgnore PROVE NeverReplaced'
  BY <1>28 DEF DeviceIgnore, NeverReplaced, TypeOK, CallShape
<1>29. ASSUME DeviceFails PROVE NeverReplaced'
  BY <1>29 DEF DeviceFails, NeverReplaced, TypeOK, CallShape
<1> QED
  BY <1>0, <1>1, <1>2, <1>3, <1>4, <1>5, <1>6, <1>7, <1>8, <1>9, <1>10, <1>11, <1>12, <1>13, <1>14,
       <1>15, <1>16, <1>17, <1>18, <1>19, <1>20, <1>21, <1>22, <1>23, <1>24, <1>25, <1>26, <1>27,
              <1>28, <1>29 DEF Next, CallStep, CallerStart, HeartbeatStep, ActorStep, ReaderStep,
                     DeviceStep

\* The reader adds at most one message behind the others.
LEMMA ForwardFacts ==
  ASSUME TypeOK, NEW m \in Inbound, Forward(m)
  PROVE  \/ UNCHANGED inbound
         \/ /\ Len(inbound) \in Nat /\ Len(inbound') = Len(inbound) + 1
            /\ \A i \in 1 .. Len(inbound) : inbound'[i] = inbound[i]
            /\ inbound'[Len(inbound) + 1] = m
<1>1. CASE actor = "stopped"
  BY <1>1 DEF Forward
<1>2. CASE actor # "stopped"
  <2>1. inbound' = Append(inbound, m) /\ inbound \in Seq(Inbound)
    BY <1>2 DEF Forward, TypeOK
  <2> QED
    BY <2>1, AppendFacts
<1> QED
  BY <1>1, <1>2

\* Until an untagged exchange times out none is given up, and no Cancel strikes their key.
LEMMA NoneLapsedStep ==
  ASSUME TypeOK, CallShape, RequestShape, ActorShape, NoneLapsed, [Next]_vars
  PROVE  NoneLapsed'
<1> USE TaskAssumption, KeyAssumption DEF Tasks, Keys, callVars, actorVars, hbVars, deviceVars
<1>0. CASE UNCHANGED vars
  BY <1>0 DEF vars, NoneLapsed, CancelQueued
<1>1. ASSUME NEW t \in Tasks, Submit(t) PROVE NoneLapsed'
  <2>1. \A i \in 1 .. Len(requests') : requests'[i].op = "cancel" =>
          i \in 1 .. Len(requests) /\ requests'[i] = requests[i]
    BY <1>1, SubmitQueue, SubmitFacts
  <2>2. \A t1 \in Tasks : phase'[t1] = "giveup" => phase[t1] = "giveup" /\ key'[t1] = key[t1]
    BY <1>1 DEF Submit, TypeOK
  <2> QED
    BY <1>1, <2>1, <2>2 DEF Submit, NoneLapsed, CancelQueued
<1>2. ASSUME NEW t \in Tasks, SubmitFails(t) PROVE NoneLapsed'
  BY <1>2 DEF SubmitFails, Return, BeatReturns, NoneLapsed, CancelQueued, TypeOK
<1>3. ASSUME NEW t \in Tasks, Receive(t) PROVE NoneLapsed'
  BY <1>3 DEF Receive, Return, BeatReturns, NoneLapsed, CancelQueued, TypeOK
<1>4. ASSUME NEW t \in Tasks, Timeout(t) PROVE NoneLapsed'
  BY <1>4 DEF Timeout, NoneLapsed, CancelQueued, TypeOK
<1>5. ASSUME NEW t \in Tasks, SendCancel(t) PROVE NoneLapsed'
  <2>1. key[t] = TypeKey => lapsed
    BY <1>5 DEF SendCancel, NoneLapsed
  <2>2. \A i \in 1 .. Len(requests') :
          requests'[i].key = key[t] \/ (i \in 1 .. Len(requests) /\ requests'[i] = requests[i])
    BY <1>5, CancelQueue
  <2>3. \A t1 \in Tasks : phase'[t1] = "giveup" => phase[t1] = "giveup" /\ key'[t1] = key[t1]
    BY <1>5 DEF SendCancel, Return, TypeOK
  <2> QED
    BY <1>5, <2>1, <2>2, <2>3 DEF SendCancel, NoneLapsed, CancelQueued
<1>6. ASSUME NEW c \in Callers, StartExchange(c) PROVE NoneLapsed'
  BY <1>6 DEF StartExchange, Begin, NoneLapsed, CancelQueued, TypeOK
<1>7. ASSUME NEW c \in Callers, StartUntagged(c) PROVE NoneLapsed'
  BY <1>7 DEF StartUntagged, Begin, NoneLapsed, CancelQueued, TypeOK
<1>8. ASSUME NEW c \in Callers, StartSend(c) PROVE NoneLapsed'
  BY <1>8 DEF StartSend, Begin, NoneLapsed, CancelQueued, TypeOK
<1>9. ASSUME NEW c \in Callers, StartClose(c) PROVE NoneLapsed'
  BY <1>9 DEF StartClose, Begin, NoneLapsed, CancelQueued, TypeOK
<1>10. ASSUME NEW c \in Callers, SubmitClose(c) PROVE NoneLapsed'
  <2>1. \A i \in 1 .. Len(requests') : requests'[i].op = "cancel" =>
          i \in 1 .. Len(requests) /\ requests'[i] = requests[i]
    BY <1>10, CloseQueue
  <2>2. \A t1 \in Tasks : phase'[t1] = "giveup" => phase[t1] = "giveup" /\ key'[t1] = key[t1]
    BY <1>10 DEF SubmitClose, AbortHeartbeat, TypeOK
  <2> QED
    BY <1>10, <2>1, <2>2 DEF SubmitClose, NoneLapsed, CancelQueued
<1>11. ASSUME EnableHeartbeat PROVE NoneLapsed'
  BY <1>11 DEF EnableHeartbeat, AbortHeartbeat, NoneLapsed, CancelQueued, TypeOK
<1>12. ASSUME Beat PROVE NoneLapsed'
  BY <1>12 DEF Beat, Begin, NoneLapsed, CancelQueued, TypeOK
<1>13. ASSUME KillConnection PROVE NoneLapsed'
  <2>1. \A i \in 1 .. Len(requests') : requests'[i].op = "cancel" =>
          i \in 1 .. Len(requests) /\ requests'[i] = requests[i]
    BY <1>13, KillQueue
  <2>2. \A t1 \in Tasks : phase'[t1] = "giveup" => phase[t1] = "giveup" /\ key'[t1] = key[t1]
    BY <1>13 DEF KillConnection, TypeOK
  <2> QED
    BY <1>13, <2>1, <2>2 DEF KillConnection, NoneLapsed, CancelQueued
<1>14. ASSUME TakeWrite PROVE NoneLapsed'
  <2>1. \A i \in 1 .. Len(requests') : i + 1 \in 1 .. Len(requests) /\ requests'[i] = requests[i + 1]
    BY <1>14, DequeueFacts DEF TakeWrite
  <2> QED
    BY <1>14, <2>1 DEF TakeWrite, NoneLapsed, CancelQueued
<1>15. ASSUME WriteOk PROVE NoneLapsed'
  BY <1>15 DEF WriteOk, NoneLapsed, CancelQueued, TypeOK
<1>16. ASSUME WriteFails PROVE NoneLapsed'
  BY <1>16 DEF WriteFails, NoneLapsed, CancelQueued, TypeOK
<1>17. ASSUME ServeCancel PROVE NoneLapsed'
  <2>1. \A i \in 1 .. Len(requests') : i + 1 \in 1 .. Len(requests) /\ requests'[i] = requests[i + 1]
    BY <1>17, DequeueFacts DEF ServeCancel
  <2> QED
    BY <1>17, <2>1 DEF ServeCancel, NoneLapsed, CancelQueued
<1>18. ASSUME ServeShutdown PROVE NoneLapsed'
  <2>1. \A i \in 1 .. Len(requests') : i + 1 \in 1 .. Len(requests) /\ requests'[i] = requests[i + 1]
    BY <1>18, DequeueFacts DEF ServeShutdown
  <2> QED
    BY <1>18, <2>1 DEF ServeShutdown, NoneLapsed, CancelQueued
<1>19. ASSUME Dispatch PROVE NoneLapsed'
  BY <1>19 DEF Dispatch, NoneLapsed, CancelQueued, TypeOK
<1>20. ASSUME ServeError PROVE NoneLapsed'
  BY <1>20 DEF ServeError, NoneLapsed, CancelQueued, TypeOK
<1>21. ASSUME ServeEof PROVE NoneLapsed'
  BY <1>21 DEF ServeEof, NoneLapsed, CancelQueued, TypeOK
<1>22. ASSUME Finish PROVE NoneLapsed'
  BY <1>22 DEF Finish, NoneLapsed, CancelQueued, TypeOK
<1>23. ASSUME DropActor PROVE NoneLapsed'
  BY <1>23 DEF DropActor, NoneLapsed, CancelQueued
<1>24. ASSUME ReadAnswer PROVE NoneLapsed'
  BY <1>24 DEF ReadAnswer, NoneLapsed, CancelQueued, TypeOK
<1>25. ASSUME ReadPush PROVE NoneLapsed'
  BY <1>25 DEF ReadPush, NoneLapsed, CancelQueued, TypeOK
<1>26. ASSUME ReadEof PROVE NoneLapsed'
  BY <1>26 DEF ReadEof, NoneLapsed, CancelQueued, TypeOK
<1>27. ASSUME ReadError PROVE NoneLapsed'
  BY <1>27 DEF ReadError, NoneLapsed, CancelQueued, TypeOK
<1>28. ASSUME DeviceIgnore PROVE NoneLapsed'
  BY <1>28 DEF DeviceIgnore, NoneLapsed, CancelQueued, TypeOK
<1>29. ASSUME DeviceFails PROVE NoneLapsed'
  BY <1>29 DEF DeviceFails, NoneLapsed, CancelQueued, TypeOK
<1> QED
  BY <1>0, <1>1, <1>2, <1>3, <1>4, <1>5, <1>6, <1>7, <1>8, <1>9, <1>10, <1>11, <1>12, <1>13, <1>14,
       <1>15, <1>16, <1>17, <1>18, <1>19, <1>20, <1>21, <1>22, <1>23, <1>24, <1>25, <1>26, <1>27,
       <1>28, <1>29 DEF Next, CallStep, CallerStart, HeartbeatStep, ActorStep, ReaderStep, DeviceStep

\* An untagged exchange that is written finds the table free, as long as none has timed out.
LEMMA UntaggedFindsRoom ==
  ASSUME TypeOK, RequestShape, OneReceiver, OneSender, SendersAgree, SendersAccountedFor, NoneLapsed,
         ~lapsed, writing # None, writing.op = "exchange", writing.key = TypeKey
  PROVE  outstanding[TypeKey] = None
<1> USE KeyAssumption DEF Keys
<1>1. SUFFICES ASSUME outstanding[TypeKey] # None PROVE FALSE
  OBVIOUS
<1>2. Expected(TypeKey, writing.slot) /\ Expected(TypeKey, outstanding[TypeKey])
  BY <1>1 DEF SendersAccountedFor, NoneLapsed
<1>3. writing.slot \notin orphans /\ outstanding[TypeKey] \notin orphans
  BY <1>1 DEF SendersAgree, Agrees
<1>4. PICK t \in Tasks : slot[t] = writing.slot /\ key[t] = TypeKey
  BY <1>2, <1>3 DEF Expected
<1>5. PICK u \in Tasks : slot[u] = outstanding[TypeKey] /\ key[u] = TypeKey
  BY <1>2, <1>3 DEF Expected
<1>6. t = u
  BY <1>4, <1>5 DEF OneReceiver
<1>7. writing.slot \in Ids
  BY DEF RequestShape, ExchangeShape
<1> QED
  BY <1>4, <1>5, <1>6, <1>7 DEF OneSender

\* The answers on their way bear the name of their exchange.
LEMMA NamedAnswersStep ==
  ASSUME TypeOK, RequestShape, NamedAnswers, [Next]_vars
  PROVE  NamedAnswers'
<1> USE TaskAssumption, KeyAssumption DEF Tasks, Keys, callVars, actorVars, hbVars, deviceVars
<1>0. CASE UNCHANGED vars
  BY <1>0 DEF vars, NamedAnswers, Untagged
<1>1. ASSUME NEW t \in Tasks, Submit(t) PROVE NamedAnswers'
  BY <1>1 DEF Submit, NamedAnswers
<1>2. ASSUME NEW t \in Tasks, SubmitFails(t) PROVE NamedAnswers'
  BY <1>2 DEF SubmitFails, NamedAnswers
<1>3. ASSUME NEW t \in Tasks, Receive(t) PROVE NamedAnswers'
  BY <1>3 DEF Receive, NamedAnswers
<1>4. ASSUME NEW t \in Tasks, Timeout(t) PROVE NamedAnswers'
  BY <1>4 DEF Timeout, NamedAnswers
<1>5. ASSUME NEW t \in Tasks, SendCancel(t) PROVE NamedAnswers'
  BY <1>5 DEF SendCancel, NamedAnswers
<1>6. ASSUME NEW c \in Callers, StartExchange(c) PROVE NamedAnswers'
  BY <1>6 DEF StartExchange, NamedAnswers
<1>7. ASSUME NEW c \in Callers, StartUntagged(c) PROVE NamedAnswers'
  BY <1>7 DEF StartUntagged, NamedAnswers
<1>8. ASSUME NEW c \in Callers, StartSend(c) PROVE NamedAnswers'
  BY <1>8 DEF StartSend, NamedAnswers
<1>9. ASSUME NEW c \in Callers, StartClose(c) PROVE NamedAnswers'
  BY <1>9 DEF StartClose, NamedAnswers
<1>10. ASSUME NEW c \in Callers, SubmitClose(c) PROVE NamedAnswers'
  BY <1>10 DEF SubmitClose, NamedAnswers
<1>11. ASSUME EnableHeartbeat PROVE NamedAnswers'
  BY <1>11 DEF EnableHeartbeat, NamedAnswers
<1>12. ASSUME Beat PROVE NamedAnswers'
  BY <1>12 DEF Beat, NamedAnswers
<1>13. ASSUME KillConnection PROVE NamedAnswers'
  BY <1>13 DEF KillConnection, NamedAnswers
<1>14. ASSUME TakeWrite PROVE NamedAnswers'
  BY <1>14 DEF TakeWrite, NamedAnswers
<1>15. ASSUME WriteOk PROVE NamedAnswers'
  <2>1. \A a \in accepted' : a \in accepted \/ a = [key |-> writing.key, slot |-> writing.slot]
    BY <1>15 DEF WriteOk
  <2>2. writing.op = "exchange" => (writing.key \in Ids => writing.slot = writing.key) /\ writing.key \in Keys
    BY <1>15 DEF WriteOk, RequestShape, ExchangeShape
  <2> QED
    BY <1>15, <2>1, <2>2 DEF WriteOk, NamedAnswers, Untagged
<1>16. ASSUME WriteFails PROVE NamedAnswers'
  BY <1>16 DEF WriteFails, NamedAnswers
<1>17. ASSUME ServeCancel PROVE NamedAnswers'
  BY <1>17 DEF ServeCancel, NamedAnswers
<1>18. ASSUME ServeShutdown PROVE NamedAnswers'
  BY <1>18 DEF ServeShutdown, NamedAnswers
<1>19. ASSUME Dispatch PROVE NamedAnswers'
  <2>1. \A i \in 1 .. Len(inbound') : i + 1 \in 1 .. Len(inbound) /\ inbound'[i] = inbound[i + 1]
    BY <1>19, TailFacts DEF Dispatch, TypeOK
  <2> QED
    BY <1>19, <2>1 DEF Dispatch, NamedAnswers
<1>20. ASSUME ServeError PROVE NamedAnswers'
  <2>1. \A i \in 1 .. Len(inbound') : i + 1 \in 1 .. Len(inbound) /\ inbound'[i] = inbound[i + 1]
    BY <1>20, TailFacts DEF ServeError, TypeOK
  <2> QED
    BY <1>20, <2>1 DEF ServeError, NamedAnswers
<1>21. ASSUME ServeEof PROVE NamedAnswers'
  BY <1>21 DEF ServeEof, NamedAnswers
<1>22. ASSUME Finish PROVE NamedAnswers'
  BY <1>22 DEF Finish, NamedAnswers
<1>23. ASSUME DropActor PROVE NamedAnswers'
  BY <1>23 DEF DropActor, NamedAnswers
<1>24. ASSUME ReadAnswer PROVE NamedAnswers'
  <2>1. PICK a \in accepted : /\ Forward([kind |-> "message", key |-> a.key, slot |-> a.slot])
                               /\ accepted' = accepted \ {a}
    BY <1>24 DEF ReadAnswer
  <2>2. [kind |-> "message", key |-> a.key, slot |-> a.slot] \in Inbound
    BY <2>1 DEF Inbound, TypeOK, Asked
  <2>3. a.slot # None /\ (a.key \in Ids => a.slot = a.key)
    BY DEF NamedAnswers, Untagged, TypeOK, Asked
  <2> QED
    BY <2>1, <2>2, <2>3, ForwardFacts DEF NamedAnswers
<1>25. ASSUME ReadPush PROVE NamedAnswers'
  <2>1. [kind |-> "message", key |-> None, slot |-> None] \in Inbound
    BY DEF Inbound
  <2> QED
    BY <1>25, <2>1, ForwardFacts DEF ReadPush, NamedAnswers
<1>26. ASSUME ReadEof PROVE NamedAnswers'
  BY <1>26 DEF ReadEof, NamedAnswers
<1>27. ASSUME ReadError PROVE NamedAnswers'
  <2>1. CASE actor = "stopped"
    BY <1>27, <2>1 DEF ReadError, NamedAnswers
  <2>2. CASE actor # "stopped"
    <3>1. [kind |-> "error", key |-> None, slot |-> None] \in Inbound
      BY DEF Inbound
    <3>2. inbound' = Append(inbound, [kind |-> "error", key |-> None, slot |-> None]) /\ accepted' = accepted
      BY <1>27, <2>2 DEF ReadError
    <3>3. \A i \in 1 .. Len(inbound') : inbound'[i].key # None =>
            i \in 1 .. Len(inbound) /\ inbound'[i] = inbound[i]
      BY <3>1, <3>2, AppendFacts DEF TypeOK
    <3> QED
      BY <3>2, <3>3 DEF NamedAnswers
  <2> QED
    BY <2>1, <2>2
<1>28. ASSUME DeviceIgnore PROVE NamedAnswers'
  BY <1>28 DEF DeviceIgnore, NamedAnswers
<1>29. ASSUME DeviceFails PROVE NamedAnswers'
  BY <1>29 DEF DeviceFails, NamedAnswers
<1> QED
  BY <1>0, <1>1, <1>2, <1>3, <1>4, <1>5, <1>6, <1>7, <1>8, <1>9, <1>10, <1>11, <1>12, <1>13, <1>14,
       <1>15, <1>16, <1>17, <1>18, <1>19, <1>20, <1>21, <1>22, <1>23, <1>24, <1>25, <1>26, <1>27,
       <1>28, <1>29 DEF Next, CallStep, CallerStart, HeartbeatStep, ActorStep, ReaderStep, DeviceStep

\* As long as none has timed out, the untagged answer on its way is the one the table waits for.
LEMMA OneAnswerDueStep ==
  ASSUME TypeOK, RequestShape, ActorShape, OneReceiver, OneSender, SendersAgree,
         SendersAccountedFor, NamedAnswers, NoneLapsed, OneAnswerDue, [Next]_vars
  PROVE  OneAnswerDue'
<1> USE TaskAssumption, KeyAssumption DEF Tasks, Keys, callVars, actorVars, hbVars, deviceVars
<1>0. CASE UNCHANGED vars
  BY <1>0 DEF vars, OneAnswerDue, Untagged
<1>1. ASSUME NEW t \in Tasks, Submit(t) PROVE OneAnswerDue'
  BY <1>1 DEF Submit, OneAnswerDue, Untagged
<1>2. ASSUME NEW t \in Tasks, SubmitFails(t) PROVE OneAnswerDue'
  BY <1>2 DEF SubmitFails, OneAnswerDue, Untagged
<1>3. ASSUME NEW t \in Tasks, Receive(t) PROVE OneAnswerDue'
  BY <1>3 DEF Receive, OneAnswerDue, Untagged
<1>4. ASSUME NEW t \in Tasks, Timeout(t) PROVE OneAnswerDue'
  BY <1>4 DEF Timeout, OneAnswerDue, Untagged
<1>5. ASSUME NEW t \in Tasks, SendCancel(t) PROVE OneAnswerDue'
  BY <1>5 DEF SendCancel, OneAnswerDue, Untagged
<1>6. ASSUME NEW c \in Callers, StartExchange(c) PROVE OneAnswerDue'
  BY <1>6 DEF StartExchange, OneAnswerDue, Untagged
<1>7. ASSUME NEW c \in Callers, StartUntagged(c) PROVE OneAnswerDue'
  BY <1>7 DEF StartUntagged, OneAnswerDue, Untagged
<1>8. ASSUME NEW c \in Callers, StartSend(c) PROVE OneAnswerDue'
  BY <1>8 DEF StartSend, OneAnswerDue, Untagged
<1>9. ASSUME NEW c \in Callers, StartClose(c) PROVE OneAnswerDue'
  BY <1>9 DEF StartClose, OneAnswerDue, Untagged
<1>10. ASSUME NEW c \in Callers, SubmitClose(c) PROVE OneAnswerDue'
  BY <1>10 DEF SubmitClose, OneAnswerDue, Untagged
<1>11. ASSUME EnableHeartbeat PROVE OneAnswerDue'
  BY <1>11 DEF EnableHeartbeat, OneAnswerDue, Untagged
<1>12. ASSUME Beat PROVE OneAnswerDue'
  BY <1>12 DEF Beat, OneAnswerDue, Untagged
<1>13. ASSUME KillConnection PROVE OneAnswerDue'
  BY <1>13 DEF KillConnection, OneAnswerDue, Untagged
<1>14. ASSUME TakeWrite PROVE OneAnswerDue'
  BY <1>14 DEF TakeWrite, OneAnswerDue, Untagged
<1>15. ASSUME WriteOk PROVE OneAnswerDue'
  <2>1. SUFFICES ASSUME ~lapsed, actor = "serving" PROVE OneAnswerDue'
    BY <1>15 DEF WriteOk, OneAnswerDue
  <2>2. inbound' = inbound /\ writing # None
    BY <1>15 DEF WriteOk
  <2>3. CASE writing.op = "exchange" /\ writing.key = TypeKey
    <3>1. outstanding[TypeKey] = None
      BY <2>1, <2>2, <2>3, UntaggedFindsRoom
    <3>2. \A a \in accepted : ~Untagged(a)
      BY <2>1, <3>1 DEF OneAnswerDue, TypeOK, Asked
    <3>3. \A i \in 1 .. Len(inbound) : ~Untagged(inbound[i])
      <4>1. SUFFICES ASSUME NEW i \in 1 .. Len(inbound), Untagged(inbound[i]) PROVE FALSE
        OBVIOUS
      <4>2. inbound[i].slot = None /\ inbound[i].key = TypeKey
        BY <2>1, <3>1, <4>1 DEF OneAnswerDue, Untagged
      <4> QED
        BY <4>2 DEF NamedAnswers
    <3>4. outstanding'[TypeKey] = writing.slot
      BY <1>15, <2>3 DEF WriteOk, TypeOK
    <3>5. \A a \in accepted' : a \in accepted \/ a = [key |-> writing.key, slot |-> writing.slot]
      BY <1>15 DEF WriteOk
    <3> QED
      BY <2>2, <3>2, <3>3, <3>4, <3>5 DEF OneAnswerDue, Untagged
  <2>4. CASE ~(writing.op = "exchange" /\ writing.key = TypeKey)
    <3>1. outstanding'[TypeKey] = outstanding[TypeKey]
      BY <1>15, <2>4 DEF WriteOk, TypeOK, RequestShape, ExchangeShape
    <3>2. \A a \in accepted' : a \in accepted \/ a.key # TypeKey
      BY <1>15, <2>4 DEF WriteOk
    <3> QED
      BY <2>1, <2>2, <3>1, <3>2 DEF OneAnswerDue, Untagged
  <2> QED
    BY <2>3, <2>4
<1>16. ASSUME WriteFails PROVE OneAnswerDue'
  BY <1>16 DEF WriteFails, OneAnswerDue, Untagged
<1>17. ASSUME ServeCancel PROVE OneAnswerDue'
  <2>1. /\ requests # << >> /\ Head(requests) = requests[1] /\ Len(requests) \in Nat \ {0}
        /\ requests[1].op = "cancel" /\ UNCHANGED <<actor, inbound, accepted, lapsed>>
        /\ outstanding' = [outstanding EXCEPT ![requests[1].key] = None]
    BY <1>17, DequeueFacts DEF ServeCancel
  <2>2. ~lapsed => requests[1].key # TypeKey
    BY <2>1 DEF NoneLapsed, CancelQueued
  <2>3. ~lapsed => outstanding'[TypeKey] = outstanding[TypeKey]
    BY <2>1, <2>2 DEF TypeOK
  <2> QED
    BY <2>1, <2>3 DEF OneAnswerDue, Untagged
<1>18. ASSUME ServeShutdown PROVE OneAnswerDue'
  BY <1>18 DEF ServeShutdown, OneAnswerDue
<1>19. ASSUME Dispatch PROVE OneAnswerDue'
  <2>1. /\ UNCHANGED <<actor, accepted, lapsed>> /\ Head(inbound) = inbound[1]
        /\ Len(inbound) \in Nat \ {0} /\ Len(inbound') = Len(inbound) - 1
        /\ \A i \in 1 .. Len(inbound') : i + 1 \in 1 .. Len(inbound) /\ inbound'[i] = inbound[i + 1]
    BY <1>19, TailFacts DEF Dispatch, TypeOK
  <2>2. SUFFICES ASSUME ~lapsed, actor = "serving" PROVE OneAnswerDue'
    BY <2>1 DEF OneAnswerDue
  <2>3. CASE Untagged(inbound[1])
    <3>1. \A a \in accepted : ~Untagged(a)
      BY <2>1, <2>2, <2>3 DEF OneAnswerDue
    <3>2. \A i \in 1 .. Len(inbound') : ~Untagged(inbound'[i])
      <4>1. \A i \in 1 .. Len(inbound) : Untagged(inbound[i]) => i = 1
        BY <2>1, <2>2, <2>3 DEF OneAnswerDue
      <4> QED
        BY <2>1, <4>1
    <3> QED
      BY <2>1, <3>1, <3>2 DEF OneAnswerDue, Untagged
  <2>4. CASE ~Untagged(inbound[1])
    <3>1. outstanding'[TypeKey] = outstanding[TypeKey]
      BY <1>19, <2>1, <2>4 DEF Dispatch, Untagged, TypeOK
    <3>2. \A i, j \in 1 .. Len(inbound') : i + 1 = j + 1 => i = j
      OBVIOUS
    <3> QED
      BY <2>1, <2>2, <3>1, <3>2 DEF OneAnswerDue, Untagged
  <2> QED
    BY <2>3, <2>4
<1>20. ASSUME ServeError PROVE OneAnswerDue'
  BY <1>20 DEF ServeError, OneAnswerDue
<1>21. ASSUME ServeEof PROVE OneAnswerDue'
  BY <1>21 DEF ServeEof, OneAnswerDue
<1>22. ASSUME Finish PROVE OneAnswerDue'
  BY <1>22 DEF Finish, OneAnswerDue
<1>23. ASSUME DropActor PROVE OneAnswerDue'
  BY <1>23 DEF DropActor, OneAnswerDue
<1>24. ASSUME ReadAnswer PROVE OneAnswerDue'
  <2>1. PICK a \in accepted : /\ Forward([kind |-> "message", key |-> a.key, slot |-> a.slot])
                               /\ accepted' = accepted \ {a}
    BY <1>24 DEF ReadAnswer
  <2>2. [kind |-> "message", key |-> a.key, slot |-> a.slot] \in Inbound
    BY <2>1 DEF Inbound, TypeOK, Asked
  <2>3. UNCHANGED <<actor, outstanding, lapsed>>
    BY <1>24 DEF ReadAnswer
  <2>4. SUFFICES ASSUME ~lapsed, actor = "serving" PROVE OneAnswerDue'
    BY <2>3 DEF OneAnswerDue
  <2>5. CASE inbound' = inbound
    BY <2>1, <2>3, <2>4, <2>5 DEF OneAnswerDue, Untagged
  <2>6. CASE /\ Len(inbound) \in Nat /\ Len(inbound') = Len(inbound) + 1
             /\ \A i \in 1 .. Len(inbound) : inbound'[i] = inbound[i]
             /\ inbound'[Len(inbound) + 1] = [kind |-> "message", key |-> a.key, slot |-> a.slot]
    <3>1. CASE a.key = TypeKey
      <4>1. \A i \in 1 .. Len(inbound) : ~Untagged(inbound[i])
        BY <2>4, <3>1 DEF OneAnswerDue, Untagged
      <4>2. a.slot = outstanding[TypeKey]
        BY <2>4, <3>1 DEF OneAnswerDue, Untagged
      <4>3. \A b \in accepted' : ~Untagged(b)
        <5>1. \A b \in accepted : Untagged(b) => b.key = a.key /\ b.slot = a.slot
          BY <2>4, <3>1, <4>2 DEF OneAnswerDue, Untagged
        <5>2. \A b \in accepted : b \in Asked
          BY DEF TypeOK
        <5>3. \A b \in accepted : Untagged(b) => b = a
          BY <5>1, <5>2 DEF Asked
        <5> QED
          BY <2>1, <5>3
      <4>4. \A i \in 1 .. Len(inbound') : Untagged(inbound'[i]) => i = Len(inbound) + 1
        BY <2>6, <4>1 DEF Untagged
      <4> QED
        BY <2>3, <2>6, <4>2, <4>3, <4>4 DEF OneAnswerDue
    <3>2. CASE a.key # TypeKey
      <4>1. \A i \in 1 .. Len(inbound') : Untagged(inbound'[i]) => i \in 1 .. Len(inbound) /\ inbound'[i] = inbound[i]
        BY <2>6, <3>2 DEF Untagged
      <4> QED
        BY <2>1, <2>3, <2>4, <4>1 DEF OneAnswerDue, Untagged
    <3> QED
      BY <3>1, <3>2
  <2> QED
    BY <2>1, <2>2, <2>5, <2>6, ForwardFacts
<1>25. ASSUME ReadPush PROVE OneAnswerDue'
  <2>1. [kind |-> "message", key |-> None, slot |-> None] \in Inbound
    BY DEF Inbound
  <2>2. \A i \in 1 .. Len(inbound') : Untagged(inbound'[i]) => i \in 1 .. Len(inbound) /\ inbound'[i] = inbound[i]
    BY <1>25, <2>1, ForwardFacts DEF ReadPush, Untagged
  <2> QED
    BY <1>25, <2>2 DEF ReadPush, OneAnswerDue, Untagged
<1>26. ASSUME ReadEof PROVE OneAnswerDue'
  BY <1>26 DEF ReadEof, OneAnswerDue, Untagged
<1>27. ASSUME ReadError PROVE OneAnswerDue'
  <2>1. \A i \in 1 .. Len(inbound') : Untagged(inbound'[i]) => i \in 1 .. Len(inbound) /\ inbound'[i] = inbound[i]
    <3>1. [kind |-> "error", key |-> None, slot |-> None] \in Inbound
      BY DEF Inbound
    <3>2. CASE actor = "stopped"
      BY <1>27, <3>2 DEF ReadError
    <3>3. CASE actor # "stopped"
      BY <1>27, <3>1, <3>3, AppendFacts DEF ReadError, TypeOK, Untagged
    <3> QED
      BY <3>2, <3>3
  <2> QED
    BY <1>27, <2>1 DEF ReadError, OneAnswerDue, Untagged
<1>28. ASSUME DeviceIgnore PROVE OneAnswerDue'
  BY <1>28 DEF DeviceIgnore, OneAnswerDue, Untagged
<1>29. ASSUME DeviceFails PROVE OneAnswerDue'
  BY <1>29 DEF DeviceFails, OneAnswerDue, Untagged
<1> QED
  BY <1>0, <1>1, <1>2, <1>3, <1>4, <1>5, <1>6, <1>7, <1>8, <1>9, <1>10, <1>11, <1>12, <1>13, <1>14,
       <1>15, <1>16, <1>17, <1>18, <1>19, <1>20, <1>21, <1>22, <1>23, <1>24, <1>25, <1>26, <1>27,
       <1>28, <1>29 DEF Next, CallStep, CallerStart, HeartbeatStep, ActorStep, ReaderStep, DeviceStep

\* The answers on their way, after every step.
LEMMA OwnAnswersStep ==
  ASSUME TypeOK, CallShape, RequestShape, ActorShape, OneReceiver, OneSender, SendersAgree,
         SendersAccountedFor, OwnAnswers, [Next]_vars
  PROVE  OwnAnswers'
  BY NamedAnswersStep, NoneLapsedStep, OneAnswerDueStep DEF OwnAnswers

\* IInv holds of a fresh connection and survives every step.
LEMMA IInvInit ==
  ASSUME Init
  PROVE  IInv
<1> USE TaskAssumption, KeyAssumption, BoundAssumption DEF Init, Tasks, Keys, Slots
<1>1. OneReceiver /\ OneSender
  BY DEF OneReceiver, OneSender
<1>2. SendersAgree /\ CancelsAreLate
  BY DEF SendersAgree, CancelsAreLate
<1>3. SendersAccountedFor /\ NoCallerForgotten /\ NeverReplaced
  BY DEF SendersAccountedFor, NoCallerForgotten, NeverReplaced
<1>4. OwnAnswers
  BY DEF OwnAnswers, NamedAnswers, NoneLapsed, OneAnswerDue, CancelQueued
<1> QED
  BY <1>1, <1>2, <1>3, <1>4, ShapeInit DEF IInv, Ownership

\* Every step of the connection keeps its invariant.
LEMMA IInvStep ==
  ASSUME IInv, [Next]_vars
  PROVE  IInv'
<1>1. /\ TypeOK /\ CallShape /\ RequestShape /\ ActorShape /\ HeartbeatShape
      /\ OneReceiver /\ OneSender /\ SendersAgree /\ CancelsAreLate
      /\ SendersAccountedFor /\ NoCallerForgotten /\ NeverReplaced /\ OwnAnswers
  BY DEF IInv, Shape, Ownership
<1>2. Shape'
  BY ShapeStep DEF IInv
<1>3. OneReceiver' /\ SendersAgree' /\ CancelsAreLate'
  BY <1>1, OneReceiverStep, SendersAgreeStep, CancelsStep
<1>4. OneSender'
  BY <1>1, OneSenderStep
<1>5. SendersAccountedFor' /\ NeverReplaced'
  BY <1>1, AccountedStep, ReplacedStep
<1>6. NoCallerForgotten'
  BY <1>1, ForgottenStep
<1>7. OwnAnswers'
  BY <1>1, OwnAnswersStep
<1> QED
  BY <1>2, <1>3, <1>4, <1>5, <1>6, <1>7 DEF IInv, Ownership

\* The inductive invariant.
THEOREM Inductive == Spec => []IInv
<1>1. Init => IInv
  BY IInvInit
<1>2. IInv /\ [Next]_vars => IInv'
  BY IInvStep
<1> QED
  BY <1>1, <1>2, PTL DEF Spec

\* No entry of the outstanding table is pinned (actor.rs, exchange and handle_request).
THEOREM NothingPinned == Spec => []SlotsAccountedFor
<1>1. IInv => SlotsAccountedFor
  BY DEF IInv, SendersAccountedFor, SlotsAccountedFor, Expected
<1> QED
  BY <1>1, Inductive, PTL

\* Every waiting call has its oneshot sender in the channel, in the actor's hands or in the table,
\* through writes, cancels, shutdown and the loss of the peer (actor.rs).
THEOREM NobodyForgotten == Spec => []NoCallerForgotten
<1>1. IInv => NoCallerForgotten
  BY DEF IInv
<1> QED
  BY <1>1, Inductive, PTL

\* Untagged exchanges never find another's entry in the table (actor.rs, handle_request).
THEOREM NobodyReplaced == Spec => []NeverReplaced
<1>1. IInv => NeverReplaced
  BY DEF IInv
<1> QED
  BY <1>1, Inductive, PTL

-----------------------------------------------------------------------------
(* The listener is left alone once a close() has returned. *)

\* The end of the connection was requested, or the listener has been told of it.
NothingToTell == actor \in {"draining", "stopped"} \/ stop = "on_request"

\* The caller whose oneshot a send or a Shutdown carries waits for it.
SentByWaiter(r) ==
  r.op \in {"send", "shutdown"} /\ r.slot # None =>
    /\ r.slot \in Callers /\ phase[r.slot] = "wait" /\ reply[r.slot] = "none"
    /\ op[r.slot] = IF r.op = "send" THEN "send" ELSE "close"

SendsShape ==
  /\ \A i \in 1 .. Len(requests) : SentByWaiter(requests[i])
  /\ writing # None => SentByWaiter(writing)
  /\ \A i, j \in 1 .. Len(requests) :
       requests[i].slot \in Callers /\ requests[i].slot = requests[j].slot => i = j
  /\ writing # None /\ writing.slot \in Callers => \A i \in 1 .. Len(requests) : requests[i].slot # writing.slot

ClosesShape ==
  /\ actor = "serving" <=> stop = "none"
  /\ closing = "returned" => NothingToTell
  /\ \A t \in Tasks : op[t] = "close" /\ reply[t] # "none" => NothingToTell

\* A request is queued behind the others.
LEMMA SendsAppend ==
  ASSUME TypeOK, RequestShape, SendsShape, NEW r \in Request, requests' \in Seq(Request),
         \A i \in 1 .. Len(requests) : requests'[i] = requests[i],
         \/ Len(requests') = Len(requests) + 1 /\ requests'[Len(requests) + 1] = r
         \/ Len(requests') = Len(requests),
         writing' = writing, \A q \in Request : SentByWaiter(q) => SentByWaiter(q)', SentByWaiter(r)',
         r.slot \in Callers => phase[r.slot] # "wait"
  PROVE  SendsShape'
<1>1. /\ Len(requests) \in Nat /\ \A i \in 1 .. Len(requests) : requests[i] \in Request
      /\ writing # None => writing \in Request
  BY DEF TypeOK
<1>2. \A q \in Request : q.op \in {"exchange", "send", "cancel", "shutdown"}
  BY DEF Request
<1>3. ASSUME NEW q \in Request, q.slot = r.slot, r.slot \in Callers, SentByWaiter(q)
      PROVE  q.op \in {"exchange", "cancel"}
  BY <1>2, <1>3, TaskAssumption DEF SentByWaiter
<1>4. \A i \in 1 .. Len(requests) : r.slot \in Callers => requests[i].slot # r.slot
  BY <1>1, <1>3, TaskAssumption, KeyAssumption DEF SendsShape, RequestShape, ExchangeShape
<1>5. r.slot \in Callers /\ writing # None => writing.slot # r.slot
  BY <1>1, <1>3, TaskAssumption, KeyAssumption DEF SendsShape, RequestShape, ExchangeShape
<1>6. \A i \in 1 .. Len(requests') : i \in 1 .. Len(requests) \/ (i = Len(requests) + 1 /\ requests'[i] = r)
  BY <1>1
<1>7. ASSUME NEW i \in 1 .. Len(requests') PROVE \E q \in Request : q = requests'[i] /\ SentByWaiter(q)'
  <2>1. CASE i \in 1 .. Len(requests)
    <3>1. requests'[i] = requests[i] /\ SentByWaiter(requests[i]) /\ requests[i] \in Request
      BY <1>1, <2>1 DEF SendsShape
    <3> QED BY <3>1
  <2> QED BY <1>6, <2>1
<1>8. ASSUME NEW i \in 1 .. Len(requests'), NEW j \in 1 .. Len(requests'),
             requests'[i].slot \in Callers, requests'[i].slot = requests'[j].slot
      PROVE  i = j
  BY <1>4, <1>6, <1>8 DEF SendsShape
<1>9. ASSUME writing # None, writing.slot \in Callers, NEW i \in 1 .. Len(requests')
      PROVE  requests'[i].slot # writing.slot
  BY <1>5, <1>6, <1>9 DEF SendsShape
<1>10. ASSUME writing # None PROVE \E q \in Request : q = writing' /\ SentByWaiter(q)'
  BY <1>1, <1>10 DEF SendsShape
<1> QED BY <1>7, <1>8, <1>9, <1>10 DEF SendsShape, SentByWaiter

\* The oldest request is taken, perhaps to be written, and its oneshot may be used.
LEMMA SendsDequeue ==
  ASSUME TypeOK, SendsShape, requests # <<>>, requests' = Tail(requests),
         writing = None, writing' \in {None, Head(requests)},
         \A q \in Request : SentByWaiter(q) /\ q.slot # Head(requests).slot => SentByWaiter(q)',
         \A q \in Request : writing' = q => SentByWaiter(q)'
  PROVE  SendsShape'
<1>1. /\ requests' \in Seq(Request) /\ Len(requests) \in Nat \ {0} /\ Len(requests') = Len(requests) - 1
      /\ Head(requests) \in Request /\ Head(requests) = requests[1]
      /\ \A i \in 1 .. Len(requests') : requests'[i] = requests[i + 1]
  BY DequeueFacts
<1>2. \A i \in 1 .. Len(requests') : i + 1 \in 1 .. Len(requests) /\ i + 1 # 1 /\ i \in Nat
  BY <1>1
<1>3. 1 \in 1 .. Len(requests)
  BY <1>1
<1>4. ASSUME NEW i \in 1 .. Len(requests') PROVE \E q \in Request : q = requests'[i] /\ SentByWaiter(q)'
  <2>1. PICK q \in Request : q = requests'[i] /\ q = requests[i + 1]
    BY <1>1
  <2>2. SentByWaiter(q)
    BY <1>2, <2>1 DEF SendsShape
  <2>3. CASE q.slot # Head(requests).slot
    BY <2>1, <2>2, <2>3
  <2>4. CASE q.slot = Head(requests).slot
    <3>1. q.slot \notin Callers
      BY <1>1, <1>2, <1>3, <2>1, <2>4 DEF SendsShape
    <3>2. ~(q.op \in {"send", "shutdown"} /\ q.slot # None)
      BY <2>2, <3>1 DEF SentByWaiter
    <3> QED BY <2>1, <3>2 DEF SentByWaiter
  <2> QED BY <2>3, <2>4
<1>5. ASSUME NEW i \in 1 .. Len(requests'), NEW j \in 1 .. Len(requests'),
             requests'[i].slot \in Callers, requests'[i].slot = requests'[j].slot
      PROVE  i = j
  <2>1. i + 1 = j + 1
    BY <1>1, <1>2, <1>5 DEF SendsShape
  <2> QED BY <1>2, <2>1
<1>6. ASSUME writing' # None, writing'.slot \in Callers, NEW i \in 1 .. Len(requests')
      PROVE  requests'[i].slot # writing'.slot
  BY <1>1, <1>2, <1>3, <1>6 DEF SendsShape
<1>7. ASSUME writing' # None PROVE \E q \in Request : q = writing' /\ SentByWaiter(q)'
  BY <1>1, <1>7
<1> QED BY <1>4, <1>5, <1>6, <1>7 DEF SendsShape, SentByWaiter

\* A send and a close have their oneshot in one place.
LEMMA SendsStep ==
  ASSUME TypeOK, CallShape, RequestShape, ActorShape, HeartbeatShape, SendsShape, [Next]_vars
  PROVE  SendsShape'
<1> USE TaskAssumption, KeyAssumption, BoundAssumption, StallAssumption
    DEF Tasks, Keys, Slots, callVars, actorVars, hbVars, deviceVars
<1>0. CASE UNCHANGED vars
  BY <1>0 DEF vars, TypeOK, CallShape, RequestShape, ExchangeShape, ActorShape, SendsShape, SentByWaiter, Request
<1>1. ASSUME NEW t \in Tasks, Submit(t) PROVE SendsShape'
  <2>1. PICK r \in Request : r = [op |-> op[t], key |-> key[t], slot |-> slot[t]]
    BY <1>1, SubmitFacts DEF TypeOK, CallShape, Request
  <2>2. /\ phase' = [phase EXCEPT ![t] = "wait"] /\ phase[t] = "submit"
        /\ UNCHANGED <<op, reply, writing>> /\ op[t] \in {"exchange", "send"}
    BY <1>1, SubmitFacts DEF Submit
  <2>3. \A q \in Request : SentByWaiter(q) => SentByWaiter(q)'
    BY <2>2 DEF SentByWaiter, TypeOK
  <2>4. r.slot \in Callers => r.slot = t
    BY <2>1, <2>2 DEF CallShape
  <2>5. SentByWaiter(r)'
    BY <2>1, <2>2 DEF SentByWaiter, CallShape, TypeOK
  <2>6. r.slot \in Callers => phase[r.slot] # "wait"
    BY <2>2, <2>4
  <2>7. /\ requests' \in Seq(Request)
        /\ Len(requests') = Len(requests) + 1 /\ requests'[Len(requests) + 1] = r
        /\ \A i \in 1 .. Len(requests) : requests'[i] = requests[i]
    BY <1>1, <2>1, SubmitFacts
  <2> QED BY <2>2, <2>3, <2>5, <2>6, <2>7, SendsAppend
<1>2. ASSUME NEW t \in Tasks, SubmitFails(t) PROVE SendsShape'
  BY <1>2 DEF SubmitFails, Return, BeatReturns, TypeOK, CallShape, RequestShape, ExchangeShape, ActorShape, SendsShape, SentByWaiter, Request
<1>3. ASSUME NEW t \in Tasks, Receive(t) PROVE SendsShape'
  BY <1>3 DEF Receive, Return, BeatReturns, TypeOK, CallShape, RequestShape, ExchangeShape, ActorShape, SendsShape, SentByWaiter, Request
<1>4. ASSUME NEW t \in Tasks, Timeout(t) PROVE SendsShape'
  BY <1>4 DEF Timeout, TypeOK, CallShape, RequestShape, ExchangeShape, ActorShape, SendsShape, SentByWaiter, Request
<1>5. ASSUME NEW t \in Tasks, SendCancel(t) PROVE SendsShape'
  <2>1. PICK r \in Request : r = [op |-> "cancel", key |-> key[t], slot |-> None]
    BY <1>5, CancelFacts DEF Request
  <2>2. /\ phase' = [phase EXCEPT ![t] = "idle"] /\ phase[t] = "giveup" /\ op' = [op EXCEPT ![t] = "none"]
        /\ reply' = [reply EXCEPT ![t] = "none"] /\ writing' = writing
    BY <1>5 DEF SendCancel, Return
  <2>3. \A q \in Request : SentByWaiter(q) => SentByWaiter(q)'
    BY <2>2 DEF SentByWaiter, TypeOK
  <2>4. SentByWaiter(r)' /\ r.slot \notin Callers
    BY <2>1 DEF SentByWaiter
  <2>5. /\ requests' \in Seq(Request)
        /\ \/ Len(requests') = Len(requests) + 1 /\ requests'[Len(requests) + 1] = r
           \/ Len(requests') = Len(requests)
        /\ \A i \in 1 .. Len(requests) : requests'[i] = requests[i]
    BY <1>5, <2>1, CancelFacts
  <2> QED BY <2>2, <2>3, <2>4, <2>5, SendsAppend
<1>6. ASSUME NEW c \in Callers, StartExchange(c) PROVE SendsShape'
  BY SMTT(60), <1>6 DEF StartExchange, Begin, TypeOK, CallShape, RequestShape, ExchangeShape, ActorShape, SendsShape, SentByWaiter, Request
<1>7. ASSUME NEW c \in Callers, StartUntagged(c) PROVE SendsShape'
  BY SMTT(60), <1>7 DEF StartUntagged, Begin, TypeOK, CallShape, RequestShape, ExchangeShape, ActorShape, SendsShape, SentByWaiter, Request
<1>8. ASSUME NEW c \in Callers, StartSend(c) PROVE SendsShape'
  BY SMTT(60), <1>8 DEF StartSend, Begin, TypeOK, CallShape, RequestShape, ExchangeShape, ActorShape, SendsShape, SentByWaiter, Request
<1>9. ASSUME NEW c \in Callers, StartClose(c) PROVE SendsShape'
  BY SMTT(60), <1>9 DEF StartClose, Begin, TypeOK, CallShape, RequestShape, ExchangeShape, ActorShape, SendsShape, SentByWaiter, Request
<1>10. ASSUME NEW c \in Callers, SubmitClose(c) PROVE SendsShape'
  <2>1. PICK r \in Request : r = [op |-> "shutdown", key |-> None, slot |-> c]
    BY DEF Request
  <2>2. /\ phase' = [phase EXCEPT ![c] = "wait", ![Heartbeat] = "idle"] /\ phase[c] = "submit"
        /\ op[c] = "close" /\ op' = [op EXCEPT ![Heartbeat] = "none"]
        /\ reply' = [reply EXCEPT ![Heartbeat] = "none"] /\ writing' = writing
    BY <1>10 DEF SubmitClose, AbortHeartbeat
  <2>3. \A q \in Request : SentByWaiter(q) => SentByWaiter(q)'
    BY <2>2 DEF SentByWaiter, TypeOK
  <2>4. SentByWaiter(r)'
    BY <2>1, <2>2 DEF SentByWaiter, CallShape, TypeOK
  <2>5. r.slot \in Callers => phase[r.slot] # "wait"
    BY <2>1, <2>2
  <2>6. /\ requests' \in Seq(Request)
        /\ Len(requests') = Len(requests) + 1 /\ requests'[Len(requests) + 1] = r
        /\ \A i \in 1 .. Len(requests) : requests'[i] = requests[i]
    BY <1>10, <2>1, CloseFacts
  <2> QED BY <2>2, <2>3, <2>4, <2>5, <2>6, SendsAppend
<1>11. ASSUME EnableHeartbeat PROVE SendsShape'
  BY SMTT(60), <1>11 DEF EnableHeartbeat, AbortHeartbeat, TypeOK, CallShape, RequestShape, ExchangeShape, ActorShape, SendsShape, SentByWaiter, Request
<1>12. ASSUME Beat PROVE SendsShape'
  BY SMTT(60), <1>12 DEF Beat, Begin, TypeOK, CallShape, RequestShape, ExchangeShape, ActorShape, SendsShape, SentByWaiter, Request
<1>13. ASSUME KillConnection PROVE SendsShape'
  <2>1. PICK r \in Request : r = [op |-> "shutdown", key |-> None, slot |-> None]
    BY DEF Request
  <2>2. UNCHANGED <<phase, op, reply, writing>>
    BY <1>13 DEF KillConnection
  <2>3. \A q \in Request : SentByWaiter(q) => SentByWaiter(q)'
    BY <2>2 DEF SentByWaiter
  <2>4. SentByWaiter(r)' /\ r.slot \notin Callers
    BY <2>1 DEF SentByWaiter
  <2>5. /\ requests' \in Seq(Request)
        /\ \/ Len(requests') = Len(requests) + 1 /\ requests'[Len(requests) + 1] = r
           \/ Len(requests') = Len(requests)
        /\ \A i \in 1 .. Len(requests) : requests'[i] = requests[i]
    BY <1>13, <2>1, KillFacts
  <2> QED BY <2>2, <2>3, <2>4, <2>5, SendsAppend
<1>14. ASSUME TakeWrite PROVE SendsShape'
  <2>1. /\ requests # <<>> /\ requests' = Tail(requests) /\ writing = None /\ writing' = Head(requests)
        /\ UNCHANGED <<phase, op, reply>>
    BY <1>14 DEF TakeWrite, Serving
  <2>2. \A q \in Request : SentByWaiter(q) => SentByWaiter(q)'
    BY <2>1 DEF SentByWaiter
  <2>3. SentByWaiter(Head(requests))
    BY <2>1, DequeueFacts DEF SendsShape
  <2> QED BY <2>1, <2>2, <2>3, SendsDequeue
<1>15. ASSUME WriteOk PROVE SendsShape'
  BY <1>15 DEF WriteOk, Resolve, Waits, TypeOK, CallShape, RequestShape, ExchangeShape, ActorShape, SendsShape, SentByWaiter, Request
<1>16. ASSUME WriteFails PROVE SendsShape'
  BY <1>16 DEF WriteFails, Resolve, Waits, TypeOK, CallShape, RequestShape, ExchangeShape, ActorShape, SendsShape, SentByWaiter, Request
<1>17. ASSUME ServeCancel PROVE SendsShape'
  <2>1. /\ requests # <<>> /\ requests' = Tail(requests) /\ writing = None /\ writing' = None
        /\ UNCHANGED <<phase, op, reply>>
    BY <1>17 DEF ServeCancel, Serving
  <2>2. \A q \in Request : SentByWaiter(q) => SentByWaiter(q)'
    BY <2>1 DEF SentByWaiter
  <2>3. None \notin Request
    BY NoneAssumption
  <2> QED BY <2>1, <2>2, <2>3, SendsDequeue
<1>18. ASSUME ServeShutdown PROVE SendsShape'
  <2>1. /\ requests # <<>> /\ requests' = Tail(requests) /\ writing = None /\ writing' = None
        /\ Resolve(Head(requests).slot, "done") /\ UNCHANGED <<phase, op, slot>>
    BY <1>18 DEF ServeShutdown, Serving
  <2>2. ASSUME NEW q \in Request, SentByWaiter(q), q.slot # Head(requests).slot
        PROVE  SentByWaiter(q)'
    <3>1. CASE q.op \in {"send", "shutdown"} /\ q.slot # None
      <4>1. q.slot \in Callers /\ slot[q.slot] = q.slot /\ reply'[q.slot] = reply[q.slot]
        BY <2>1, <2>2, <3>1 DEF SentByWaiter, CallShape, Resolve, Waits, TypeOK
      <4> QED BY <2>1, <2>2, <4>1 DEF SentByWaiter
    <3>2. CASE ~(q.op \in {"send", "shutdown"} /\ q.slot # None)
      BY <3>2 DEF SentByWaiter
    <3> QED BY <3>1, <3>2
  <2>3. None \notin Request
    BY NoneAssumption
  <2> QED BY <2>1, <2>2, <2>3, SendsDequeue
<1>19. ASSUME Dispatch PROVE SendsShape'
  BY <1>19 DEF Dispatch, Serving, Resolve, Waits, TypeOK, CallShape, RequestShape, ExchangeShape, ActorShape, SendsShape, SentByWaiter, Request
<1>20. ASSUME ServeError PROVE SendsShape'
  BY <1>20 DEF ServeError, Serving, TypeOK, CallShape, RequestShape, ExchangeShape, ActorShape, SendsShape, SentByWaiter, Request
<1>21. ASSUME ServeEof PROVE SendsShape'
  BY <1>21 DEF ServeEof, Serving, TypeOK, CallShape, RequestShape, ExchangeShape, ActorShape, SendsShape, SentByWaiter, Request
<1>22. ASSUME Finish PROVE SendsShape'
  BY <1>22 DEF Finish, Waits, TypeOK, CallShape, RequestShape, ExchangeShape, ActorShape, SendsShape, SentByWaiter, Request
<1>23. ASSUME DropActor PROVE SendsShape'
  BY <1>23 DEF DropActor, Waits, TypeOK, CallShape, RequestShape, ExchangeShape, ActorShape, SendsShape, SentByWaiter, Request
<1>24. ASSUME ReadAnswer PROVE SendsShape'
  BY <1>24 DEF ReadAnswer, Forward, TypeOK, CallShape, RequestShape, ExchangeShape, ActorShape, SendsShape, SentByWaiter, Request
<1>25. ASSUME ReadPush PROVE SendsShape'
  BY <1>25 DEF ReadPush, Forward, TypeOK, CallShape, RequestShape, ExchangeShape, ActorShape, SendsShape, SentByWaiter, Request
<1>26. ASSUME ReadEof PROVE SendsShape'
  BY <1>26 DEF ReadEof, TypeOK, CallShape, RequestShape, ExchangeShape, ActorShape, SendsShape, SentByWaiter, Request
<1>27. ASSUME ReadError PROVE SendsShape'
  BY <1>27 DEF ReadError, TypeOK, CallShape, RequestShape, ExchangeShape, ActorShape, SendsShape, SentByWaiter, Request
<1>28. ASSUME DeviceIgnore PROVE SendsShape'
  BY <1>28 DEF DeviceIgnore, TypeOK, CallShape, RequestShape, ExchangeShape, ActorShape, SendsShape, SentByWaiter, Request
<1>29. ASSUME DeviceFails PROVE SendsShape'
  BY <1>29 DEF DeviceFails, TypeOK, CallShape, RequestShape, ExchangeShape, ActorShape, SendsShape, SentByWaiter, Request
<1> QED
  BY <1>0, <1>1, <1>2, <1>3, <1>4, <1>5, <1>6, <1>7, <1>8, <1>9, <1>10, <1>11, <1>12, <1>13,
     <1>14, <1>15, <1>16, <1>17, <1>18, <1>19, <1>20, <1>21, <1>22, <1>23, <1>24, <1>25, <1>26, <1>27,
     <1>28, <1>29
     DEF Next, CallStep, CallerStart, HeartbeatStep, ActorStep, ReaderStep, DeviceStep

\* A close has its result only when there is nothing left to tell.
LEMMA ClosesStep ==
  ASSUME TypeOK, CallShape, RequestShape, ActorShape, HeartbeatShape, SendsShape, ClosesShape, [Next]_vars
  PROVE  ClosesShape'
<1> USE TaskAssumption, KeyAssumption, BoundAssumption, StallAssumption
    DEF Tasks, Keys, Slots, callVars, actorVars, hbVars, deviceVars
<1>0. CASE UNCHANGED vars
  BY <1>0 DEF vars, TypeOK, CallShape, RequestShape, ExchangeShape, ActorShape, SendsShape, SentByWaiter, ClosesShape, NothingToTell
<1>1. ASSUME NEW t \in Tasks, Submit(t) PROVE ClosesShape'
  BY <1>1 DEF Submit, TypeOK, CallShape, RequestShape, ExchangeShape, ActorShape, SendsShape, SentByWaiter, ClosesShape, NothingToTell
<1>2. ASSUME NEW t \in Tasks, SubmitFails(t) PROVE ClosesShape'
  BY <1>2 DEF SubmitFails, Return, BeatReturns, TypeOK, CallShape, RequestShape, ExchangeShape, ActorShape, SendsShape, SentByWaiter, ClosesShape, NothingToTell
<1>3. ASSUME NEW t \in Tasks, Receive(t) PROVE ClosesShape'
  BY <1>3 DEF Receive, Return, BeatReturns, TypeOK, CallShape, RequestShape, ExchangeShape, ActorShape, SendsShape, SentByWaiter, ClosesShape, NothingToTell
<1>4. ASSUME NEW t \in Tasks, Timeout(t) PROVE ClosesShape'
  BY <1>4 DEF Timeout, TypeOK, CallShape, RequestShape, ExchangeShape, ActorShape, SendsShape, SentByWaiter, ClosesShape, NothingToTell
<1>5. ASSUME NEW t \in Tasks, SendCancel(t) PROVE ClosesShape'
  BY <1>5 DEF SendCancel, Return, BeatReturns, TypeOK, CallShape, RequestShape, ExchangeShape, ActorShape, SendsShape, SentByWaiter, ClosesShape, NothingToTell
<1>6. ASSUME NEW c \in Callers, StartExchange(c) PROVE ClosesShape'
  BY <1>6 DEF StartExchange, Begin, TypeOK, CallShape, RequestShape, ExchangeShape, ActorShape, SendsShape, SentByWaiter, ClosesShape, NothingToTell
<1>7. ASSUME NEW c \in Callers, StartUntagged(c) PROVE ClosesShape'
  BY <1>7 DEF StartUntagged, Begin, TypeOK, CallShape, RequestShape, ExchangeShape, ActorShape, SendsShape, SentByWaiter, ClosesShape, NothingToTell
<1>8. ASSUME NEW c \in Callers, StartSend(c) PROVE ClosesShape'
  BY <1>8 DEF StartSend, Begin, TypeOK, CallShape, RequestShape, ExchangeShape, ActorShape, SendsShape, SentByWaiter, ClosesShape, NothingToTell
<1>9. ASSUME NEW c \in Callers, StartClose(c) PROVE ClosesShape'
  BY <1>9 DEF StartClose, Begin, TypeOK, CallShape, RequestShape, ExchangeShape, ActorShape, SendsShape, SentByWaiter, ClosesShape, NothingToTell
<1>10. ASSUME NEW c \in Callers, SubmitClose(c) PROVE ClosesShape'
  BY <1>10 DEF SubmitClose, AbortHeartbeat, TypeOK, CallShape, RequestShape, ExchangeShape, ActorShape, SendsShape, SentByWaiter, ClosesShape, NothingToTell
<1>11. ASSUME EnableHeartbeat PROVE ClosesShape'
  BY <1>11 DEF EnableHeartbeat, AbortHeartbeat, TypeOK, CallShape, RequestShape, ExchangeShape, ActorShape, SendsShape, SentByWaiter, ClosesShape, NothingToTell
<1>12. ASSUME Beat PROVE ClosesShape'
  BY <1>12 DEF Beat, Begin, TypeOK, CallShape, RequestShape, ExchangeShape, ActorShape, SendsShape, SentByWaiter, ClosesShape, NothingToTell
<1>13. ASSUME KillConnection PROVE ClosesShape'
  BY <1>13 DEF KillConnection, TypeOK, CallShape, RequestShape, ExchangeShape, ActorShape, SendsShape, SentByWaiter, ClosesShape, NothingToTell
<1>14. ASSUME TakeWrite PROVE ClosesShape'
  BY <1>14 DEF TakeWrite, Serving, TypeOK, CallShape, RequestShape, ExchangeShape, ActorShape, SendsShape, SentByWaiter, ClosesShape, NothingToTell
<1>15. ASSUME WriteOk PROVE ClosesShape'
  BY <1>15 DEF WriteOk, Resolve, Waits, TypeOK, CallShape, RequestShape, ExchangeShape, ActorShape, SendsShape, SentByWaiter, ClosesShape, NothingToTell
<1>16. ASSUME WriteFails PROVE ClosesShape'
  BY <1>16 DEF WriteFails, Resolve, Waits, TypeOK, CallShape, RequestShape, ExchangeShape, ActorShape, SendsShape, SentByWaiter, ClosesShape, NothingToTell
<1>17. ASSUME ServeCancel PROVE ClosesShape'
  BY <1>17 DEF ServeCancel, Serving, TypeOK, CallShape, RequestShape, ExchangeShape, ActorShape, SendsShape, SentByWaiter, ClosesShape, NothingToTell
<1>18. ASSUME ServeShutdown PROVE ClosesShape'
  BY <1>18 DEF ServeShutdown, Serving, Resolve, Waits, TypeOK, CallShape, RequestShape, ExchangeShape, ActorShape, SendsShape, SentByWaiter, ClosesShape, NothingToTell
<1>19. ASSUME Dispatch PROVE ClosesShape'
  <2>1. UNCHANGED <<closing, actor, stop, op, slot>>
    BY <1>19 DEF Dispatch
  <2>2. ASSUME NEW t \in Tasks, op[t] = "close" PROVE reply'[t] = reply[t]
    <3>1. slot[t] \notin Ids /\ slot[t] # None
      BY <2>2 DEF CallShape
    <3>2. \A k \in Keys : outstanding[k] # slot[t]
      BY <3>1 DEF TypeOK
    <3>3. Head(inbound) \in Inbound
      BY <1>19, TailFacts DEF Dispatch, TypeOK
    <3>4. Head(inbound).key # None => Head(inbound).key \in Keys
      BY <3>3 DEF Inbound
    <3> QED BY <1>19, <3>2, <3>4 DEF Dispatch, Resolve, Waits, TypeOK
  <2> QED BY <2>1, <2>2 DEF ClosesShape, NothingToTell
<1>20. ASSUME ServeError PROVE ClosesShape'
  BY <1>20 DEF ServeError, Serving, TypeOK, CallShape, RequestShape, ExchangeShape, ActorShape, SendsShape, SentByWaiter, ClosesShape, NothingToTell
<1>21. ASSUME ServeEof PROVE ClosesShape'
  BY <1>21 DEF ServeEof, Serving, TypeOK, CallShape, RequestShape, ExchangeShape, ActorShape, SendsShape, SentByWaiter, ClosesShape, NothingToTell
<1>22. ASSUME Finish PROVE ClosesShape'
  BY <1>22 DEF Finish, Waits, TypeOK, CallShape, RequestShape, ExchangeShape, ActorShape, SendsShape, SentByWaiter, ClosesShape, NothingToTell
<1>23. ASSUME DropActor PROVE ClosesShape'
  BY <1>23 DEF DropActor, Waits, TypeOK, CallShape, RequestShape, ExchangeShape, ActorShape, SendsShape, SentByWaiter, ClosesShape, NothingToTell
<1>24. ASSUME ReadAnswer PROVE ClosesShape'
  BY <1>24 DEF ReadAnswer, Forward, TypeOK, CallShape, RequestShape, ExchangeShape, ActorShape, SendsShape, SentByWaiter, ClosesShape, NothingToTell
<1>25. ASSUME ReadPush PROVE ClosesShape'
  BY <1>25 DEF ReadPush, Forward, TypeOK, CallShape, RequestShape, ExchangeShape, ActorShape, SendsShape, SentByWaiter, ClosesShape, NothingToTell
<1>26. ASSUME ReadEof PROVE ClosesShape'
  BY <1>26 DEF ReadEof, TypeOK, CallShape, RequestShape, ExchangeShape, ActorShape, SendsShape, SentByWaiter, ClosesShape, NothingToTell
<1>27. ASSUME ReadError PROVE ClosesShape'
  BY <1>27 DEF ReadError, TypeOK, CallShape, RequestShape, ExchangeShape, ActorShape, SendsShape, SentByWaiter, ClosesShape, NothingToTell
<1>28. ASSUME DeviceIgnore PROVE ClosesShape'
  BY <1>28 DEF DeviceIgnore, TypeOK, CallShape, RequestShape, ExchangeShape, ActorShape, SendsShape, SentByWaiter, ClosesShape, NothingToTell
<1>29. ASSUME DeviceFails PROVE ClosesShape'
  BY <1>29 DEF DeviceFails, TypeOK, CallShape, RequestShape, ExchangeShape, ActorShape, SendsShape, SentByWaiter, ClosesShape, NothingToTell
<1> QED
  BY <1>0, <1>1, <1>2, <1>3, <1>4, <1>5, <1>6, <1>7, <1>8, <1>9, <1>10, <1>11, <1>12, <1>13,
     <1>14, <1>15, <1>16, <1>17, <1>18, <1>19, <1>20, <1>21, <1>22, <1>23, <1>24, <1>25, <1>26, <1>27,
     <1>28, <1>29
     DEF Next, CallStep, CallerStart, HeartbeatStep, ActorStep, ReaderStep, DeviceStep

\* Once a close() has returned the listener is not called, also when the device closed or reset the
\* connection meanwhile (protocol.rs, close; actor.rs, end of run).
THEOREM ListenerLeftAlone == Spec => QuietAfterClose
<1> DEFINE QInv == SendsShape /\ ClosesShape
<1>1. Init => QInv
  BY DEF Init, SendsShape, ClosesShape, SentByWaiter
<1>2. IInv /\ QInv /\ [Next]_vars => QInv'
  BY SendsStep, ClosesStep DEF IInv, Shape
<1>3. ASSUME ClosesShape, [Next]_vars, closing = "returned" PROVE heard' = heard
  <2>1. NothingToTell
    BY <1>3 DEF ClosesShape
  <2>2. CASE Finish
    BY <2>1, <2>2 DEF Finish, NothingToTell
  <2>3. CASE ~Finish
    BY <1>3, <2>3 DEF Next, CallStep, CallerStart, HeartbeatStep, ActorStep, ReaderStep, DeviceStep, vars,
       actorVars, Submit, SubmitFails, Receive, Timeout, SendCancel, StartExchange, StartUntagged, StartSend,
       StartClose, SubmitClose, EnableHeartbeat, Beat, KillConnection, TakeWrite, WriteOk, WriteFails,
       ServeCancel, ServeShutdown, Dispatch, ServeError, ServeEof, DropActor, ReadAnswer, ReadPush, ReadEof,
       ReadError, DeviceIgnore, DeviceFails
  <2> QED BY <2>2, <2>3
<1>4. QInv /\ [Next]_vars => [closing = "returned" => heard' = heard]_vars
  BY <1>3
<1>5. Spec => []QInv
  <2> HIDE DEF QInv
  <2> QED BY <1>1, <1>2, Inductive, PTL DEF Spec
<1> HIDE DEF QInv
<1> QED BY <1>4, <1>5, PTL DEF Spec, QuietAfterClose

-----------------------------------------------------------------------------
(* The connection implements RpcChannel: what each step does to the exchanges. *)

Listed(t) == outstanding[key[t]] = slot[t]

\* The exchange of task t has no outcome yet.
Pending(t) == op[t] = "exchange" /\ phase[t] = "wait" /\ reply[t] = "none"

\* An exchange whose task does not move, and that is listed as before,
\* looks the same to RpcChannel.
LEMMA SameCall ==
  ASSUME NEW t, op'[t] = op[t],
         op[t] = "exchange" => phase'[t] = phase[t] /\ reply'[t] = reply[t],
         Pending(t) => (Listed(t)' <=> Listed(t))
  PROVE  RpcCall(t)' = RpcCall(t)
  BY DEF RpcCall, Listed, Pending

\* What an exchange looks like, phase by phase.
LEMMA CallValues ==
  ASSUME NEW t, TypeOK, t \in Tasks, CallShape
  PROVE  /\ op[t] # "exchange" => RpcCall(t) = "idle"
         /\ op[t] = "exchange" => RpcCall(t) # "idle"
         /\ op[t] = "exchange" /\ phase[t] = "submit" => RpcCall(t) = "open"
         /\ op[t] = "exchange" /\ phase[t] = "giveup" => RpcCall(t) = "failed"
         /\ Pending(t) => RpcCall(t) = IF Listed(t) THEN "sent" ELSE "open"
         /\ op[t] = "exchange" /\ phase[t] = "wait" /\ reply[t] = "answer" => RpcCall(t) = "answered"
         /\ op[t] = "exchange" /\ phase[t] = "wait" /\ reply[t] = "misanswer" => RpcCall(t) = "misanswered"
         /\ op[t] = "exchange" /\ phase[t] = "wait" /\ reply[t] \in {"done", "failed", "closed", "replaced"}
              => RpcCall(t) = "failed"
  BY DEF RpcCall, Listed, Pending

\* What the tasks that exchange without an identifier do: they take the key when they call and drop
\* it when they return.
NamesFollow ==
  \A t \in Tasks :
    /\ key[t] = TypeKey => RpcCall(t) # "idle"
    /\ key'[t] = TypeKey => RpcCall(t)' # "idle"
    /\ RpcCall(t) # "idle" /\ RpcCall(t)' # "idle" => (key'[t] = TypeKey <=> key[t] = TypeKey)

\* An exchange keeps its key.
LEMMA NamesStep ==
  ASSUME IInv, IInv', [Next]_vars
  PROVE  NamesFollow
<1> USE TaskAssumption, KeyAssumption
<1>1. TypeOK /\ CallShape /\ TypeOK' /\ CallShape'
  BY DEF IInv, Shape
<1>2. ASSUME NEW t \in Tasks PROVE key[t] = TypeKey => op[t] = "exchange"
  BY <1>1 DEF CallShape, TypeOK
<1>3. ASSUME NEW t \in Tasks PROVE key'[t] = TypeKey => op'[t] = "exchange"
  BY <1>1 DEF CallShape, TypeOK
<1>4. ASSUME NEW t \in Tasks PROVE RpcCall(t) # "idle" <=> op[t] = "exchange"
  BY <1>1, CallValues
<1>5. ASSUME NEW t \in Tasks PROVE RpcCall(t)' # "idle" <=> op'[t] = "exchange"
  BY DEF RpcCall
<1>6. ASSUME NEW t \in Tasks, op[t] = "exchange", op'[t] = "exchange" PROVE key'[t] = key[t]
  <2> USE DEF TypeOK
  <2>1. CASE UNCHANGED <<op, key>>
    BY <2>1
  <2>2. ASSUME NEW u \in Tasks, phase[u] = "idle", NEW o, NEW k, NEW s, Begin(u, o, k, s) PROVE key'[t] = key[t]
    BY <1>1, <1>6, <2>2 DEF Begin, CallShape
  <2>3. ASSUME NEW u \in Tasks, NEW r, Return(u, r) PROVE key'[t] = key[t]
    BY <1>1, <1>6, <2>3 DEF Return
  <2>4. CASE AbortHeartbeat
    BY <1>1, <1>6, <2>4 DEF AbortHeartbeat, Tasks
  <2>5. ASSUME NEW u \in Tasks, CallStep(u) PROVE key'[t] = key[t]
    BY <2>1, <2>3, <2>5 DEF CallStep, Submit, SubmitFails, Receive, Timeout, SendCancel
  <2>6. ASSUME NEW u \in Callers, CallerStart(u) PROVE key'[t] = key[t]
    BY <2>2, <2>6 DEF CallerStart, StartExchange, StartUntagged, StartSend, StartClose, Tasks
  <2>7. CASE HeartbeatStep
    <3>1. CASE Beat
      <4>1. phase[Heartbeat] = "idle" /\ Heartbeat \in Tasks
        BY <3>1 DEF Beat, Tasks, IInv, Shape, HeartbeatShape
      <4> QED BY <2>2, <3>1, <4>1 DEF Beat
    <3> QED BY <2>1, <2>4, <2>7, <3>1 DEF HeartbeatStep, EnableHeartbeat, KillConnection, callVars
  <2>8. CASE ActorStep \/ ReaderStep \/ DeviceStep \/ UNCHANGED vars
    BY <2>1, <2>8 DEF ActorStep, ReaderStep, DeviceStep, vars, callVars, TakeWrite, WriteOk, WriteFails,
       ServeCancel, ServeShutdown, Dispatch, ServeError, ServeEof, Finish, DropActor, ReadAnswer, ReadPush,
       ReadEof, ReadError, DeviceIgnore, DeviceFails
  <2> QED BY <2>4, <2>5, <2>6, <2>7, <2>8 DEF Next, SubmitClose
<1> QED BY <1>2, <1>3, <1>4, <1>5, <1>6 DEF NamesFollow

\* If every exchange looks the same and the actor serves as before,
\* RpcChannel does nothing.
LEMMA Stutters ==
  ASSUME NamesFollow, lapsed' = lapsed,
         \A t \in Tasks : RpcCall(t)' = RpcCall(t), actor' = "serving" <=> actor = "serving"
  PROVE  UNCHANGED Rpc!vars
<1>1. [t \in Tasks |-> RpcCall(t)]' = [t \in Tasks |-> RpcCall(t)]
  BY DEF Tasks
<1>2. (actor = "serving")' = (actor = "serving")
  BY Zenon
<1>3. {t \in Tasks : key[t] = TypeKey}' = {t \in Tasks : key[t] = TypeKey}
  BY DEF NamesFollow, Tasks
<1> QED BY <1>1, <1>2, <1>3 DEF Rpc!vars

\* If one exchange moves on, RpcChannel takes the step of that exchange.
LEMMA OneMoves ==
  ASSUME NamesFollow, lapsed' = lapsed,
         NEW t \in Tasks, \A u \in Tasks : u # t => RpcCall(u)' = RpcCall(u),
         actor' = "serving" <=> actor = "serving"
  PROVE  /\ RpcCall(t) = "idle" /\ RpcCall(t)' = "open" => Rpc!Next
         /\ actor = "serving" /\ RpcCall(t) = "open" /\ RpcCall(t)' = "sent" => Rpc!Next
         /\ actor = "serving" /\ RpcCall(t) = "sent" /\ RpcCall(t)' = "answered" => Rpc!Next
         /\ /\ actor = "serving" /\ RpcCall(t) = "sent" /\ RpcCall(t)' = "misanswered"
            /\ key[t] = TypeKey /\ lapsed
            => Rpc!Next
         /\ RpcCall(t) # "idle" /\ RpcCall(t)' = "idle" => Rpc!Next
         /\ RpcCall(t) \in {"open", "sent"} /\ RpcCall(t)' = "failed" => Rpc!Next
<1> DEFINE call == [u \in Tasks |-> RpcCall(u)]
           up == actor = "serving"
           names == {u \in Tasks : key[u] = TypeKey}
<1>1. up' = up /\ (actor = "serving" => up)
  BY Zenon
<1>2. ASSUME NEW v, RpcCall(t)' = v PROVE call' = [call EXCEPT ![t] = v]
  BY <1>2 DEF Tasks
<1>3. call[t] = RpcCall(t)
  OBVIOUS
<1>4. ASSUME NEW u \in Tasks, u # t PROVE u \in names' <=> u \in names
  BY <1>4 DEF NamesFollow, Tasks
<1>5. names \subseteq Tasks /\ names' \subseteq Tasks
  BY DEF Tasks
<1>6. RpcCall(t) # "idle" /\ RpcCall(t)' # "idle" => names' = names
  <2>1. RpcCall(t) # "idle" /\ RpcCall(t)' # "idle" => (t \in names' <=> t \in names)
    BY DEF NamesFollow, Tasks
  <2> HIDE DEF names
  <2> QED BY <1>4, <1>5, <2>1
<1>7. t \in names <=> key[t] = TypeKey
  OBVIOUS
<1>8. /\ RpcCall(t) = "idle" => t \notin names
      /\ RpcCall(t)' = "idle" => t \notin names'
  BY DEF NamesFollow, Tasks
<1> HIDE DEF call, up, names
<1>9. ASSUME RpcCall(t) = "idle", RpcCall(t)' = "open" PROVE Rpc!Next
  <2>1. names' \in {names, names \cup {t}}
    <3>1. CASE t \in names'
      BY <1>4, <1>5, <3>1
    <3>2. CASE t \notin names'
      BY <1>4, <1>5, <1>8, <1>9, <3>2
    <3> QED BY <3>1, <3>2
  <2>2. Rpc!Invoke(t)
    BY <1>1, <1>2, <1>3, <1>9, <2>1 DEF Rpc!Invoke, call, up, names
  <2> QED BY <2>2 DEF Rpc!Next
<1>10. ASSUME actor = "serving", RpcCall(t) = "open", RpcCall(t)' = "sent" PROVE Rpc!Next
  <2>1. Rpc!Transmit(t)
    BY <1>1, <1>2, <1>3, <1>6, <1>10 DEF Rpc!Transmit, call, up, names
  <2> QED BY <2>1 DEF Rpc!Next
<1>11. ASSUME actor = "serving", RpcCall(t) = "sent", RpcCall(t)' = "answered" PROVE Rpc!Next
  <2>1. Rpc!Answer(t)
    BY <1>1, <1>2, <1>3, <1>6, <1>11 DEF Rpc!Answer, call, up, names
  <2> QED BY <2>1 DEF Rpc!Next
<1>12. ASSUME actor = "serving", RpcCall(t) = "sent", RpcCall(t)' = "misanswered", key[t] = TypeKey, lapsed
       PROVE  Rpc!Next
  <2>1. Rpc!Misanswer(t)
    BY <1>1, <1>2, <1>3, <1>6, <1>7, <1>12 DEF Rpc!Misanswer, call, up, names
  <2> QED BY <2>1 DEF Rpc!Next
<1>13. ASSUME RpcCall(t) # "idle", RpcCall(t)' = "idle" PROVE Rpc!Next
  <2>1. names' = names \ {t}
    BY <1>4, <1>5, <1>8, <1>13
  <2>2. Rpc!Return(t)
    BY <1>1, <1>2, <1>3, <1>13, <2>1 DEF Rpc!Return, call, up, names
  <2> QED BY <2>2 DEF Rpc!Next
<1>14. ASSUME RpcCall(t) \in {"open", "sent"}, RpcCall(t)' = "failed" PROVE Rpc!Next
  <2>1. call' = [u \in Tasks |-> IF u \in {t} THEN "failed" ELSE call[u]]
    BY <1>14 DEF call, Tasks
  <2>2. Rpc!Fail({t})
    BY <1>1, <1>3, <1>6, <1>14, <2>1 DEF Rpc!Fail, call, up, names
  <2> QED BY <2>2 DEF Rpc!Next
<1> QED BY <1>9, <1>10, <1>11, <1>12, <1>13, <1>14

\* A connection that ends fails some of the exchanges it held, and nothing else happens to them.
LEMMA SomeFail ==
  ASSUME NamesFollow, lapsed' = lapsed,
         NEW S \in SUBSET Tasks, actor' = "serving" <=> actor = "serving",
         \A t \in S : RpcCall(t) \in {"open", "sent"} /\ RpcCall(t)' = "failed",
         \A t \in Tasks \ S : RpcCall(t)' = RpcCall(t)
  PROVE  Rpc!Next
<1> DEFINE call == [u \in Tasks |-> RpcCall(u)]
           up == actor = "serving"
           names == {u \in Tasks : key[u] = TypeKey}
<1>1. up' = up
  BY Zenon
<1>2. call' = [u \in Tasks |-> IF u \in S THEN "failed" ELSE call[u]]
  BY DEF Tasks
<1>3. \A t \in S : call[t] \in {"open", "sent"}
  OBVIOUS
<1>4. names' = names
  <2>1. ASSUME NEW t \in Tasks PROVE t \in names' <=> t \in names
    BY DEF NamesFollow, Tasks
  <2>2. names \subseteq Tasks /\ names' \subseteq Tasks
    BY DEF Tasks
  <2> HIDE DEF names
  <2> QED BY <2>1, <2>2
<1> HIDE DEF call, up, names
<1>5. Rpc!Fail(S)
  BY <1>1, <1>2, <1>3, <1>4 DEF Rpc!Fail, call, up, names
<1> QED BY <1>5 DEF Rpc!Next

\* If every exchange looks the same and the actor stops serving, RpcChannel
\* goes down.
LEMMA GoesDown ==
  ASSUME NamesFollow, lapsed' = lapsed,
         \A t \in Tasks : RpcCall(t)' = RpcCall(t), actor = "serving", actor' # "serving"
  PROVE  Rpc!Next
<1> DEFINE call == [u \in Tasks |-> RpcCall(u)]
           up == actor = "serving"
<1>1. up /\ up' = FALSE
  BY Zenon
<1>2. call' = call
  BY DEF Tasks
<1>3. {t \in Tasks : key[t] = TypeKey}' = {t \in Tasks : key[t] = TypeKey}
  BY DEF NamesFollow, Tasks
<1>4. Rpc!GoDown
  BY <1>1, <1>2, <1>3 DEF Rpc!GoDown
<1> QED BY <1>4 DEF Rpc!Next

\* No table entry awaits an answer before its request is submitted.
LEMMA NotYetListed ==
  ASSUME IInv, NEW t \in Tasks, op[t] = "exchange", phase[t] = "submit"
  PROVE  ~Listed(t)
<1> DEFINE k == key[t]
<1>1. SUFFICES ASSUME outstanding[k] = slot[t] PROVE FALSE
  BY DEF Listed
<1>2. k \in Keys /\ slot[t] \in Ids /\ slot[t] # None
  BY KeyAssumption DEF IInv, Shape, CallShape
<1>3. outstanding[k] # None
  BY <1>1, <1>2
<1>4. Expected(k, slot[t]) \/ CancelQueued(k)
  BY <1>1, <1>2, <1>3 DEF IInv, SendersAccountedFor
<1>5. CASE Expected(k, slot[t])
  BY <1>2, <1>5 DEF Expected, IInv, Ownership, OneReceiver
<1>6. CASE CancelQueued(k)
  <2>1. Abandoned(outstanding[k])
    BY <1>3, <1>6 DEF CancelQueued, IInv, Ownership, CancelsAreLate
  <2> QED BY <1>1, <2>1 DEF Abandoned
<1> QED BY <1>4, <1>5, <1>6

\* A oneshot is used: at most one exchange, which waits on it, is decided.
LEMMA ResolveDecides ==
  ASSUME NamesFollow, lapsed' = lapsed, IInv, NEW s, NEW r \in {"done", "failed"}, Resolve(s, r),
         UNCHANGED <<phase, op, key, slot, outstanding>>, actor' = "serving" <=> actor = "serving"
  PROVE  Rpc!Next \/ UNCHANGED Rpc!vars
<1>1. TypeOK /\ CallShape /\ OneReceiver
  BY DEF IInv, Shape, Ownership
<1>2. \A t \in Tasks : reply'[t] = IF Waits(t, s) THEN r ELSE reply[t]
  BY <1>1 DEF Resolve, TypeOK
<1>3. ASSUME NEW t \in Tasks, ~Waits(t, s) \/ op[t] # "exchange" PROVE RpcCall(t)' = RpcCall(t)
  <2>1. op'[t] = op[t] /\ phase'[t] = phase[t] /\ (op[t] = "exchange" => reply'[t] = reply[t])
    BY <1>2, <1>3
  <2>2. Listed(t)' <=> Listed(t)
    BY DEF Listed
  <2> QED BY <2>1, <2>2, SameCall
<1>4. CASE \E t \in Tasks : Waits(t, s) /\ op[t] = "exchange"
  <2>1. PICK t \in Tasks : Waits(t, s) /\ op[t] = "exchange"
    BY <1>4
  <2>2. \A u \in Tasks : u # t => ~Waits(u, s) \/ op[u] # "exchange"
    BY <1>1, <2>1, KeyAssumption DEF Waits, OneReceiver, CallShape
  <2>3. RpcCall(t) \in {"open", "sent"}
    BY <1>1, <2>1, CallValues DEF Waits, Pending
  <2>4. op'[t] = "exchange" /\ phase'[t] = "wait" /\ reply'[t] = r
    BY <1>2, <2>1 DEF Waits
  <2>5. RpcCall(t)' = "failed"
    BY <2>4 DEF RpcCall
  <2> QED BY <1>3, <2>2, <2>3, <2>5, OneMoves
<1>5. CASE ~(\E t \in Tasks : Waits(t, s) /\ op[t] = "exchange")
  BY <1>3, <1>5, Stutters
<1> QED BY <1>4, <1>5

\* A step of the connection after which no untagged exchange has lapsed is a step of the channel, or
\* none.
LEMMA SteadyStep ==
  ASSUME IInv, IInv', [Next]_vars, lapsed' = lapsed
  PROVE  Rpc!Next \/ UNCHANGED Rpc!vars
<1> USE TaskAssumption, KeyAssumption, BoundAssumption, StallAssumption
    DEF Tasks, Keys, Slots, callVars, actorVars, hbVars, deviceVars
<1> /\ TypeOK /\ CallShape /\ RequestShape /\ ActorShape /\ HeartbeatShape
    /\ OneReceiver /\ OneSender /\ SendersAgree /\ CancelsAreLate /\ NeverReplaced'
  BY DEF IInv, Shape, Ownership
<1> NamesFollow
  BY NamesStep
<1>0. CASE UNCHANGED vars
  <2>1. \A u \in Tasks : RpcCall(u)' = RpcCall(u)
    BY <1>0 DEF vars, RpcCall
  <2> QED BY <1>0, <2>1, Stutters DEF vars
<1>1. ASSUME NEW t \in Tasks, Submit(t) PROVE Rpc!Next \/ UNCHANGED Rpc!vars
  <2>1. /\ phase' = [phase EXCEPT ![t] = "wait"] /\ phase[t] = "submit"
        /\ UNCHANGED <<op, key, slot, reply, outstanding, actor>>
    BY <1>1 DEF Submit
  <2>2. ASSUME NEW u \in Tasks, u # t PROVE RpcCall(u)' = RpcCall(u)
    <3>1. op'[u] = op[u] /\ phase'[u] = phase[u] /\ reply'[u] = reply[u] /\ (Listed(u)' <=> Listed(u))
      BY <2>1, <2>2 DEF TypeOK, Listed
    <3> QED BY <3>1, SameCall
  <2>3. RpcCall(t)' = RpcCall(t)
    <3>1. CASE op[t] = "exchange"
      <4>1. ~Listed(t) /\ RpcCall(t) = "open"
        BY <2>1, <3>1, NotYetListed, CallValues
      <4>2. ~Listed(t)'
        BY <2>1, <4>1 DEF Listed
      <4>3. op'[t] = "exchange" /\ phase'[t] = "wait" /\ reply'[t] = "none"
        BY <2>1, <3>1 DEF TypeOK, CallShape
      <4>4. RpcCall(t)' = "open"
        BY <4>2, <4>3 DEF RpcCall, Listed
      <4> QED BY <4>1, <4>4
    <3>2. CASE op[t] # "exchange"
      BY <2>1, <3>2 DEF RpcCall
    <3> QED BY <3>1, <3>2
  <2> QED BY <2>1, <2>2, <2>3, Stutters
<1>2. ASSUME NEW t \in Tasks, SubmitFails(t) PROVE Rpc!Next \/ UNCHANGED Rpc!vars
  <2>1. /\ phase' = [phase EXCEPT ![t] = "idle"] /\ op' = [op EXCEPT ![t] = "none"]
        /\ key' = [key EXCEPT ![t] = None] /\ slot' = [slot EXCEPT ![t] = None]
        /\ reply' = [reply EXCEPT ![t] = "none"] /\ UNCHANGED <<outstanding, actor>>
    BY <1>2 DEF SubmitFails, Return
  <2>2. ASSUME NEW u \in Tasks, u # t PROVE RpcCall(u)' = RpcCall(u)
    <3>1. op'[u] = op[u] /\ phase'[u] = phase[u] /\ reply'[u] = reply[u] /\ (Listed(u)' <=> Listed(u))
      BY <2>1, <2>2 DEF TypeOK, Listed
    <3> QED BY <3>1, SameCall
  <2>3. op'[t] = "none"
    BY <2>1 DEF TypeOK
  <2>4. RpcCall(t)' = "idle"
    BY <2>3 DEF RpcCall
  <2>5. CASE RpcCall(t) # "idle"
    BY <2>1, <2>2, <2>4, <2>5, OneMoves
  <2>6. CASE RpcCall(t) = "idle"
    BY <2>1, <2>2, <2>4, <2>6, Stutters
  <2> QED BY <2>5, <2>6
<1>3. ASSUME NEW t \in Tasks, Receive(t) PROVE Rpc!Next \/ UNCHANGED Rpc!vars
  <2>1. /\ phase' = [phase EXCEPT ![t] = "idle"] /\ op' = [op EXCEPT ![t] = "none"]
        /\ key' = [key EXCEPT ![t] = None] /\ slot' = [slot EXCEPT ![t] = None]
        /\ reply' = [reply EXCEPT ![t] = "none"] /\ UNCHANGED <<outstanding, actor>>
    BY <1>3 DEF Receive, Return
  <2>2. ASSUME NEW u \in Tasks, u # t PROVE RpcCall(u)' = RpcCall(u)
    <3>1. op'[u] = op[u] /\ phase'[u] = phase[u] /\ reply'[u] = reply[u] /\ (Listed(u)' <=> Listed(u))
      BY <2>1, <2>2 DEF TypeOK, Listed
    <3> QED BY <3>1, SameCall
  <2>3. op'[t] = "none"
    BY <2>1 DEF TypeOK
  <2>4. RpcCall(t)' = "idle"
    BY <2>3 DEF RpcCall
  <2>5. CASE RpcCall(t) # "idle"
    BY <2>1, <2>2, <2>4, <2>5, OneMoves
  <2>6. CASE RpcCall(t) = "idle"
    BY <2>1, <2>2, <2>4, <2>6, Stutters
  <2> QED BY <2>5, <2>6
<1>4. ASSUME NEW t \in Tasks, Timeout(t) PROVE Rpc!Next \/ UNCHANGED Rpc!vars
  <2>1. /\ phase' = [phase EXCEPT ![t] = "giveup"] /\ Pending(t)
        /\ UNCHANGED <<op, key, slot, reply, outstanding, actor>>
    BY <1>4 DEF Timeout, Pending
  <2>2. ASSUME NEW u \in Tasks, u # t PROVE RpcCall(u)' = RpcCall(u)
    <3>1. op'[u] = op[u] /\ phase'[u] = phase[u] /\ reply'[u] = reply[u] /\ (Listed(u)' <=> Listed(u))
      BY <2>1, <2>2 DEF TypeOK, Listed
    <3> QED BY <3>1, SameCall
  <2>3. op'[t] = "exchange" /\ phase'[t] = "giveup"
    BY <2>1 DEF TypeOK, Pending
  <2>4. RpcCall(t)' = "failed"
    BY <2>3 DEF RpcCall
  <2>5. RpcCall(t) \in {"open", "sent"}
    BY <2>1, CallValues
  <2> QED BY <2>1, <2>2, <2>4, <2>5, OneMoves
<1>5. ASSUME NEW t \in Tasks, SendCancel(t) PROVE Rpc!Next \/ UNCHANGED Rpc!vars
  <2>1. /\ phase' = [phase EXCEPT ![t] = "idle"] /\ op' = [op EXCEPT ![t] = "none"]
        /\ key' = [key EXCEPT ![t] = None] /\ slot' = [slot EXCEPT ![t] = None]
        /\ reply' = [reply EXCEPT ![t] = "none"] /\ UNCHANGED <<outstanding, actor>>
    BY <1>5 DEF SendCancel, Return
  <2>2. ASSUME NEW u \in Tasks, u # t PROVE RpcCall(u)' = RpcCall(u)
    <3>1. op'[u] = op[u] /\ phase'[u] = phase[u] /\ reply'[u] = reply[u] /\ (Listed(u)' <=> Listed(u))
      BY <2>1, <2>2 DEF TypeOK, Listed
    <3> QED BY <3>1, SameCall
  <2>3. op'[t] = "none"
    BY <2>1 DEF TypeOK
  <2>4. RpcCall(t)' = "idle"
    BY <2>3 DEF RpcCall
  <2>5. CASE RpcCall(t) # "idle"
    BY <2>1, <2>2, <2>4, <2>5, OneMoves
  <2>6. CASE RpcCall(t) = "idle"
    BY <2>1, <2>2, <2>4, <2>6, Stutters
  <2> QED BY <2>5, <2>6
<1>6. ASSUME NEW c \in Callers, StartExchange(c) PROVE Rpc!Next \/ UNCHANGED Rpc!vars
  <2>1. PICK k, s : Begin(c, "exchange", k, s)
    BY <1>6 DEF StartExchange
  <2>2. phase[c] = "idle" /\ UNCHANGED <<outstanding, actor>>
    BY <1>6 DEF StartExchange, HeartbeatShape
  <2>3. op[c] = "none" /\ RpcCall(c) = "idle"
    BY <2>2 DEF CallShape, RpcCall
  <2>4. ASSUME NEW u \in Tasks, u # c PROVE RpcCall(u)' = RpcCall(u)
    <3>1. op'[u] = op[u] /\ phase'[u] = phase[u] /\ reply'[u] = reply[u] /\ (Listed(u)' <=> Listed(u))
      BY <2>1, <2>2, <2>4 DEF Begin, TypeOK, Listed
    <3> QED BY <3>1, SameCall
  <2>5. op'[c] = "exchange" /\ phase'[c] = "submit"
    BY <2>1 DEF Begin, TypeOK
  <2>6. RpcCall(c)' = "open"
    BY <2>5 DEF RpcCall
  <2> QED BY <2>2, <2>3, <2>4, <2>6, OneMoves
<1>7. ASSUME NEW c \in Callers, StartUntagged(c) PROVE Rpc!Next \/ UNCHANGED Rpc!vars
  <2>1. PICK k, s : Begin(c, "exchange", k, s)
    BY <1>7 DEF StartUntagged
  <2>2. phase[c] = "idle" /\ UNCHANGED <<outstanding, actor>>
    BY <1>7 DEF StartUntagged, HeartbeatShape
  <2>3. op[c] = "none" /\ RpcCall(c) = "idle"
    BY <2>2 DEF CallShape, RpcCall
  <2>4. ASSUME NEW u \in Tasks, u # c PROVE RpcCall(u)' = RpcCall(u)
    <3>1. op'[u] = op[u] /\ phase'[u] = phase[u] /\ reply'[u] = reply[u] /\ (Listed(u)' <=> Listed(u))
      BY <2>1, <2>2, <2>4 DEF Begin, TypeOK, Listed
    <3> QED BY <3>1, SameCall
  <2>5. op'[c] = "exchange" /\ phase'[c] = "submit"
    BY <2>1 DEF Begin, TypeOK
  <2>6. RpcCall(c)' = "open"
    BY <2>5 DEF RpcCall
  <2> QED BY <2>2, <2>3, <2>4, <2>6, OneMoves
<1>8. ASSUME NEW c \in Callers, StartSend(c) PROVE Rpc!Next \/ UNCHANGED Rpc!vars
  <2>1. PICK k, s : Begin(c, "send", k, s)
    BY <1>8 DEF StartSend
  <2>2. phase[c] = "idle" /\ UNCHANGED <<outstanding, actor>>
    BY <1>8 DEF StartSend, HeartbeatShape
  <2>3. op[c] = "none" /\ RpcCall(c) = "idle"
    BY <2>2 DEF CallShape, RpcCall
  <2>4. ASSUME NEW u \in Tasks, u # c PROVE RpcCall(u)' = RpcCall(u)
    <3>1. op'[u] = op[u] /\ phase'[u] = phase[u] /\ reply'[u] = reply[u] /\ (Listed(u)' <=> Listed(u))
      BY <2>1, <2>2, <2>4 DEF Begin, TypeOK, Listed
    <3> QED BY <3>1, SameCall
  <2>5. op'[c] = "send"
    BY <2>1 DEF Begin, TypeOK
  <2>6. RpcCall(c)' = "idle"
    BY <2>5 DEF RpcCall
  <2> QED BY <2>2, <2>3, <2>4, <2>6, Stutters
<1>9. ASSUME NEW c \in Callers, StartClose(c) PROVE Rpc!Next \/ UNCHANGED Rpc!vars
  <2>1. PICK k, s : Begin(c, "close", k, s)
    BY <1>9 DEF StartClose
  <2>2. phase[c] = "idle" /\ UNCHANGED <<outstanding, actor>>
    BY <1>9 DEF StartClose, HeartbeatShape
  <2>3. op[c] = "none" /\ RpcCall(c) = "idle"
    BY <2>2 DEF CallShape, RpcCall
  <2>4. ASSUME NEW u \in Tasks, u # c PROVE RpcCall(u)' = RpcCall(u)
    <3>1. op'[u] = op[u] /\ phase'[u] = phase[u] /\ reply'[u] = reply[u] /\ (Listed(u)' <=> Listed(u))
      BY <2>1, <2>2, <2>4 DEF Begin, TypeOK, Listed
    <3> QED BY <3>1, SameCall
  <2>5. op'[c] = "close"
    BY <2>1 DEF Begin, TypeOK
  <2>6. RpcCall(c)' = "idle"
    BY <2>5 DEF RpcCall
  <2> QED BY <2>2, <2>3, <2>4, <2>6, Stutters
<1>10. ASSUME NEW c \in Callers, SubmitClose(c) PROVE Rpc!Next \/ UNCHANGED Rpc!vars
  <2>1. /\ phase' = [phase EXCEPT ![c] = "wait", ![Heartbeat] = "idle"]
        /\ op' = [op EXCEPT ![Heartbeat] = "none"] /\ key' = [key EXCEPT ![Heartbeat] = None]
        /\ slot' = [slot EXCEPT ![Heartbeat] = None] /\ reply' = [reply EXCEPT ![Heartbeat] = "none"]
        /\ UNCHANGED <<outstanding, actor>> /\ op[c] = "close"
    BY <1>10 DEF SubmitClose, AbortHeartbeat
  <2>2. ASSUME NEW u \in Tasks, u # Heartbeat PROVE RpcCall(u)' = RpcCall(u)
    <3>1. /\ op'[u] = op[u] /\ reply'[u] = reply[u] /\ (Listed(u)' <=> Listed(u))
          /\ op[u] = "exchange" => phase'[u] = phase[u]
      BY <2>1, <2>2 DEF TypeOK, Listed
    <3> QED BY <3>1, SameCall
  <2>3. op'[Heartbeat] = "none"
    BY <2>1 DEF TypeOK
  <2>4. RpcCall(Heartbeat)' = "idle"
    BY <2>3 DEF RpcCall
  <2>5. CASE RpcCall(Heartbeat) # "idle"
    BY <2>1, <2>2, <2>4, <2>5, OneMoves
  <2>6. CASE RpcCall(Heartbeat) = "idle"
    BY <2>1, <2>2, <2>4, <2>6, Stutters
  <2> QED BY <2>5, <2>6
<1>11. ASSUME EnableHeartbeat PROVE Rpc!Next \/ UNCHANGED Rpc!vars
  <2>1. /\ phase' = [phase EXCEPT ![Heartbeat] = "idle"]
        /\ op' = [op EXCEPT ![Heartbeat] = "none"] /\ key' = [key EXCEPT ![Heartbeat] = None]
        /\ slot' = [slot EXCEPT ![Heartbeat] = None] /\ reply' = [reply EXCEPT ![Heartbeat] = "none"]
        /\ UNCHANGED <<outstanding, actor>>
    BY <1>11 DEF EnableHeartbeat, AbortHeartbeat
  <2>2. ASSUME NEW u \in Tasks, u # Heartbeat PROVE RpcCall(u)' = RpcCall(u)
    <3>1. /\ op'[u] = op[u] /\ reply'[u] = reply[u] /\ (Listed(u)' <=> Listed(u))
          /\ op[u] = "exchange" => phase'[u] = phase[u]
      BY <2>1, <2>2 DEF TypeOK, Listed
    <3> QED BY <3>1, SameCall
  <2>3. op'[Heartbeat] = "none"
    BY <2>1 DEF TypeOK
  <2>4. RpcCall(Heartbeat)' = "idle"
    BY <2>3 DEF RpcCall
  <2>5. CASE RpcCall(Heartbeat) # "idle"
    BY <2>1, <2>2, <2>4, <2>5, OneMoves
  <2>6. CASE RpcCall(Heartbeat) = "idle"
    BY <2>1, <2>2, <2>4, <2>6, Stutters
  <2> QED BY <2>5, <2>6
<1>12. ASSUME Beat PROVE Rpc!Next \/ UNCHANGED Rpc!vars
  <2>1. PICK k, s : Begin(Heartbeat, "exchange", k, s)
    BY <1>12 DEF Beat
  <2>2. phase[Heartbeat] = "idle" /\ UNCHANGED <<outstanding, actor>>
    BY <1>12 DEF Beat, HeartbeatShape
  <2>3. op[Heartbeat] = "none" /\ RpcCall(Heartbeat) = "idle"
    BY <2>2 DEF CallShape, RpcCall
  <2>4. ASSUME NEW u \in Tasks, u # Heartbeat PROVE RpcCall(u)' = RpcCall(u)
    <3>1. op'[u] = op[u] /\ phase'[u] = phase[u] /\ reply'[u] = reply[u] /\ (Listed(u)' <=> Listed(u))
      BY <2>1, <2>2, <2>4 DEF Begin, TypeOK, Listed
    <3> QED BY <3>1, SameCall
  <2>5. op'[Heartbeat] = "exchange" /\ phase'[Heartbeat] = "submit"
    BY <2>1 DEF Begin, TypeOK
  <2>6. RpcCall(Heartbeat)' = "open"
    BY <2>5 DEF RpcCall
  <2> QED BY <2>2, <2>3, <2>4, <2>6, OneMoves
<1>13. ASSUME KillConnection PROVE Rpc!Next \/ UNCHANGED Rpc!vars
  <2>1. /\ UNCHANGED <<phase, op, key, slot, reply, outstanding>>
        /\ actor' = "serving" <=> actor = "serving"
    BY <1>13 DEF KillConnection
  <2>2. ASSUME NEW u \in Tasks PROVE RpcCall(u)' = RpcCall(u)
    <3>1. Listed(u)' <=> Listed(u)
      BY <2>1 DEF Listed
    <3> QED BY <2>1, <3>1, SameCall
  <2> QED BY <2>1, <2>2, Stutters
<1>14. ASSUME TakeWrite PROVE Rpc!Next \/ UNCHANGED Rpc!vars
  <2>1. /\ UNCHANGED <<phase, op, key, slot, reply, outstanding>>
        /\ actor' = "serving" <=> actor = "serving"
    BY <1>14 DEF TakeWrite
  <2>2. ASSUME NEW u \in Tasks PROVE RpcCall(u)' = RpcCall(u)
    <3>1. Listed(u)' <=> Listed(u)
      BY <2>1 DEF Listed
    <3> QED BY <2>1, <3>1, SameCall
  <2> QED BY <2>1, <2>2, Stutters
<1>15. ASSUME WriteOk PROVE Rpc!Next \/ UNCHANGED Rpc!vars
  <2>1. UNCHANGED <<phase, op, key, slot, actor>> /\ writing # None /\ actor = "serving"
    BY <1>15 DEF WriteOk, ActorShape
  <2>2. CASE writing.op # "exchange"
    <3>1. Resolve(writing.slot, "done") /\ UNCHANGED outstanding
      BY <1>15, <2>2 DEF WriteOk
    <3> QED BY <2>1, <3>1, ResolveDecides
  <2>3. CASE writing.op = "exchange"
    <3> DEFINE k == writing.key  s == writing.slot
    <3>1. /\ k \in Keys /\ s \in Ids /\ s # None
          /\ outstanding' = [outstanding EXCEPT ![k] = s] /\ Resolve(outstanding[k], "replaced")
      BY <1>15, <2>1, <2>3 DEF WriteOk, RequestShape, ExchangeShape
    <3>2. \A t \in Tasks : ~Waits(t, outstanding[k])
      BY <3>1 DEF Resolve, NeverReplaced
    <3>3. \A t \in Tasks : reply'[t] = reply[t]
      BY <3>1, <3>2 DEF Resolve, TypeOK
    <3>4. \A t \in Tasks : slot[t] = s => key[t] = k
      BY <2>1, <2>3 DEF SendersAgree, Agrees
    <3>5. \A j \in Keys : outstanding[j] # s
      BY <2>1, <3>1 DEF OneSender
    <3> HIDE DEF k, s
    <3>6. ASSUME NEW t \in Tasks, ~(Pending(t) /\ slot[t] = s) PROVE RpcCall(t)' = RpcCall(t)
      <4>1. ASSUME Pending(t) PROVE Listed(t)' <=> Listed(t)
        <5>1. key[t] \in Keys /\ slot[t] # s /\ slot[t] \in Ids
          BY <3>6, <4>1 DEF Pending, CallShape
        <5>2. CASE key[t] = k
          <6>1. ~Listed(t)
            BY <3>2, <4>1, <5>2 DEF Listed, Waits, Pending
          <6>2. ~Listed(t)'
            BY <2>1, <3>1, <5>1, <5>2 DEF Listed, TypeOK
          <6> QED BY <6>1, <6>2
        <5>3. CASE key[t] # k
          BY <2>1, <3>1, <5>1, <5>3 DEF Listed, TypeOK
        <5> QED BY <5>2, <5>3
      <4>2. op'[t] = op[t] /\ phase'[t] = phase[t] /\ reply'[t] = reply[t]
        BY <2>1, <3>3
      <4> QED BY <4>1, <4>2, SameCall
    <3>7. CASE \E t \in Tasks : Pending(t) /\ slot[t] = s
      <4>1. PICK t \in Tasks : Pending(t) /\ slot[t] = s
        BY <3>7
      <4>2. \A u \in Tasks : u # t => slot[u] # s
        BY <3>1, <4>1 DEF OneReceiver
      <4>3. key[t] = k /\ ~Listed(t)
        BY <3>1, <3>4, <3>5, <4>1 DEF Listed
      <4>4. RpcCall(t) = "open"
        BY <4>1, <4>3, CallValues
      <4>5. Listed(t)' /\ Pending(t)'
        BY <2>1, <3>1, <3>3, <4>1, <4>3 DEF Listed, TypeOK, Pending
      <4>6. RpcCall(t)' = "sent"
        BY <4>5 DEF RpcCall, Listed, Pending
      <4>7. \A u \in Tasks : u # t => RpcCall(u)' = RpcCall(u)
        BY <3>6, <4>2
      <4> QED BY <2>1, <4>4, <4>6, <4>7, OneMoves
    <3>8. CASE ~(\E t \in Tasks : Pending(t) /\ slot[t] = s)
      BY <2>1, <3>6, <3>8, Stutters
    <3> QED BY <3>7, <3>8
  <2> QED BY <2>2, <2>3
<1>16. ASSUME WriteFails PROVE Rpc!Next \/ UNCHANGED Rpc!vars
  <2>1. Resolve(writing.slot, "failed") /\ UNCHANGED <<phase, op, key, slot, outstanding, actor>>
    BY <1>16 DEF WriteFails
  <2> QED BY <2>1, ResolveDecides
<1>17. ASSUME ServeCancel PROVE Rpc!Next \/ UNCHANGED Rpc!vars
  <2>1. /\ requests # <<>> /\ Head(requests).op = "cancel"
        /\ outstanding' = [outstanding EXCEPT ![Head(requests).key] = None]
        /\ UNCHANGED <<phase, op, key, slot, reply, actor>>
    BY <1>17 DEF ServeCancel
  <2>2. Head(requests) = requests[1] /\ 1 \in 1 .. Len(requests)
    BY <2>1, TailFacts DEF TypeOK
  <2> DEFINE k == Head(requests).key
  <2>3. k \in Keys /\ (outstanding[k] # None => Abandoned(outstanding[k]))
    BY <2>1, <2>2 DEF RequestShape, CancelsAreLate
  <2> HIDE DEF k
  <2>4. ASSUME NEW u \in Tasks PROVE RpcCall(u)' = RpcCall(u)
    <3>1. ASSUME Pending(u) PROVE Listed(u)' <=> Listed(u)
      <4>1. key[u] \in Keys /\ slot[u] # None
        BY <3>1 DEF Pending, CallShape
      <4>2. CASE key[u] = k
        <5>1. ~Listed(u)
          BY <2>3, <4>1, <4>2 DEF Listed, Abandoned
        <5>2. ~Listed(u)'
          BY <2>1, <4>1, <4>2 DEF Listed, TypeOK, k
        <5> QED BY <5>1, <5>2
      <4>3. CASE key[u] # k
        BY <2>1, <4>1, <4>3 DEF Listed, TypeOK, k
      <4> QED BY <4>2, <4>3
    <3> QED BY <2>1, <3>1, SameCall
  <2> QED BY <2>1, <2>4, Stutters
<1>18. ASSUME ServeShutdown PROVE Rpc!Next \/ UNCHANGED Rpc!vars
  <2>1. /\ requests # <<>> /\ Head(requests).op = "shutdown" /\ Resolve(Head(requests).slot, "done")
        /\ actor = "serving" /\ actor' = "stopping" /\ UNCHANGED <<phase, op, key, slot, outstanding>>
    BY <1>18 DEF ServeShutdown, Serving
  <2>2. Head(requests) = requests[1] /\ 1 \in 1 .. Len(requests)
    BY <2>1, TailFacts DEF TypeOK
  <2>3. Head(requests).slot \notin Ids
    BY <2>1, <2>2 DEF RequestShape
  <2>4. ASSUME NEW u \in Tasks PROVE RpcCall(u)' = RpcCall(u)
    <3>1. op[u] = "exchange" => reply'[u] = reply[u]
      BY <2>1, <2>3 DEF Resolve, Waits, CallShape, TypeOK
    <3>2. Listed(u)' <=> Listed(u)
      BY <2>1 DEF Listed
    <3> QED BY <2>1, <3>1, <3>2, SameCall
  <2> QED BY <2>1, <2>4, GoesDown
<1>19. ASSUME Dispatch PROVE Rpc!Next \/ UNCHANGED Rpc!vars
  <2> DEFINE k == Head(inbound).key  s == outstanding[k]
  <2>1. UNCHANGED <<phase, op, key, slot, actor>> /\ actor = "serving" /\ inbound # <<>>
    BY <1>19 DEF Dispatch, Serving
  <2>2. CASE k # None /\ s # None
    <3> DEFINE r == Answers(Head(inbound), s)
    <3>1. /\ outstanding' = [outstanding EXCEPT ![k] = None] /\ Resolve(s, r)
      BY <1>19, <2>2 DEF Dispatch
    <3>2. k \in Keys
      <4>1. Head(inbound) \in Inbound
        BY <2>1, TailFacts DEF TypeOK
      <4> QED BY <2>2, <4>1 DEF Inbound
    <3>3. s \in Ids /\ s # None
      BY <2>2, <3>2 DEF TypeOK
    <3>4. \A t \in Tasks : slot[t] = s => key[t] = k
      BY <2>2, <3>2 DEF SendersAgree, Agrees
    <3>5. s = outstanding[k]
      OBVIOUS
    <3>10. r = "answer" \/ (r = "misanswer" /\ k = TypeKey /\ lapsed)
      <4>1. Head(inbound) = inbound[1] /\ 1 \in 1 .. Len(inbound)
        BY <2>1 DEF TypeOK
      <4>2. CASE k \in Ids
        <5>1. Head(inbound).slot = k /\ outstanding[k] = k
          BY <2>2, <4>1, <4>2 DEF IInv, OwnAnswers, NamedAnswers, RequestShape
        <5> QED BY <5>1 DEF Answers
      <4>3. CASE k = TypeKey
        <5>1. ~lapsed => Head(inbound).slot = outstanding[TypeKey]
          BY <2>1, <4>1, <4>3 DEF IInv, OwnAnswers, OneAnswerDue, Untagged
        <5> QED BY <4>3, <5>1 DEF Answers
      <4> QED BY <3>2, <4>2, <4>3
    <3> HIDE DEF k, s, r
    <3>6. \A t \in Tasks : reply'[t] = IF Waits(t, s) THEN r ELSE reply[t]
      BY <3>1 DEF Resolve, TypeOK
    <3>7. ASSUME NEW t \in Tasks, ~(Pending(t) /\ slot[t] = s) PROVE RpcCall(t)' = RpcCall(t)
      <4>1. op[t] = "exchange" => reply'[t] = reply[t]
        BY <3>6, <3>7 DEF Waits, Pending
      <4>2. ASSUME Pending(t) PROVE Listed(t)' <=> Listed(t)
        <5>1. key[t] \in Keys /\ slot[t] # s /\ slot[t] \in Ids /\ slot[t] # None
          BY <3>7, <4>2 DEF Pending, CallShape
        <5>2. CASE key[t] = k
          <6>1. ~Listed(t)
            BY <3>5, <5>1, <5>2 DEF Listed
          <6>2. ~Listed(t)'
            BY <2>1, <3>1, <5>1, <5>2 DEF Listed, TypeOK
          <6> QED BY <6>1, <6>2
        <5>3. CASE key[t] # k
          BY <2>1, <3>1, <5>1, <5>3 DEF Listed, TypeOK
        <5> QED BY <5>2, <5>3
      <4> QED BY <2>1, <4>1, <4>2, SameCall
    <3>8. CASE \E t \in Tasks : Pending(t) /\ slot[t] = s
      <4>1. PICK t \in Tasks : Pending(t) /\ slot[t] = s
        BY <3>8
      <4>2. \A u \in Tasks : u # t => slot[u] # s
        BY <3>3, <4>1 DEF OneReceiver
      <4>3. key[t] = k /\ Listed(t)
        BY <3>4, <3>5, <4>1 DEF Listed
      <4>4. RpcCall(t) = "sent"
        BY <4>1, <4>3, CallValues
      <4>5. op'[t] = "exchange" /\ phase'[t] = "wait" /\ reply'[t] = r
        BY <2>1, <3>6, <4>1 DEF Pending, Waits
      <4>6. \/ RpcCall(t)' = "answered"
            \/ RpcCall(t)' = "misanswered" /\ key[t] = TypeKey /\ lapsed
        BY <3>10, <4>3, <4>5 DEF RpcCall
      <4>7. \A u \in Tasks : u # t => RpcCall(u)' = RpcCall(u)
        BY <3>7, <4>2
      <4> QED BY <2>1, <4>4, <4>6, <4>7, OneMoves
    <3>9. CASE ~(\E t \in Tasks : Pending(t) /\ slot[t] = s)
      BY <2>1, <3>7, <3>9, Stutters
    <3> QED BY <3>8, <3>9
  <2>3. CASE ~(k # None /\ s # None)
    <3>1. UNCHANGED <<outstanding, reply>>
      BY <1>19, <2>3 DEF Dispatch
    <3>2. ASSUME NEW u \in Tasks PROVE RpcCall(u)' = RpcCall(u)
      <4>1. Listed(u)' <=> Listed(u)
        BY <2>1, <3>1 DEF Listed
      <4> QED BY <2>1, <3>1, <4>1, SameCall
    <3> QED BY <2>1, <3>2, Stutters
  <2> QED BY <2>2, <2>3
<1>20. ASSUME ServeError PROVE Rpc!Next \/ UNCHANGED Rpc!vars
  <2>1. UNCHANGED <<phase, op, key, slot, reply, outstanding>> /\ actor = "serving" /\ actor' = "stopping"
    BY <1>20 DEF ServeError, Serving
  <2>2. ASSUME NEW u \in Tasks PROVE RpcCall(u)' = RpcCall(u)
    <3>1. Listed(u)' <=> Listed(u)
      BY <2>1 DEF Listed
    <3> QED BY <2>1, <3>1, SameCall
  <2> QED BY <2>1, <2>2, GoesDown
<1>21. ASSUME ServeEof PROVE Rpc!Next \/ UNCHANGED Rpc!vars
  <2>1. UNCHANGED <<phase, op, key, slot, reply, outstanding>> /\ actor = "serving" /\ actor' = "stopping"
    BY <1>21 DEF ServeEof, Serving
  <2>2. ASSUME NEW u \in Tasks PROVE RpcCall(u)' = RpcCall(u)
    <3>1. Listed(u)' <=> Listed(u)
      BY <2>1 DEF Listed
    <3> QED BY <2>1, <3>1, SameCall
  <2> QED BY <2>1, <2>2, GoesDown
<1>22. ASSUME Finish PROVE Rpc!Next \/ UNCHANGED Rpc!vars
  <2>1. /\ UNCHANGED <<phase, op, key, slot>> /\ actor = "stopping" /\ actor' = "draining"
        /\ outstanding' = [k \in Keys |-> None]
        /\ reply' = [t \in Tasks |->
             IF \E k \in Keys : outstanding[k] # None /\ Waits(t, outstanding[k])
             THEN "closed" ELSE reply[t]]
    BY <1>22 DEF Finish
  <2> DEFINE S == {t \in Tasks : Pending(t) /\ \E k \in Keys : outstanding[k] # None /\ Waits(t, outstanding[k])}
  <2>2. ASSUME NEW t \in S PROVE RpcCall(t) \in {"open", "sent"} /\ RpcCall(t)' = "failed"
    <3>1. Pending(t) /\ t \in Tasks
      OBVIOUS
    <3>2. op'[t] = "exchange" /\ phase'[t] = "wait" /\ reply'[t] = "closed"
      BY <2>1 DEF Pending
    <3>3. RpcCall(t)' = "failed"
      BY <3>2 DEF RpcCall
    <3> QED BY <3>1, <3>3, CallValues
  <2>3. ASSUME NEW t \in Tasks \ S PROVE RpcCall(t)' = RpcCall(t)
    <3>1. op[t] = "exchange" => reply'[t] = reply[t]
      BY <2>1 DEF Waits, Pending
    <3>2. ASSUME Pending(t) PROVE Listed(t)' <=> Listed(t)
      <4>1. key[t] \in Keys /\ slot[t] # None
        BY <3>2 DEF Pending, CallShape
      <4>2. ~Listed(t)
        BY <3>2, <4>1 DEF Listed, Pending, Waits
      <4>3. ~Listed(t)'
        BY <2>1, <4>1 DEF Listed
      <4> QED BY <4>2, <4>3
    <3> QED BY <2>1, <3>1, <3>2, SameCall
  <2> HIDE DEF S
  <2>4. S \in SUBSET Tasks
    BY DEF S
  <2> QED BY <2>1, <2>2, <2>3, <2>4, SomeFail
<1>23. ASSUME DropActor PROVE Rpc!Next \/ UNCHANGED Rpc!vars
  <2>1. /\ UNCHANGED <<phase, op, key, slot, outstanding>> /\ actor = "draining" /\ actor' = "stopped"
        /\ reply' = [t \in Tasks |->
             IF \E i \in 1 .. Len(requests) : requests[i].slot # None /\ Waits(t, requests[i].slot)
             THEN "closed" ELSE reply[t]]
    BY <1>23 DEF DropActor
  <2> DEFINE S == {t \in Tasks : Pending(t) /\ \E i \in 1 .. Len(requests) :
                                   requests[i].slot # None /\ Waits(t, requests[i].slot)}
  <2>2. ASSUME NEW t \in S PROVE RpcCall(t) \in {"open", "sent"} /\ RpcCall(t)' = "failed"
    <3>1. Pending(t) /\ t \in Tasks
      OBVIOUS
    <3>2. op'[t] = "exchange" /\ phase'[t] = "wait" /\ reply'[t] = "closed"
      BY <2>1 DEF Pending
    <3>3. RpcCall(t)' = "failed"
      BY <3>2 DEF RpcCall
    <3> QED BY <3>1, <3>3, CallValues
  <2>3. ASSUME NEW t \in Tasks \ S PROVE RpcCall(t)' = RpcCall(t)
    <3>1. op[t] = "exchange" => reply'[t] = reply[t]
      BY <2>1 DEF Waits, Pending
    <3>2. Listed(t)' <=> Listed(t)
      BY <2>1 DEF Listed
    <3> QED BY <2>1, <3>1, <3>2, SameCall
  <2> HIDE DEF S
  <2>4. S \in SUBSET Tasks
    BY DEF S
  <2> QED BY <2>1, <2>2, <2>3, <2>4, SomeFail
<1>24. ASSUME ReadAnswer PROVE Rpc!Next \/ UNCHANGED Rpc!vars
  <2>1. /\ UNCHANGED <<phase, op, key, slot, reply, outstanding>>
        /\ actor' = "serving" <=> actor = "serving"
    BY <1>24 DEF ReadAnswer
  <2>2. ASSUME NEW u \in Tasks PROVE RpcCall(u)' = RpcCall(u)
    <3>1. Listed(u)' <=> Listed(u)
      BY <2>1 DEF Listed
    <3> QED BY <2>1, <3>1, SameCall
  <2> QED BY <2>1, <2>2, Stutters
<1>25. ASSUME ReadPush PROVE Rpc!Next \/ UNCHANGED Rpc!vars
  <2>1. /\ UNCHANGED <<phase, op, key, slot, reply, outstanding>>
        /\ actor' = "serving" <=> actor = "serving"
    BY <1>25 DEF ReadPush
  <2>2. ASSUME NEW u \in Tasks PROVE RpcCall(u)' = RpcCall(u)
    <3>1. Listed(u)' <=> Listed(u)
      BY <2>1 DEF Listed
    <3> QED BY <2>1, <3>1, SameCall
  <2> QED BY <2>1, <2>2, Stutters
<1>26. ASSUME ReadEof PROVE Rpc!Next \/ UNCHANGED Rpc!vars
  <2>1. /\ UNCHANGED <<phase, op, key, slot, reply, outstanding>>
        /\ actor' = "serving" <=> actor = "serving"
    BY <1>26 DEF ReadEof
  <2>2. ASSUME NEW u \in Tasks PROVE RpcCall(u)' = RpcCall(u)
    <3>1. Listed(u)' <=> Listed(u)
      BY <2>1 DEF Listed
    <3> QED BY <2>1, <3>1, SameCall
  <2> QED BY <2>1, <2>2, Stutters
<1>27. ASSUME ReadError PROVE Rpc!Next \/ UNCHANGED Rpc!vars
  <2>1. /\ UNCHANGED <<phase, op, key, slot, reply, outstanding>>
        /\ actor' = "serving" <=> actor = "serving"
    BY <1>27 DEF ReadError
  <2>2. ASSUME NEW u \in Tasks PROVE RpcCall(u)' = RpcCall(u)
    <3>1. Listed(u)' <=> Listed(u)
      BY <2>1 DEF Listed
    <3> QED BY <2>1, <3>1, SameCall
  <2> QED BY <2>1, <2>2, Stutters
<1>28. ASSUME DeviceIgnore PROVE Rpc!Next \/ UNCHANGED Rpc!vars
  <2>1. /\ UNCHANGED <<phase, op, key, slot, reply, outstanding>>
        /\ actor' = "serving" <=> actor = "serving"
    BY <1>28 DEF DeviceIgnore
  <2>2. ASSUME NEW u \in Tasks PROVE RpcCall(u)' = RpcCall(u)
    <3>1. Listed(u)' <=> Listed(u)
      BY <2>1 DEF Listed
    <3> QED BY <2>1, <3>1, SameCall
  <2> QED BY <2>1, <2>2, Stutters
<1>29. ASSUME DeviceFails PROVE Rpc!Next \/ UNCHANGED Rpc!vars
  <2>1. /\ UNCHANGED <<phase, op, key, slot, reply, outstanding>>
        /\ actor' = "serving" <=> actor = "serving"
    BY <1>29 DEF DeviceFails
  <2>2. ASSUME NEW u \in Tasks PROVE RpcCall(u)' = RpcCall(u)
    <3>1. Listed(u)' <=> Listed(u)
      BY <2>1 DEF Listed
    <3> QED BY <2>1, <3>1, SameCall
  <2> QED BY <2>1, <2>2, Stutters
<1> QED
  BY <1>0, <1>1, <1>2, <1>3, <1>4, <1>5, <1>6, <1>7, <1>8, <1>9, <1>10, <1>11, <1>12, <1>13,
     <1>14, <1>15, <1>16, <1>17, <1>18, <1>19, <1>20, <1>21, <1>22, <1>23, <1>24, <1>25, <1>26, <1>27,
     <1>28, <1>29
     DEF Next, CallStep, CallerStart, HeartbeatStep, ActorStep, ReaderStep, DeviceStep

\* When an untagged exchange times out, RpcChannel fails its call and lets it lapse.
LEMMA LapseStep ==
  ASSUME IInv, IInv', [Next]_vars, lapsed' # lapsed
  PROVE  Rpc!Next
<1> /\ TypeOK /\ CallShape /\ NamesFollow
  BY NamesStep DEF IInv, Shape
<1>1. PICK t \in Tasks : Timeout(t)
  BY DEF Next, CallStep, CallerStart, HeartbeatStep, ActorStep, ReaderStep, DeviceStep, vars,
     deviceVars, Submit, SubmitFails, Receive, SendCancel, StartExchange, StartUntagged, StartSend,
     StartClose, SubmitClose, EnableHeartbeat, Beat, KillConnection, TakeWrite, WriteOk, WriteFails,
     ServeCancel, ServeShutdown, Dispatch, ServeError, ServeEof, Finish, DropActor, ReadAnswer, ReadPush,
     ReadEof, ReadError, DeviceIgnore, DeviceFails
<1>2. /\ phase' = [phase EXCEPT ![t] = "giveup"] /\ Pending(t) /\ lapsed' = (lapsed \/ key[t] = TypeKey)
      /\ UNCHANGED <<op, key, slot, reply, outstanding, actor>>
  BY <1>1 DEF Timeout, Pending, actorVars
<1>3. ~lapsed /\ lapsed' /\ key[t] = TypeKey
  BY <1>2 DEF TypeOK
<1>4. ASSUME NEW u \in Tasks, u # t PROVE RpcCall(u)' = RpcCall(u)
  <2>1. op'[u] = op[u] /\ phase'[u] = phase[u] /\ reply'[u] = reply[u] /\ (Listed(u)' <=> Listed(u))
    BY <1>2, <1>4 DEF TypeOK, Listed
  <2> QED BY <2>1, SameCall
<1>5. op'[t] = "exchange" /\ phase'[t] = "giveup"
  BY <1>2 DEF TypeOK, Pending
<1>6. RpcCall(t)' = "failed"
  BY <1>5 DEF RpcCall
<1>7. RpcCall(t) \in {"open", "sent"}
  BY <1>2, CallValues
<1> DEFINE call == [u \in Tasks |-> RpcCall(u)]
           up == actor = "serving"
           names == {u \in Tasks : key[u] = TypeKey}
<1>8. call' = [u \in Tasks |-> IF u \in {t} THEN "failed" ELSE call[u]] /\ call[t] \in {"open", "sent"}
  BY <1>4, <1>6, <1>7 DEF Tasks
<1>9. names' = names /\ t \in names
  BY <1>2, <1>3
<1>10. up' = up
  BY <1>2
<1> HIDE DEF call, up, names
<1>11. lapsed' = TRUE /\ (lapsed \/ {t} \cap names # {}) = TRUE
  BY <1>3, <1>9 DEF TypeOK
<1>12. Rpc!Fail({t})
  BY <1>8, <1>9, <1>10, <1>11 DEF Rpc!Fail, call, up, names
<1> QED BY <1>12 DEF Rpc!Next

\* Every step of the connection is a step of the channel, or none.
LEMMA RpcStep == IInv /\ IInv' /\ [Next]_vars => Rpc!Next \/ UNCHANGED Rpc!vars
  BY SteadyStep, LapseStep

\* Every exchange behaves as RpcChannel says: it is answered only once its request was written and
\* its sender is in the table, only while the actor serves, and only once, whatever is cancelled, late
\* or lost; by the answer to its own request if it is tagged, and if it is not, unless an untagged
\* exchange has timed out before.
THEOREM ConnectionImplementsRpcChannel == Spec => ImplementsRpcChannel
<1>1. Init => Rpc!Init
  <2> SUFFICES ASSUME Init PROVE Rpc!Init
    OBVIOUS
  <2>1. \A t \in Tasks : RpcCall(t) = "idle"
    BY DEF Init, RpcCall
  <2>2. [t \in Tasks |-> RpcCall(t)] = [t \in Tasks |-> "idle"]
    BY <2>1
  <2>3. (actor = "serving") = TRUE
    BY Zenon DEF Init
  <2>4. {t \in Tasks : key[t] = TypeKey} = {} /\ lapsed = FALSE
    BY KeyAssumption DEF Init, Tasks
  <2> QED BY <2>2, <2>3, <2>4 DEF Rpc!Init
<1>2. IInv /\ IInv' /\ [Next]_vars => [Rpc!Next]_Rpc!vars
  BY RpcStep
<1> QED BY <1>1, <1>2, Inductive, PTL DEF Spec, ImplementsRpcChannel, Rpc!Spec
===============================================================================

---------------------------- MODULE MrpProtocol ----------------------------
(***************************************************************************)
(* One MRP connection: the tasks of crates/pyatv-proto-mrp/src/protocol.   *)
(* Caller tasks and the heartbeat push requests into a bounded channel; an *)
(* actor task writes them, keeps the table of outstanding exchanges and    *)
(* dispatches what a reader task drains from the transport.  The device    *)
(* and the two directions of the socket are external.  Message contents    *)
(* are abstracted to the correlation key; what an uncorrelated message     *)
(* does to the player model is another module's business.                  *)
(***************************************************************************)
EXTENDS Naturals, Sequences, FiniteSets

CONSTANTS
  Callers,          \* tasks that call send, exchange and close
  Heartbeat,        \* the heartbeat task
  Ids,              \* identifiers (UUIDs) of exchanges, and of the oneshots they wait on
  TypeKey,          \* the synthetic "type_<n>" key of untagged exchanges
  None,
  RequestQueue,     \* REQUEST_QUEUE, capacity of the request channel
  InboundQueue,     \* INBOUND_QUEUE, capacity of the inbound channel
  HeartbeatRetries, \* HEARTBEAT_RETRIES
  MaxEnables,       \* bound on calls of enable_heartbeat
  CallerOps,        \* which of the four calls the callers make
  MayStall          \* whether the device may stop reading its socket

ASSUME TaskAssumption == Heartbeat \notin Callers /\ None \notin Callers \cup {Heartbeat}
ASSUME KeyAssumption ==
  /\ TypeKey \notin Ids /\ None \notin Ids \cup {TypeKey}
  /\ (Ids \cup {TypeKey}) \cap (Callers \cup {Heartbeat}) = {}
ASSUME BoundAssumption ==
  /\ RequestQueue \in Nat \ {0} /\ InboundQueue \in Nat \ {0}
  /\ HeartbeatRetries \in Nat /\ MaxEnables \in Nat
ASSUME OpsAssumption == CallerOps \subseteq {"exchange", "untagged", "send", "close"}
ASSUME StallAssumption == MayStall \in BOOLEAN

Tasks == Callers \cup {Heartbeat}
Keys == Ids \cup {TypeKey}

\* A oneshot channel: an exchange's is named by a fresh identifier, which is also its key when it
\* is tagged; send and close wait to the end, so theirs can be named by the task.
Slots == Ids \cup Callers

\* Request of protocol/actor.rs; "slot" is the oneshot sender it carries, None once dropped.
Request == [op : {"exchange", "send", "cancel", "shutdown"}, key : Keys \cup {None},
            slot : Slots \cup {None}]

ASSUME NoneAssumption == None \notin Request

\* A request on its way through the device, and what the reader hands to the actor.  "slot" says
\* which exchange a message answers: the program cannot tell it from the message.
Asked == [key : Keys, slot : Ids]
Inbound == [kind : {"message", "error"}, key : Keys \cup {None}, slot : Ids \cup {None}]

VARIABLES
  phase,        \* where each task is inside exchange, send or close
  op,           \* which of the three it is in
  key,          \* the correlation key of its exchange
  slot,         \* the oneshot it waits on
  reply,        \* what its oneshot receiver holds
  requests,     \* the request channel
  writing,      \* the request the actor is writing, or None
  outstanding,  \* Actor.outstanding: the oneshot sender each key holds
  inbound,      \* the inbound channel
  reader,       \* the reader task
  actor,        \* progress of Actor::run
  stop,         \* Stopped: why serve returned
  closing,      \* ghost: "asked" once a close() enqueued its Shutdown, "returned" after one returned
  heard,        \* callbacks made on the DeviceListener
  hb,           \* progress of heartbeat::run
  attempts,     \* heartbeat::run's consecutive failures
  enables,      \* ghost: how often enable_heartbeat has been called
  orphans,      \* ghost: keys whose exchange future was aborted
  lapsed,       \* ghost: whether an untagged exchange has timed out
  device,       \* the device and its side of the socket
  accepted      \* the exchanges written and not yet answered or ignored

callVars == <<phase, op, key, slot, reply>>
actorVars == <<writing, outstanding, actor, stop, heard>>
hbVars == <<hb, attempts, enables, orphans>>
deviceVars == <<device, accepted, lapsed>>
vars == <<callVars, requests, actorVars, inbound, reader, closing, hbVars, deviceVars>>

-----------------------------------------------------------------------------

Init ==
  /\ phase = [t \in Tasks |-> "idle"]
  /\ op = [t \in Tasks |-> "none"]
  /\ key = [t \in Tasks |-> None]
  /\ slot = [t \in Tasks |-> None]
  /\ reply = [t \in Tasks |-> "none"]
  /\ requests = <<>>
  /\ writing = None
  /\ outstanding = [k \in Keys |-> None]
  /\ inbound = <<>>
  /\ reader = "reading"
  /\ actor = "serving"
  /\ stop = "none"
  /\ closing = "no"
  /\ heard = <<>>
  /\ hb = "off"
  /\ attempts = 0
  /\ enables = 0
  /\ orphans = {}
  /\ lapsed = FALSE
  /\ device = "up"
  /\ accepted = {}

-----------------------------------------------------------------------------
(* Calls: MrpProtocol::send, ::exchange and ::close, actor::exchange. *)

\* Uuid::new_v4 and oneshot::channel: an identifier found nowhere else in the system.
InUse(k) ==
  \/ \E t \in Tasks : k \in {key[t], slot[t]}
  \/ \E i \in 1 .. Len(requests) : k \in {requests[i].key, requests[i].slot}
  \/ writing # None /\ k \in {writing.key, writing.slot}
  \/ \E j \in Keys : outstanding[j] = k
  \/ \E a \in accepted : a.slot = k
  \/ \E i \in 1 .. Len(inbound) : inbound[i].slot = k

Begin(t, o, k, s) ==
  /\ phase' = [phase EXCEPT ![t] = "submit"]
  /\ op' = [op EXCEPT ![t] = o]
  /\ key' = [key EXCEPT ![t] = k]
  /\ slot' = [slot EXCEPT ![t] = s]
  /\ reply' = [reply EXCEPT ![t] = "none"]

\* send_and_receive
StartExchange(c) ==
  /\ phase[c] = "idle" /\ "exchange" \in CallerOps
  /\ \E k \in Ids : /\ ~InUse(k)
                    /\ Begin(c, "exchange", k, k)
                    /\ orphans' = orphans \ {k}
  /\ UNCHANGED <<requests, actorVars, inbound, reader, closing, hb, attempts, enables, deviceVars>>

\* Mutant: two pairing procedures at once.
StartUntaggedConcurrently(c) ==
  /\ phase[c] = "idle" /\ "untagged" \in CallerOps
  /\ \E s \in Ids : /\ ~InUse(s)
                    /\ Begin(c, "exchange", TypeKey, s)
                    /\ orphans' = orphans \ {s}
  /\ UNCHANGED <<requests, actorVars, inbound, reader, closing, hb, attempts, enables, deviceVars>>

\* exchange_untagged: crypto-pairing messages, sent by one procedure at a time
StartUntagged(c) ==
  /\ phase[c] = "idle" /\ "untagged" \in CallerOps
  /\ \A t \in Tasks : key[t] # TypeKey
  /\ \E s \in Ids : /\ ~InUse(s)
                    /\ Begin(c, "exchange", TypeKey, s)
                    /\ orphans' = orphans \ {s}
  /\ UNCHANGED <<requests, actorVars, inbound, reader, closing, hb, attempts, enables, deviceVars>>

\* MrpProtocol::send
StartSend(c) ==
  /\ phase[c] = "idle" /\ "send" \in CallerOps
  /\ Begin(c, "send", None, c)
  /\ UNCHANGED <<requests, actorVars, inbound, reader, closing, hbVars, deviceVars>>

\* MrpProtocol::close
StartClose(c) ==
  /\ phase[c] = "idle" /\ "close" \in CallerOps
  /\ Begin(c, "close", None, c)
  /\ UNCHANGED <<requests, actorVars, inbound, reader, closing, hbVars, deviceVars>>

\* JoinHandle::abort on the heartbeat: its future vanishes, its table entry does not.
AbortHeartbeat ==
  /\ orphans' = IF phase[Heartbeat] \in {"wait", "giveup"}
                THEN orphans \cup {slot[Heartbeat]} ELSE orphans
  /\ key' = [key EXCEPT ![Heartbeat] = None]
  /\ slot' = [slot EXCEPT ![Heartbeat] = None]
  /\ reply' = [reply EXCEPT ![Heartbeat] = "none"]
  /\ op' = [op EXCEPT ![Heartbeat] = "none"]

\* mpsc::Sender::send: it waits for room, and fails once the receiver is gone.
Enqueues(r) ==
  /\ actor # "stopped"
  /\ Len(requests) < RequestQueue
  /\ requests' = Append(requests, r)

EnqueuesUnlessStopped(r) == Enqueues(r) \/ (actor = "stopped" /\ UNCHANGED requests)

\* The channel send inside exchange and send.
Submit(t) ==
  /\ phase[t] = "submit" /\ op[t] # "close"
  /\ Enqueues([op |-> op[t], key |-> key[t], slot |-> slot[t]])
  /\ phase' = [phase EXCEPT ![t] = "wait"]
  /\ UNCHANGED <<op, key, slot, reply, actorVars, inbound, reader, closing, hbVars, deviceVars>>

\* close() enqueues Shutdown, then takes and aborts the heartbeat.
SubmitClose(c) ==
  /\ phase[c] = "submit" /\ op[c] = "close"
  /\ Enqueues([op |-> "shutdown", key |-> None, slot |-> c])
  /\ closing' = IF closing = "no" THEN "asked" ELSE closing
  /\ phase' = [phase EXCEPT ![c] = "wait", ![Heartbeat] = "idle"]
  /\ AbortHeartbeat
  /\ hb' = IF hb = "off" THEN "off" ELSE "dead"
  /\ UNCHANGED <<actorVars, inbound, reader, attempts, enables, deviceVars>>

\* Mutant: compares the failures before counting the new one.
BeatReturnsLate(r) ==
  /\ attempts' = IF r = "ok" THEN 0 ELSE IF r = "closed" THEN attempts ELSE attempts + 1
  /\ hb' = CASE r = "ok" -> "sleep"
             [] r = "closed" -> "dead"
             [] OTHER -> IF attempts > HeartbeatRetries THEN "kill" ELSE "retry"

\* Mutant: forgets earlier failures.
BeatReturnsForgetful(r) ==
  /\ attempts' = 0
  /\ hb' = CASE r = "ok" -> "sleep"
             [] r = "closed" -> "dead"
             [] OTHER -> IF 1 > HeartbeatRetries THEN "kill" ELSE "retry"

\* heartbeat::run, after the match on exchange's result
BeatReturns(r) ==
  /\ attempts' = IF r = "ok" THEN 0 ELSE IF r = "closed" THEN attempts ELSE attempts + 1
  /\ hb' = CASE r = "ok" -> "sleep"
             [] r = "closed" -> "dead"
             [] OTHER -> IF attempts + 1 > HeartbeatRetries THEN "kill" ELSE "retry"

Return(t, r) ==
  /\ phase' = [phase EXCEPT ![t] = "idle"]
  /\ op' = [op EXCEPT ![t] = "none"]
  /\ key' = [key EXCEPT ![t] = None]
  /\ slot' = [slot EXCEPT ![t] = None]
  /\ reply' = [reply EXCEPT ![t] = "none"]
  /\ closing' = IF op[t] = "close" THEN "returned" ELSE closing
  /\ IF t = Heartbeat THEN BeatReturns(r) ELSE UNCHANGED <<hb, attempts>>

\* The channel send fails once the actor has dropped its receiver.
SubmitFails(t) ==
  /\ phase[t] = "submit"
  /\ actor = "stopped"
  /\ Return(t, "closed")
  /\ UNCHANGED <<requests, actorVars, inbound, reader, enables, orphans, deviceVars>>

\* The oneshot resolves before the deadline, with a result or because it was dropped.
Receive(t) ==
  /\ phase[t] = "wait"
  /\ reply[t] # "none"
  /\ Return(t, CASE reply[t] \in {"answer", "misanswer", "done"} -> "ok"
                 [] reply[t] = "closed" -> "closed"
                 [] OTHER -> "failed")
  /\ UNCHANGED <<requests, actorVars, inbound, reader, enables, orphans, deviceVars>>

\* tokio::time::timeout polls the oneshot first, so it only expires on an empty one.
Timeout(t) ==
  /\ phase[t] = "wait" /\ op[t] = "exchange"
  /\ reply[t] = "none"
  /\ phase' = [phase EXCEPT ![t] = "giveup"]
  /\ lapsed' = (lapsed \/ key[t] = TypeKey)
  /\ UNCHANGED <<op, key, slot, reply, requests, actorVars, inbound, reader, closing, hbVars, device, accepted>>

\* Mutant: the caller times out and leaves its entry behind.
SendNoCancel(t) ==
  /\ phase[t] = "giveup"
  /\ Return(t, "timeout")
  /\ UNCHANGED <<requests, actorVars, inbound, reader, enables, orphans, deviceVars>>

\* The Cancel that follows a timeout; exchange returns Error::Timeout either way.
SendCancel(t) ==
  /\ phase[t] = "giveup"
  /\ EnqueuesUnlessStopped([op |-> "cancel", key |-> key[t], slot |-> None])
  /\ Return(t, "timeout")
  /\ UNCHANGED <<actorVars, inbound, reader, enables, orphans, deviceVars>>

-----------------------------------------------------------------------------
(* The heartbeat: enable_heartbeat and heartbeat::run. *)

\* enable_heartbeat replaces a running heartbeat and aborts it.
EnableHeartbeat ==
  /\ enables < MaxEnables
  /\ enables' = enables + 1
  /\ hb' = "sleep"
  /\ attempts' = 0
  /\ phase' = [phase EXCEPT ![Heartbeat] = "idle"]
  /\ AbortHeartbeat
  /\ UNCHANGED <<requests, actorVars, inbound, reader, closing, deviceVars>>

\* The interval elapsed, or a retry with no delay.
Beat ==
  /\ hb \in {"sleep", "retry"}
  /\ \E k \in Ids : /\ ~InUse(k)
                    /\ Begin(Heartbeat, "exchange", k, k)
                    /\ orphans' = orphans \ {k}
  /\ hb' = "beating"
  /\ UNCHANGED <<requests, actorVars, inbound, reader, closing, attempts, enables, deviceVars>>

\* Past its retries the heartbeat sends Shutdown and returns.
KillConnection ==
  /\ hb = "kill"
  /\ EnqueuesUnlessStopped([op |-> "shutdown", key |-> None, slot |-> None])
  /\ hb' = "dead"
  /\ UNCHANGED <<callVars, actorVars, inbound, reader, closing, attempts, enables, orphans, deviceVars>>

-----------------------------------------------------------------------------
(* The actor: Actor::run, ::serve, ::handle_request, ::dispatch. *)

\* Does task t wait on oneshot s, with nothing in it yet?
Waits(t, s) == phase[t] = "wait" /\ slot[t] = s /\ reply[t] = "none"

\* oneshot::Sender::send, or its drop: lost when the receiver is gone
Resolve(s, r) ==
  reply' = [t \in Tasks |-> IF Waits(t, s) THEN r ELSE reply[t]]

Serving == actor = "serving" /\ writing = None

TakeWrite ==
  /\ Serving
  /\ requests # <<>> /\ Head(requests).op \in {"exchange", "send"}
  /\ writing' = Head(requests)
  /\ requests' = Tail(requests)
  /\ UNCHANGED <<callVars, outstanding, actor, stop, heard, inbound, reader, closing, hbVars, deviceVars>>

\* transport.send(...) = Ok: the exchange enters the table, replacing whoever held its key.
WriteOk ==
  /\ writing # None
  /\ device \in {"up", "mute", "closed"}
  /\ accepted' = IF device = "up" /\ writing.op = "exchange"
                 THEN accepted \cup {[key |-> writing.key, slot |-> writing.slot]} ELSE accepted
  /\ writing' = None
  /\ IF writing.op = "exchange"
     THEN /\ outstanding' = [outstanding EXCEPT ![writing.key] = writing.slot]
          /\ Resolve(outstanding[writing.key], "replaced")
     ELSE Resolve(writing.slot, "done") /\ UNCHANGED outstanding
  /\ UNCHANGED <<phase, op, key, slot, requests, actor, stop, heard, inbound, reader, closing, hbVars,
                 device, lapsed>>

\* transport.send(...) = Err
WriteFails ==
  /\ writing # None
  /\ device \in {"closed", "reset"}
  /\ writing' = None
  /\ Resolve(writing.slot, "failed")
  /\ UNCHANGED <<phase, op, key, slot, requests, outstanding, actor, stop, heard, inbound, reader, closing,
                 hbVars, deviceVars>>

\* Mutant: a Cancel is taken and ignored.
ServeCancelIgnored ==
  /\ Serving
  /\ requests # <<>> /\ Head(requests).op = "cancel"
  /\ requests' = Tail(requests)
  /\ UNCHANGED <<callVars, actorVars, inbound, reader, closing, hbVars, deviceVars>>

ServeCancel ==
  /\ Serving
  /\ requests # <<>> /\ Head(requests).op = "cancel"
  /\ outstanding' = [outstanding EXCEPT ![Head(requests).key] = None]
  /\ requests' = Tail(requests)
  /\ UNCHANGED <<callVars, writing, actor, stop, heard, inbound, reader, closing, hbVars, deviceVars>>

\* Shutdown closes the transport and leaves serve.
ServeShutdown ==
  /\ Serving
  /\ requests # <<>> /\ Head(requests).op = "shutdown"
  /\ Resolve(Head(requests).slot, "done")
  /\ requests' = Tail(requests)
  /\ actor' = "stopping" /\ stop' = "on_request"
  /\ UNCHANGED <<phase, op, key, slot, writing, outstanding, heard, inbound, reader, closing, hbVars, deviceVars>>

\* The message that resolves oneshot s is taken for its answer, whichever request it answers.
Answers(m, s) == IF m.slot = s THEN "answer" ELSE "misanswer"

\* Mutant: messages are still dispatched once serve has returned.
DispatchAnytime ==
  /\ writing = None /\ requests = <<>>
  /\ inbound # <<>> /\ Head(inbound).kind = "message"
  /\ inbound' = Tail(inbound)
  /\ LET k == Head(inbound).key
     IN IF k # None /\ outstanding[k] # None
        THEN /\ outstanding' = [outstanding EXCEPT ![k] = None]
             /\ Resolve(outstanding[k], Answers(Head(inbound), outstanding[k]))
        ELSE UNCHANGED <<outstanding, reply>>
  /\ UNCHANGED <<phase, op, key, slot, requests, writing, actor, stop, heard, reader, closing, hbVars,
                 deviceVars>>

\* dispatch: the select! is biased, so inbound is only polled when no request is queued.
Dispatch ==
  /\ Serving
  /\ requests = <<>>
  /\ inbound # <<>> /\ Head(inbound).kind = "message"
  /\ inbound' = Tail(inbound)
  /\ LET k == Head(inbound).key
     IN IF k # None /\ outstanding[k] # None
        THEN /\ outstanding' = [outstanding EXCEPT ![k] = None]
             /\ Resolve(outstanding[k], Answers(Head(inbound), outstanding[k]))
        ELSE UNCHANGED <<outstanding, reply>>
  /\ UNCHANGED <<phase, op, key, slot, requests, writing, actor, stop, heard, reader, closing, hbVars, deviceVars>>

ServeError ==
  /\ Serving
  /\ requests = <<>>
  /\ inbound # <<>> /\ Head(inbound).kind = "error"
  /\ inbound' = Tail(inbound)
  /\ actor' = "stopping" /\ stop' = "connection_lost"
  /\ UNCHANGED <<callVars, requests, writing, outstanding, heard, reader, closing, hbVars, deviceVars>>

\* Mutant: the end of the inbound channel is taken for an idle connection.
ServeEofIgnored ==
  /\ Serving
  /\ requests = <<>> /\ inbound = <<>> /\ reader = "ended"
  /\ UNCHANGED vars

ServeEof ==
  /\ Serving
  /\ requests = <<>>
  /\ inbound = <<>> /\ reader = "ended"
  /\ actor' = "stopping" /\ stop' = "peer_closed"
  /\ UNCHANGED <<callVars, requests, writing, outstanding, heard, inbound, reader, closing, hbVars, deviceVars>>

\* Mutant: the table is cleared, nobody is told.
FinishSilently ==
  /\ actor = "stopping"
  /\ actor' = "draining"
  /\ outstanding' = [k \in Keys |-> None]
  /\ heard' = CASE stop = "connection_lost" -> Append(heard, "connection_lost")
                [] stop = "peer_closed" -> Append(heard, "connection_closed")
                [] OTHER -> heard
  /\ UNCHANGED <<callVars, requests, writing, stop, inbound, reader, closing, hbVars, deviceVars>>

\* Mutant: a requested shutdown is reported like any other end.
FinishReportsAll ==
  /\ actor = "stopping"
  /\ actor' = "draining"
  /\ outstanding' = [k \in Keys |-> None]
  /\ reply' = [t \in Tasks |->
       IF \E k \in Keys : outstanding[k] # None /\ Waits(t, outstanding[k])
       THEN "closed" ELSE reply[t]]
  /\ heard' = Append(heard, IF stop = "connection_lost" THEN "connection_lost" ELSE "connection_closed")
  /\ UNCHANGED <<phase, op, key, slot, requests, writing, stop, inbound, reader, closing, hbVars, deviceVars>>

\* The rest of run: close the transport, fail what is outstanding, tell the listener.
Finish ==
  /\ actor = "stopping"
  /\ actor' = "draining"
  /\ outstanding' = [k \in Keys |-> None]
  /\ reply' = [t \in Tasks |->
       IF \E k \in Keys : outstanding[k] # None /\ Waits(t, outstanding[k])
       THEN "closed" ELSE reply[t]]
  /\ heard' = CASE stop = "connection_lost" -> Append(heard, "connection_lost")
                [] stop = "peer_closed" -> Append(heard, "connection_closed")
                [] OTHER -> heard
  /\ UNCHANGED <<phase, op, key, slot, requests, writing, stop, inbound, reader, closing, hbVars, deviceVars>>

\* Mutant: the oneshots still queued survive the actor.
DropActorOnly ==
  /\ actor = "draining"
  /\ actor' = "stopped"
  /\ requests' = <<>> /\ inbound' = <<>>
  /\ UNCHANGED <<callVars, writing, outstanding, stop, heard, reader, closing, hbVars, deviceVars>>

\* The actor is dropped, with both receivers and every oneshot sender still queued.
DropActor ==
  /\ actor = "draining"
  /\ actor' = "stopped"
  /\ requests' = <<>>
  /\ inbound' = <<>>
  /\ reply' = [t \in Tasks |->
       IF \E i \in 1 .. Len(requests) : requests[i].slot # None /\ Waits(t, requests[i].slot)
       THEN "closed" ELSE reply[t]]
  /\ UNCHANGED <<phase, op, key, slot, writing, outstanding, stop, heard, reader, closing, hbVars, deviceVars>>

-----------------------------------------------------------------------------
(* The reader, read_loop over MrpTransport::recv, and the device, which is external.  A message *)
(* leaves the device and reaches the inbound channel in one step; frames the socket buffered    *)
(* before the device failed may still arrive.                                                   *)

Forward(m) ==
  IF actor = "stopped" THEN reader' = "ended" /\ UNCHANGED inbound
  ELSE /\ Len(inbound) < InboundQueue
       /\ inbound' = Append(inbound, m)
       /\ UNCHANGED reader

\* An answer to each request that got there, in any order.
ReadAnswer ==
  /\ reader = "reading"
  /\ device # "stalled"
  /\ \E a \in accepted :
       /\ Forward([kind |-> "message", key |-> a.key, slot |-> a.slot])
       /\ accepted' = accepted \ {a}
  /\ UNCHANGED <<callVars, requests, actorVars, closing, hbVars, device, lapsed>>

\* A message nobody asked for.
ReadPush ==
  /\ reader = "reading"
  /\ device = "up"
  /\ Forward([kind |-> "message", key |-> None, slot |-> None])
  /\ UNCHANGED <<callVars, requests, actorVars, closing, hbVars, deviceVars>>

\* recv returns Ok(None): the inbound sender is dropped.
ReadEof ==
  /\ reader = "reading"
  /\ device = "closed"
  /\ reader' = "ended"
  /\ UNCHANGED <<callVars, requests, actorVars, inbound, closing, hbVars, deviceVars>>

\* recv fails: the error is forwarded and the reader ends.
ReadError ==
  /\ reader = "reading"
  /\ device = "reset"
  /\ IF actor = "stopped" THEN UNCHANGED inbound
     ELSE /\ Len(inbound) < InboundQueue
          /\ inbound' = Append(inbound, [kind |-> "error", key |-> None, slot |-> None])
  /\ reader' = "ended"
  /\ UNCHANGED <<callVars, requests, actorVars, closing, hbVars, deviceVars>>

DeviceIgnore ==
  /\ \E a \in accepted : accepted' = accepted \ {a}
  /\ UNCHANGED <<callVars, requests, actorVars, inbound, reader, closing, hbVars, device, lapsed>>

\* The device may stop answering (mute), stop reading so that its buffers fill (stalled), close
\* the connection, or have it reset.
DeviceFails ==
  /\ device \in {"up", "mute"}
  /\ device' \in {"closed", "reset"} \cup (IF device = "up" THEN {"mute"} ELSE {})
                 \cup (IF MayStall THEN {"stalled"} ELSE {})
  /\ UNCHANGED <<callVars, requests, actorVars, inbound, reader, closing, hbVars, accepted, lapsed>>

-----------------------------------------------------------------------------

CallStep(t) == Submit(t) \/ SubmitFails(t) \/ Receive(t) \/ Timeout(t) \/ SendCancel(t)
CallerStart(c) == StartExchange(c) \/ StartUntagged(c) \/ StartSend(c) \/ StartClose(c)
HeartbeatStep == EnableHeartbeat \/ Beat \/ KillConnection
ActorStep ==
  \/ TakeWrite \/ WriteOk \/ WriteFails \/ ServeCancel \/ ServeShutdown
  \/ Dispatch \/ ServeError \/ ServeEof \/ Finish \/ DropActor
ReaderStep == ReadAnswer \/ ReadPush \/ ReadEof \/ ReadError
DeviceStep == DeviceIgnore \/ DeviceFails

Next ==
  \/ \E t \in Tasks : CallStep(t)
  \/ \E c \in Callers : CallerStart(c) \/ SubmitClose(c)
  \/ HeartbeatStep
  \/ ActorStep
  \/ ReaderStep
  \/ DeviceStep

\* What a task does when it waits for room in the request channel, and when it does not.
Enqueue(t) == Submit(t) \/ SendCancel(t) \/ (t \in Callers /\ SubmitClose(t)) \/ (t = Heartbeat /\ KillConnection)
Resume(t) == SubmitFails(t) \/ Receive(t) \/ Timeout(t)

\* Every task that can run is eventually polled and timers fire.  Waiting for room in the request
\* channel is strongly fair: tokio's semaphore serves its waiters in order.  So is the actor's
\* poll of the inbound channel: it does not lose the race with a new request for ever.  The
\* heartbeat's timer is strongly fair because a small set of Ids can lack a free one for a while.
\* A device that has not stalled reads its socket; nobody has to call, answer, push or fail.
Fairness ==
  /\ \A t \in Tasks : SF_vars(Enqueue(t)) /\ WF_vars(Resume(t))
  /\ SF_vars(Beat)
  /\ WF_vars(ActorStep) /\ SF_vars(Dispatch \/ ServeError \/ ServeEof)
  /\ SF_vars(ReadEof \/ ReadError)
  /\ WF_vars(ReadAnswer \/ DeviceIgnore)

Spec == Init /\ [][Next]_vars
FairSpec == Spec /\ Fairness
-----------------------------------------------------------------------------
(* Properties. *)

TypeOK ==
  /\ phase \in [Tasks -> {"idle", "submit", "wait", "giveup"}]
  /\ op \in [Tasks -> {"none", "exchange", "send", "close"}]
  /\ key \in [Tasks -> Keys \cup {None}]
  /\ slot \in [Tasks -> Slots \cup {None}]
  /\ reply \in [Tasks -> {"none", "answer", "misanswer", "done", "failed", "closed", "replaced"}]
  /\ requests \in Seq(Request) /\ Len(requests) <= RequestQueue
  /\ writing \in Request \cup {None}
  /\ outstanding \in [Keys -> Ids \cup {None}]
  /\ inbound \in Seq(Inbound) /\ Len(inbound) <= InboundQueue
  /\ reader \in {"reading", "ended"}
  /\ actor \in {"serving", "stopping", "draining", "stopped"}
  /\ stop \in {"none", "on_request", "peer_closed", "connection_lost"}
  /\ closing \in {"no", "asked", "returned"}
  /\ heard \in Seq({"connection_lost", "connection_closed"})
  /\ hb \in {"off", "sleep", "retry", "beating", "kill", "dead"}
  /\ attempts \in 0 .. HeartbeatRetries + 1
  /\ enables \in 0 .. MaxEnables
  /\ orphans \in SUBSET Ids
  /\ device \in {"up", "mute", "stalled", "closed", "reset"}
  /\ accepted \in SUBSET Asked /\ lapsed \in BOOLEAN

CancelQueued(k) == \E i \in 1 .. Len(requests) : requests[i].op = "cancel" /\ requests[i].key = k

\* No entry of the outstanding table is pinned: each belongs to an exchange still waiting for its
\* answer, or its caller has given up and the Cancel is on its way, or its future was aborted
\* with the heartbeat (actor.rs, exchange's "Do not leave the entry behind").
SlotsAccountedFor ==
  \A k \in Keys : outstanding[k] # None =>
    \/ \E t \in Tasks : /\ slot[t] = outstanding[k] /\ key[t] = k
                        /\ phase[t] = "giveup" \/ (phase[t] = "wait" /\ reply[t] = "none")
    \/ CancelQueued(k)
    \/ outstanding[k] \in orphans

\* Somebody always holds the oneshot of a waiting call: a queued request, the request being
\* written, or a table entry.  A call that lost its sender would wait forever (send, close) or
\* report a timeout for a request nobody made (exchange).
NoCallerForgotten ==
  \A t \in Tasks : phase[t] = "wait" /\ reply[t] = "none" =>
    \/ \E i \in 1 .. Len(requests) : requests[i].slot = slot[t]
    \/ writing # None /\ writing.slot = slot[t]
    \/ key[t] # None /\ outstanding[key[t]] = slot[t]

\* Untagged exchanges share one key and are "serialised by construction": even after a timeout and
\* a retry none finds the entry of another still in the table (actor.rs, handle_request).
NeverReplaced == \A t \in Tasks : reply[t] # "replaced"

\* Once close() has returned, the listener is not called any more: a connection the caller closed
\* is never also reported as lost (actor.rs, end of run).
QuietAfterClose == [][closing = "returned" => heard' = heard]_vars

\* What the documentation of MrpProtocolOptions::listener promises (protocol.rs:80): a connection
\* that stops without the caller asking is reported.  A heartbeat that gives up stops it unreported.
DropReported == closing = "no" /\ actor = "stopped" => heard # <<>>

\* Every send, exchange and close returns, whatever the device does short of refusing to read.
EveryCallReturns == \A c \in Callers : phase[c] # "idle" ~> phase[c] = "idle"

\* A device that goes mute while the heartbeat runs is noticed: the connection is torn down.
MuteDeviceDropped ==
  (device = "mute" /\ hb \notin {"off", "dead"}) ~> actor = "stopped"

\* A connection the device closed or reset is torn down, provided callers let the request channel
\* run empty now and then: serve's select! is biased towards requests.
PeerLossNoticed ==
  []<>(requests = <<>> /\ writing = None) =>
    (device \in {"closed", "reset"} ~> actor = "stopped")

\* The refinement mapping: only exchanges are calls in the sense of RpcChannel.  A call counts as
\* transmitted once the table holds its sender.
RpcCall(t) ==
  CASE op[t] # "exchange" -> "idle"
    [] op[t] = "exchange" /\ phase[t] = "submit" -> "open"
    [] op[t] = "exchange" /\ phase[t] = "giveup" -> "failed"
    [] op[t] = "exchange" /\ phase[t] = "wait" /\ reply[t] = "answer" -> "answered"
    [] op[t] = "exchange" /\ phase[t] = "wait" /\ reply[t] = "misanswer" -> "misanswered"
    [] op[t] = "exchange" /\ phase[t] = "wait" /\ reply[t] = "none" ->
         IF outstanding[key[t]] = slot[t] THEN "sent" ELSE "open"
    [] OTHER -> "failed"

Rpc == INSTANCE RpcChannel WITH
  call <- [t \in Tasks |-> RpcCall(t)], anonymous <- {t \in Tasks : key[t] = TypeKey},
  up <- actor = "serving"

\* Every exchange behaves as RpcChannel says: no answer before the request is on the wire, none
\* once the actor has left serve.  dispatch matches by key alone, so that an exchange with an
\* identifier never gets the answer to another; an untagged one may, from the device that answers
\* the one before it late, but only once an untagged exchange has timed out.
ImplementsRpcChannel == Rpc!Spec

-----------------------------------------------------------------------------
(* The inductive strengthening of SlotsAccountedFor, NoCallerForgotten and NeverReplaced. *)

\* What a call looks like in each phase.
CallShape ==
  \A t \in Tasks :
    /\ phase[t] = "idle" <=> op[t] = "none"
    /\ phase[t] = "idle" => key[t] = None /\ slot[t] = None
    /\ phase[t] # "wait" => reply[t] = "none"
    /\ op[t] = "exchange" => /\ key[t] \in Keys /\ slot[t] \in Ids
                             /\ key[t] \in Ids => slot[t] = key[t]
    /\ op[t] \in {"send", "close"} => key[t] = None /\ slot[t] = t /\ t \in Callers /\ phase[t] # "giveup"

ExchangeShape(r) == r.key \in Keys /\ r.slot \in Ids /\ (r.key \in Ids => r.slot = r.key)

\* What a request looks like for each operation.
RequestShape ==
  /\ \A i \in 1 .. Len(requests) :
       /\ requests[i].op = "exchange" => ExchangeShape(requests[i])
       /\ requests[i].op = "cancel" => requests[i].key \in Keys /\ requests[i].slot = None
       /\ requests[i].op \in {"send", "shutdown"} => requests[i].slot \notin Ids
  /\ writing # None => /\ writing.op \in {"exchange", "send"}
                       /\ writing.op = "exchange" => ExchangeShape(writing)
                       /\ writing.op = "send" => writing.slot \notin Ids
  /\ \A k \in Ids : outstanding[k] \in {k, None}

\* An actor that has left serve holds nothing it is about to forget.
ActorShape ==
  /\ actor # "serving" => writing = None
  /\ actor \in {"draining", "stopped"} => \A k \in Keys : outstanding[k] = None
  /\ actor = "stopped" => requests = <<>>

HeartbeatShape ==
  /\ phase[Heartbeat] # "idle" => hb = "beating"
  /\ hb \in {"sleep", "retry", "beating"} => attempts <= HeartbeatRetries
  /\ key[Heartbeat] # TypeKey

Shape == TypeOK /\ CallShape /\ RequestShape /\ ActorShape /\ HeartbeatShape

\* A oneshot has one receiver, and one task at a time makes untagged exchanges.
OneReceiver ==
  /\ \A t, u \in Tasks : slot[t] = slot[u] /\ slot[t] # None => t = u
  /\ \A t, u \in Tasks : key[t] = TypeKey /\ key[u] = TypeKey => t = u
  /\ \A t \in Tasks : slot[t] \notin orphans

\* A oneshot's sender is in one place.
OneSender ==
  /\ \A i, j \in 1 .. Len(requests) :
       requests[i].slot \in Ids /\ requests[i].slot = requests[j].slot => i = j
  /\ \A i \in 1 .. Len(requests) : requests[i].slot \in Ids =>
       /\ writing # None => writing.slot # requests[i].slot
       /\ \A k \in Keys : outstanding[k] # requests[i].slot
  /\ writing # None => \A k \in Keys : writing.slot \in Ids => outstanding[k] # writing.slot
  /\ \A j, k \in Keys : outstanding[j] # None /\ outstanding[j] = outstanding[k] => j = k

\* The sender of key k and oneshot s agrees with the call that waits on s, and with orphans.
Agrees(k, s) ==
  /\ \A t \in Tasks : slot[t] = s => key[t] = k
  /\ s \in orphans => k \in Ids

SendersAgree ==
  /\ \A i \in 1 .. Len(requests) :
       requests[i].op = "exchange" => Agrees(requests[i].key, requests[i].slot)
  /\ writing # None /\ writing.op = "exchange" => Agrees(writing.key, writing.slot)
  /\ \A k \in Keys : outstanding[k] # None => Agrees(k, outstanding[k])

Abandoned(s) == \A t \in Tasks : slot[t] # s

\* A Cancel only ever strikes exchanges nobody waits for any more.
CancelsAreLate ==
  \A i \in 1 .. Len(requests) : requests[i].op = "cancel" =>
    /\ \A j \in 1 .. i - 1 :
         requests[j].op = "exchange" /\ requests[j].key = requests[i].key => Abandoned(requests[j].slot)
    /\ writing # None /\ writing.op = "exchange" /\ writing.key = requests[i].key => Abandoned(writing.slot)
    /\ outstanding[requests[i].key] # None => Abandoned(outstanding[requests[i].key])
    /\ requests[i].key \in Ids => Abandoned(requests[i].key)

Ownership == OneReceiver /\ OneSender /\ SendersAgree /\ CancelsAreLate

\* Is somebody still going to release the entry of key k and oneshot s?
Expected(k, s) ==
  \/ \E t \in Tasks : /\ slot[t] = s /\ key[t] = k
                      /\ phase[t] = "giveup" \/ (phase[t] = "wait" /\ reply[t] = "none")
  \/ s \in orphans

SendersAccountedFor ==
  /\ \A i \in 1 .. Len(requests) : requests[i].op = "exchange" =>
       \/ Expected(requests[i].key, requests[i].slot)
       \/ \E j \in i + 1 .. Len(requests) : requests[j].op = "cancel" /\ requests[j].key = requests[i].key
  /\ writing # None /\ writing.op = "exchange" =>
       Expected(writing.key, writing.slot) \/ CancelQueued(writing.key)
  /\ \A k \in Keys : outstanding[k] # None => Expected(k, outstanding[k]) \/ CancelQueued(k)

\* The answers on their way: at the device, and from the reader to the actor.
Untagged(m) == m.key = TypeKey

NamedAnswers ==
  /\ \A a \in accepted : ~Untagged(a) => a.slot = a.key
  /\ \A i \in 1 .. Len(inbound) : inbound[i].key # None =>
       inbound[i].slot # None /\ (inbound[i].key \in Ids => inbound[i].slot = inbound[i].key)

NoneLapsed ==
  ~lapsed => /\ \A t \in Tasks : phase[t] = "giveup" => key[t] # TypeKey
             /\ ~CancelQueued(TypeKey)

\* Until one times out, an untagged exchange has the table's entry as long as its answer is due.
OneAnswerDue ==
  ~lapsed /\ actor = "serving" =>
    /\ \A a \in accepted : Untagged(a) => a.slot = outstanding[TypeKey]
    /\ \A i \in 1 .. Len(inbound) : Untagged(inbound[i]) => inbound[i].slot = outstanding[TypeKey]
    /\ \A i, j \in 1 .. Len(inbound) : Untagged(inbound[i]) /\ Untagged(inbound[j]) => i = j
    /\ \A a \in accepted : \A i \in 1 .. Len(inbound) : ~(Untagged(a) /\ Untagged(inbound[i]))

OwnAnswers == NamedAnswers /\ NoneLapsed /\ OneAnswerDue

IInv == Shape /\ Ownership /\ SendersAccountedFor /\ NoCallerForgotten /\ NeverReplaced /\ OwnAnswers
=============================================================================

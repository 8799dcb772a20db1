--------------------------- MODULE CompanionActor ---------------------------
(***************************************************************************)
(* One Companion session: the tasks of crates/pyatv-proto-companion/src,   *)
(* api.rs and api/actor.rs, over the exchanges of protocol.rs.  Callers    *)
(* push requests into a bounded channel.  The actor serves one at a time;  *)
(* while it awaits a response it files everything else that arrives, and   *)
(* it handles the events it filed, and the follow-ups they ask for, before *)
(* it serves the next request.  The device and the socket are external.    *)
(* Of the state the events report, the volume is modelled, since only it   *)
(* has a follow-up.  A call waits to the end: dropping its future, and     *)
(* with it CompanionApi::drop, is left out.                                *)
(***************************************************************************)
EXTENDS Naturals, Sequences, FiniteSets, SequencesExt

CONSTANTS
  Callers,            \* tasks that call send_command, send_event and close
  CallerOps,          \* which of these calls each makes
  Names,              \* event names that "_interest" registers
  MediaControl,       \* MEDIA_CONTROL_EVENT, registered while the session was brought up
  Xids,               \* the values of "_x"
  None,
  RequestQueue,       \* REQUEST_QUEUE, capacity of the request channel
  MaxOutstanding,     \* MAX_OUTSTANDING
  MaxEventsPerDrain,  \* MAX_EVENTS_PER_DRAIN
  MaxDrainPasses,     \* MAX_DRAIN_PASSES
  MaxAccepted,        \* bound on requests the device keeps for a late answer
  MaxInbound          \* bound on frames and events not yet handled

ASSUME NameAssumption == MediaControl \in Names /\ None \notin Names \cup Callers \cup Xids
ASSUME BoundAssumption ==
  /\ RequestQueue \in Nat \ {0} /\ MaxOutstanding \in Nat \ {0} /\ MaxEventsPerDrain \in Nat \ {0}
  /\ MaxDrainPasses \in Nat \ {0} /\ MaxAccepted \in Nat /\ MaxInbound \in Nat
ASSUME OpsAssumption == CallerOps \in [Callers -> SUBSET {"command", "register", "deregister", "close"}]

Request == [op : {"command", "register", "deregister", "close"}, who : Callers,
            name : Names \cup {None}]

\* What the actor is sending or awaiting an answer to, and for whom.
Job == [kind : {"none", "command", "volume", "teardown", "register", "deregister"},
        who : Callers \cup {None}, xid : Xids \cup {None}, name : Names \cup {None}]
NoJob == [kind |-> "none", who |-> None, xid |-> None, name |-> None]

\* An incoming frame; "who" is, for a response, the caller whose request it answers.
Frame == [kind : {"response", "volume", "novolume"}, xid : Xids \cup {None},
          who : Callers \cup {None}, ok : BOOLEAN]

VARIABLES
  phase,        \* where each caller is inside its call
  op,           \* which call
  reply,        \* what its oneshot receiver holds
  got,          \* ghost: whose request the response it was given answers
  requests,     \* the request channel
  pc,           \* where the actor is in Actor::run
  job,          \* the frame it is sending, or the exchange it is in
  teardown,     \* what Actor::shutdown has still to send
  passes,       \* drain/deferred rounds of this iteration
  outstanding,  \* CompanionProtocol.outstanding
  stash,        \* CompanionProtocol.stash
  events,       \* CompanionProtocol.events / Actor.events
  deferred,     \* whether Actor.deferred holds its one ReadVolume
  subscribed,   \* Actor.subscribed
  controls,     \* whether ApiState's control flags have the VOLUME bit
  volume,       \* ApiState's volume: 0.0 or the level read from the device
  heard,        \* whether DeviceListener::connection_lost was called
  device,       \* the device and its side of the socket
  accepted,     \* requests the device has not answered yet
  registered,   \* event names registered at the device
  inbound       \* frames on their way from the device

callVars == <<phase, op, reply, got>>
protocolVars == <<outstanding, stash>>
stateVars == <<controls, volume>>
deviceVars == <<device, accepted, registered>>
vars == <<callVars, requests, pc, job, teardown, passes, protocolVars, events, deferred, subscribed,
          stateVars, heard, deviceVars, inbound>>

-----------------------------------------------------------------------------

\* The session begin_session leaves: verified, started, and registered for one event.
Init ==
  /\ phase = [c \in Callers |-> "idle"]
  /\ op = [c \in Callers |-> "none"]
  /\ reply = [c \in Callers |-> "none"]
  /\ got = [c \in Callers |-> None]
  /\ requests = <<>>
  /\ pc = "select"
  /\ job = NoJob
  /\ teardown = <<>>
  /\ passes = 0
  /\ outstanding = <<>>
  /\ stash = {}
  /\ events = <<>>
  /\ deferred = FALSE
  /\ subscribed = <<MediaControl>>
  /\ controls = FALSE
  /\ volume = "zero"
  /\ heard = FALSE
  /\ device = "up"
  /\ accepted = {}
  /\ registered = {MediaControl}
  /\ inbound = <<>>

-----------------------------------------------------------------------------
(* Calls: CompanionApi::send_command, ::send_event, ::close. *)

Start(c) ==
  /\ phase[c] = "idle"
  /\ \E o \in CallerOps[c] : op' = [op EXCEPT ![c] = o]
  /\ phase' = [phase EXCEPT ![c] = "submit"]
  /\ UNCHANGED <<reply, got, requests, pc, job, teardown, passes, protocolVars, events, deferred, subscribed,
                 stateVars, heard, deviceVars, inbound>>

\* The channel send: it waits for room.
Submit(c) ==
  /\ phase[c] = "submit"
  /\ pc \notin {"lost", "stopped"}
  /\ Len(requests) < RequestQueue
  /\ \E n \in Names \cup {None} :
       /\ n = None <=> op[c] \in {"command", "close"}
       /\ requests' = Append(requests, [op |-> op[c], who |-> c, name |-> n])
  /\ phase' = [phase EXCEPT ![c] = "wait"]
  /\ UNCHANGED <<op, reply, got, pc, job, teardown, passes, protocolVars, events, deferred, subscribed,
                 stateVars, heard, deviceVars, inbound>>

\* It returns, with Error::Closed for a command or an event and Ok for a close, because the actor
\* has dropped the receiver; or with what the oneshot holds.
Return(c) ==
  /\ \/ phase[c] = "submit" /\ pc \in {"lost", "stopped"}
     \/ phase[c] = "wait" /\ reply[c] # "none"
  /\ phase' = [phase EXCEPT ![c] = "idle"]
  /\ op' = [op EXCEPT ![c] = "none"]
  /\ reply' = [reply EXCEPT ![c] = "none"]
  /\ got' = [got EXCEPT ![c] = None]
  /\ UNCHANGED <<requests, pc, job, teardown, passes, protocolVars, events, deferred, subscribed, stateVars,
                 heard, deviceVars, inbound>>

-----------------------------------------------------------------------------
(* Exchanges: CompanionProtocol::exchange_opack, ::send_opack, ::pump. *)

\* A wrapping u32 counter: all that matters is that no other "_x" in flight is the same.
InUse(x) ==
  \/ x \in ToSet(outstanding)
  \/ \E a \in accepted : a.xid = x
  \/ \E i \in 1 .. Len(inbound) : inbound[i].xid = x

next_xid == CHOOSE x \in Xids : ~InUse(x)

\* Mutant: the oldest XID is evicted, the response stashed under it is not.
IssueKeepsStash(x) ==
  /\ outstanding' = Append(IF Len(outstanding) < MaxOutstanding THEN outstanding ELSE Tail(outstanding), x)
  /\ UNCHANGED stash

\* Mutant: nothing is ever evicted.
IssueUnbounded(x) == outstanding' = Append(outstanding, x) /\ UNCHANGED stash

\* Past MAX_OUTSTANDING the oldest XID, and what is stashed under it, is forgotten.
Issue(x) ==
  IF Len(outstanding) < MaxOutstanding
  THEN outstanding' = Append(outstanding, x) /\ UNCHANGED stash
  ELSE /\ outstanding' = Append(Tail(outstanding), x)
       /\ stash' = {f \in stash : f.xid # Head(outstanding)}

\* Mutant: a timed-out exchange stays outstanding, as if somebody still waited.
ResolveNothing(x) == UNCHANGED protocolVars

\* retain: an XID is outstanding only once.
Resolve(x) ==
  /\ outstanding' = RemoveFirst(outstanding, x)
  /\ stash' = {f \in stash : f.xid # x}

\* exchange_opack up to the write
BeginExchange(kind, who) ==
  /\ \E x \in Xids : ~InUse(x)
  /\ job' = [kind |-> kind, who |-> who, xid |-> next_xid, name |-> None]
  /\ Issue(next_xid)
  /\ pc' = "write"

\* send_event up to the write; its "_x" is never correlated.
BeginEvent(kind, who, name) ==
  /\ job' = [kind |-> kind, who |-> who, xid |-> None, name |-> name]
  /\ pc' = "write"
  /\ UNCHANGED protocolVars

\* Mutant: a round that read the volume is not counted.
SamePass == passes

NextPass == passes + 1

\* What becomes of the job's result: a caller's oneshot, the volume, or nothing.  The actor then
\* goes on to drain events, for a bounded number of rounds, or with its teardown.
Finish(r, whose) ==
  /\ job' = [NoJob EXCEPT !.who = IF job.kind = "teardown" THEN job.who ELSE None]
  /\ IF job.kind \in {"command", "register", "deregister"}
     THEN /\ reply' = [reply EXCEPT ![job.who] = r]
          /\ got' = [got EXCEPT ![job.who] = whose]
     ELSE UNCHANGED <<reply, got>>
  /\ volume' = IF job.kind = "volume" /\ r = "answer" THEN "read" ELSE volume
  /\ passes' = IF job.kind = "volume" /\ NextPass < MaxDrainPasses THEN NextPass ELSE 0
  /\ pc' = CASE job.kind = "teardown" -> "teardown"
             [] job.kind = "volume" /\ NextPass = MaxDrainPasses -> "select"
             [] OTHER -> "drain"

\* The socket takes the frame.  The device registers or forgets an event name, and remembers a
\* request it will answer.
WriteOk ==
  /\ pc = "write"
  /\ \/ /\ device = "up" /\ job.xid # None
        /\ Cardinality(accepted) < MaxAccepted
        /\ accepted' = accepted \cup {[xid |-> job.xid, who |-> IF job.kind = "command" THEN job.who ELSE None]}
     \/ UNCHANGED accepted
  /\ registered' = IF device # "up" \/ job.name = None THEN registered
                   ELSE IF job.kind = "register" THEN registered \cup {job.name}
                   ELSE registered \ {job.name}
  /\ IF job.xid # None
     THEN pc' = "await" /\ UNCHANGED <<reply, got, job, volume, passes>>
     ELSE Finish("done", None)
  /\ UNCHANGED <<phase, op, requests, teardown, protocolVars, events, deferred, subscribed, controls, heard,
                 device, inbound>>

\* The socket fails: send_opack returns before pump, which is what would resolve the XID.
WriteFails ==
  /\ pc = "write" /\ device = "gone"
  /\ Finish("failed", None)
  /\ UNCHANGED <<phase, op, requests, teardown, protocolVars, events, deferred, subscribed, controls, heard,
                 deviceVars, inbound>>

\* stash_response: kept only while its XID is outstanding
Stashed(f) == IF f.xid \in ToSet(outstanding)
              THEN {g \in stash : g.xid # f.xid} \cup {f} ELSE stash

\* Mutant: the next response is taken for the awaited one.
TakesAny(f) == f.kind = "response"

\* dispatch_response: is this the awaited response?
Takes(f) == f.kind = "response" /\ f.xid = job.xid

\* pump_inner returns the stashed or the next frame, rejected if it carries "_em".
AwaitTakes ==
  /\ pc = "await"
  /\ LET ready == {f \in stash : f.xid = job.xid}
         f == IF ready # {} THEN CHOOSE g \in ready : TRUE ELSE Head(inbound)
     IN /\ ready # {} \/ (inbound # <<>> /\ Takes(f))
        /\ inbound' = IF ready # {} THEN inbound ELSE Tail(inbound)
        /\ Finish(IF f.ok THEN "answer" ELSE "failed", f.who)
  /\ Resolve(job.xid)
  /\ UNCHANGED <<phase, op, requests, teardown, events, deferred, subscribed, controls, heard, deviceVars>>

\* read_and_dispatch of anything else: an event is queued, a response stashed or dropped.
FileFrame(f) ==
  IF f.kind = "response"
  THEN stash' = Stashed(f) /\ UNCHANGED events
  ELSE events' = Append(events, f.kind) /\ UNCHANGED stash

AwaitFiles ==
  /\ pc = "await"
  /\ inbound # <<>> /\ ~Takes(Head(inbound))
  /\ FileFrame(Head(inbound))
  /\ inbound' = Tail(inbound)
  /\ UNCHANGED <<callVars, requests, pc, job, teardown, passes, outstanding, deferred, subscribed, stateVars,
                 heard, deviceVars>>

\* The deadline passes, or the read fails.
AwaitFails ==
  /\ pc = "await"
  /\ Finish("failed", None)
  /\ Resolve(job.xid)
  /\ UNCHANGED <<phase, op, requests, teardown, events, deferred, subscribed, controls, heard, deviceVars,
                 inbound>>

-----------------------------------------------------------------------------
(* The actor: Actor::run, ::serve, ::filter_interest, ::shutdown, ::drain_events, ::run_deferred. *)

\* Mutant: requests are still served between the steps of the teardown.
SelectsToTheEnd(o) ==
  /\ pc \in {"select", "teardown"} /\ requests # <<>> /\ Head(requests).op \in o
  /\ requests' = Tail(requests)

Selects(o) ==
  /\ pc = "select" /\ requests # <<>> /\ Head(requests).op \in o
  /\ requests' = Tail(requests)

ServeCommand ==
  /\ Selects({"command"})
  /\ BeginExchange("command", Head(requests).who)
  /\ UNCHANGED <<callVars, teardown, passes, events, deferred, subscribed, stateVars, heard, deviceVars, inbound>>

\* Mutant: a deregistered name stays on the list.
InterestKept(r) == IF r.op = "register" THEN Append(subscribed, r.name) ELSE subscribed

\* Actor.subscribed once filter_interest let r pass: no name is on the list twice.
Interest(r) == IF r.op = "register" THEN Append(subscribed, r.name)
               ELSE RemoveFirst(subscribed, r.name)

\* filter_interest drops what the list says is already so.
Redundant(r) == r.op = "register" <=> r.name \in ToSet(subscribed)

ServeInterest ==
  /\ Selects({"register", "deregister"})
  /\ LET r == Head(requests)
     IN IF Redundant(r)
        THEN /\ reply' = [reply EXCEPT ![r.who] = "done"]
             /\ pc' = "drain"
             /\ UNCHANGED <<job, protocolVars, subscribed>>
        ELSE /\ subscribed' = Interest(r)
             /\ BeginEvent(r.op, r.who, r.name)
             /\ UNCHANGED reply
  /\ UNCHANGED <<phase, op, got, teardown, passes, events, deferred, stateVars, heard, deviceVars, inbound>>

\* Mutant: what pyatv does, every second name of the list it mutates while walking it.
TeardownOfHalf(s) == SelectSeq(s, LAMBDA n : \E i \in 1 .. Len(s) : s[i] = n /\ i % 2 = 1)

\* The names Actor::shutdown deregisters; _sessionStop, _touchStop and _tiStop (None) follow.
TeardownOf(s) == s

ServeShutdown ==
  /\ Selects({"close"})
  /\ deferred' = FALSE
  /\ teardown' = TeardownOf(subscribed) \o <<None, None, None>>
  /\ subscribed' = <<>>
  /\ job' = [NoJob EXCEPT !.who = Head(requests).who]
  /\ pc' = "teardown"
  /\ UNCHANGED <<callVars, passes, protocolVars, events, stateVars, heard, deviceVars, inbound>>

TeardownSend ==
  /\ pc = "teardown" /\ teardown # <<>>
  /\ teardown' = Tail(teardown)
  /\ IF Head(teardown) = None THEN BeginExchange("teardown", job.who)
                              ELSE BeginEvent("teardown", job.who, Head(teardown))
  /\ UNCHANGED <<callVars, requests, passes, events, deferred, subscribed, stateVars, heard, deviceVars, inbound>>

\* The socket is shut down, which may fail, the closer is told, and the actor's return drops the
\* oneshots of the requests still queued.
TeardownDone ==
  /\ pc = "teardown" /\ teardown = <<>>
  /\ outstanding' = <<>> /\ stash' = {}
  /\ \E r \in IF device = "gone" THEN {"done", "failed"} ELSE {"done"} :
       reply' = [c \in Callers |-> IF c = job.who THEN r
                                   ELSE IF phase[c] = "wait" /\ reply[c] = "none" THEN "closed" ELSE reply[c]]
  /\ requests' = <<>>
  /\ job' = NoJob
  /\ pc' = "stopped"
  /\ UNCHANGED <<phase, op, got, teardown, passes, events, deferred, subscribed, stateVars, heard, deviceVars,
                 inbound>>

\* poll_once, only when no request is queued: the select! is biased.
Poll ==
  /\ pc = "select" /\ requests = <<>>
  /\ inbound # <<>>
  /\ FileFrame(Head(inbound))
  /\ inbound' = Tail(inbound)
  /\ pc' = "drain"
  /\ UNCHANGED <<callVars, requests, job, teardown, passes, outstanding, deferred, subscribed, stateVars, heard,
                 deviceVars>>

\* Mutant: a failed read is taken for an idle connection.
PollIgnoresFailure ==
  /\ pc = "select" /\ requests = <<>>
  /\ inbound = <<>> /\ device = "gone"
  /\ UNCHANGED vars

PollFails ==
  /\ pc = "select" /\ requests = <<>>
  /\ inbound = <<>> /\ device = "gone"
  /\ pc' = "lost"
  /\ UNCHANGED <<callVars, requests, job, teardown, passes, protocolVars, events, deferred, subscribed, stateVars,
                 heard, deviceVars, inbound>>

\* The spawned task tells the DeviceListener after Actor::run has returned.
ReportLoss ==
  /\ pc = "lost"
  /\ heard' = TRUE
  /\ pc' = "stopped"
  /\ UNCHANGED <<callVars, requests, job, teardown, passes, protocolVars, events, deferred, subscribed, stateVars,
                 deviceVars, inbound>>

\* drain_events handles the oldest events, as far as the volume goes, then run_deferred starts on
\* the follow-up if there is one; if there is none the rounds are over.
Drain ==
  /\ pc = "drain"
  /\ LET n == IF Len(events) < MaxEventsPerDrain THEN Len(events) ELSE MaxEventsPerDrain
         handled == SubSeq(events, 1, n)
     IN /\ events' = SubSeq(events, n + 1, Len(events))
        /\ controls' = IF n = 0 THEN controls ELSE handled[n] = "volume"
        /\ volume' = IF "novolume" \in ToSet(handled) THEN "zero" ELSE volume
        /\ deferred' = FALSE
        /\ IF deferred \/ "volume" \in ToSet(handled)
           THEN BeginExchange("volume", None) /\ UNCHANGED passes
           ELSE pc' = "select" /\ passes' = 0 /\ UNCHANGED <<job, protocolVars>>
  /\ UNCHANGED <<callVars, requests, teardown, subscribed, heard, deviceVars, inbound>>

-----------------------------------------------------------------------------
(* The device and the socket, external to the repository. *)

Arrives(f) ==
  /\ Len(inbound) + Len(events) < MaxInbound
  /\ inbound' = Append(inbound, f)
  /\ UNCHANGED <<callVars, requests, pc, job, teardown, passes, protocolVars, events, deferred, subscribed,
                 stateVars, heard, device, registered>>

DeviceAnswers ==
  /\ device = "up"
  /\ \E a \in accepted : \E ok \in BOOLEAN :
       /\ accepted' = accepted \ {a}
       /\ Arrives([kind |-> "response", xid |-> a.xid, who |-> a.who, ok |-> ok])

\* An _iMC event, with or without the VOLUME bit.
DevicePushes ==
  /\ device = "up"
  /\ \E k \in {"volume", "novolume"} : Arrives([kind |-> k, xid |-> None, who |-> None, ok |-> TRUE])
  /\ UNCHANGED accepted

\* The device answers what it was not asked, or a second time.
DeviceErrs ==
  /\ device = "up"
  /\ \E x \in ToSet(outstanding) : Arrives([kind |-> "response", xid |-> x, who |-> None, ok |-> TRUE])
  /\ UNCHANGED accepted

\* The connection ends: what arrived can still be read, and a write may still succeed.  A device
\* that falls silent is one that does none of the above.
DeviceFails ==
  /\ device = "up"
  /\ device' = "gone"
  /\ accepted' = {}
  /\ UNCHANGED <<callVars, requests, pc, job, teardown, passes, protocolVars, events, deferred, subscribed,
                 stateVars, heard, registered, inbound>>

-----------------------------------------------------------------------------

CallerStep(c) == Start(c) \/ Submit(c) \/ Return(c)
ServeStep == ServeCommand \/ ServeInterest \/ ServeShutdown
PollStep == Poll \/ PollFails \/ ReportLoss
WriteStep == WriteOk \/ WriteFails
AwaitStep == AwaitTakes \/ AwaitFiles \/ AwaitFails
TeardownStep == TeardownSend \/ TeardownDone
ActorStep == ServeStep \/ PollStep \/ WriteStep \/ AwaitStep \/ Drain \/ TeardownStep
DeviceStep == DeviceAnswers \/ DevicePushes \/ DeviceErrs \/ DeviceFails

Next ==
  \/ \E c \in Callers : CallerStep(c)
  \/ ActorStep
  \/ DeviceStep

\* Tasks that can run are polled and timers fire; tokio's semaphore serves who waits for room in the
\* request channel in order.  The deadline of an exchange passes.  A write completes or fails: the
\* device reads its socket.  Nobody has to call, answer, push, err or fail.
Fairness ==
  /\ \A c \in Callers : SF_vars(Submit(c)) /\ WF_vars(Return(c))
  /\ WF_vars(ActorStep) /\ WF_vars(AwaitFails)

Spec == Init /\ [][Next]_vars
FairSpec == Spec /\ Fairness

-----------------------------------------------------------------------------
(* Properties. *)

\* Every queue keeps within its capacity, MAX_OUTSTANDING included.
TypeOK ==
  /\ phase \in [Callers -> {"idle", "submit", "wait"}]
  /\ op \in [Callers -> {"none", "command", "register", "deregister", "close"}]
  /\ reply \in [Callers -> {"none", "answer", "done", "failed", "closed"}]
  /\ got \in [Callers -> Callers \cup {None}]
  /\ requests \in Seq(Request) /\ Len(requests) <= RequestQueue
  /\ pc \in {"select", "write", "await", "drain", "teardown", "lost", "stopped"}
  /\ job \in Job
  /\ teardown \in Seq(Names \cup {None})
  /\ passes \in 0 .. MaxDrainPasses - 1
  /\ outstanding \in Seq(Xids) /\ Len(outstanding) <= MaxOutstanding
  /\ stash \subseteq Frame
  /\ events \in Seq({"volume", "novolume"})
  /\ deferred \in BOOLEAN
  /\ subscribed \in Seq(Names)
  /\ controls \in BOOLEAN
  /\ volume \in {"zero", "read"}
  /\ heard \in BOOLEAN
  /\ device \in {"up", "gone"}
  /\ accepted \subseteq [xid : Xids, who : Callers \cup {None}]
  /\ registered \subseteq Names
  /\ inbound \in Seq(Frame)

\* A command never returns the response to another one, however late that response comes: after the
\* deadline of its own exchange, during a later exchange or between two of them.
AnswersMatch == \A c \in Callers : got[c] \in {c, None}

\* Responses are kept for XIDs that are outstanding and no others, so that the device cannot fill
\* the stash (protocol.rs:78-84).
StashWithinOutstanding == \A f \in stash : f.xid \in ToSet(outstanding)

\* Between two exchanges no XID is outstanding, whether they succeeded, were rejected or timed out:
\* nobody waits, so a response that comes late is dropped.  Failed writes are the exception.
NothingOutstanding ==
  device = "up" /\ pc \in {"select", "drain", "teardown"} => outstanding = <<>>

\* The actor's list and the device agree on what is registered, so that dropping a redundant
\* _interest is right and teardown knows what to deregister (filter_interest).
SubscriptionsAgree ==
  device = "up" /\ job.name = None =>
    registered = (ToSet(subscribed) \cup ToSet(teardown)) \ {None}

\* A close leaves no event registered at a device that was there to the end (shutdown).
NothingLeftRegistered == pc = "stopped" /\ device = "up" => registered = {}

\* Every command, event and close returns, also when the device answers every GetVolume with an
\* event that asks for another (MAX_DRAIN_PASSES).
EveryCallReturns == \A c \in Callers : phase[c] # "idle" ~> phase[c] = "idle"

\* A connection that ends is reported, once callers let the request channel run empty, if none of
\* them closes the session.
LossReported ==
  [](\A c \in Callers : op[c] # "close") /\ <>[](requests = <<>>) => (device = "gone" ~> heard)

\* Commands are the calls of RpcChannel, transmitted once the actor awaits their response; the
\* connection is up until the actor turns to its teardown or notices the loss.
RpcCall(c) ==
  CASE op[c] # "command" -> "idle"
    [] op[c] = "command" /\ reply[c] = "answer" ->
         IF got[c] \in {c, None} THEN "answered" ELSE "misanswered"
    [] op[c] = "command" /\ reply[c] \in {"failed", "closed"} -> "failed"
    [] OTHER -> IF pc = "await" /\ job.kind = "command" /\ job.who = c THEN "sent" ELSE "open"

Rpc == INSTANCE RpcChannel WITH Tasks <- Callers, call <- [c \in Callers |-> RpcCall(c)],
                                anonymous <- {}, lapsed <- FALSE,
                                up <- job.kind # "teardown" /\ pc \notin {"teardown", "lost", "stopped"}

\* Every command behaves as RpcChannel says: no answer before its request was written, none but its
\* own, one outcome, none once the session is being torn down.
ImplementsRpcChannel == Rpc!Spec

\* Once the actor is idle, a device whose latest flags lack the VOLUME bit has no volume: "no volume
\* control means we know nothing about the volume" (api/state.rs:196).
VolumeKnownOnlyWhenControlled ==
  pc = "select" /\ events = <<>> /\ ~controls => volume = "zero"

\* The actor never sits idle on events it could handle: "Anything left over is picked up by the next
\* pass, which follows immediately" (api/actor.rs:39-40).
NoEventLeftBehind == pc = "select" /\ requests = <<>> /\ inbound = <<>> => events = <<>>
=============================================================================

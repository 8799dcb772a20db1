------------------------------- MODULE Facade -------------------------------
(* The life of a facade over its relayers: connect sets the protocols up    *)
(* one after the other (pyatv: connect.rs), callers start and stop the push *)
(* updaters of all of them (facade/playback.rs) and close them (facade.rs), *)
(* while a stream may hold some of the relayers.                            *)
EXTENDS Relayer

CONSTANTS
    Users,         \* tasks that call the assembled facade
    PushUpdater,   \* the interface the updates come through
    Enabled,       \* the services of the device that connect sets up: protocols
    Mrp, AirPlay   \* the two whose set-up depends on each other

ASSUME FacadeAssumption ==
    /\ PushUpdater \in Interfaces
    /\ Enabled \subseteq Protocols
    /\ {Mrp, AirPlay} \subseteq Protocols
    /\ DefaultRank[Mrp] < DefaultRank[AirPlay]

VARIABLES
    todo,      \* the services connect has not set up yet
    stage,     \* connect's progress: connecting, connected, failed
    handles,   \* FacadeAppleTV.handles: one connection per registration, in order
    open,      \* the positions in handles whose connection is up
    calls,     \* what each user is in the middle of: [op, left, error]
    running    \* the protocols whose push updater is active

facadeVars == <<relayerVars, todo, stage, handles, open, calls, running>>

NoCall == [op |-> "none", left |-> <<>>, error |-> FALSE]

FacadeInit ==
    /\ RelayerInit
    /\ todo = Enabled
    /\ stage = "connecting"
    /\ handles = <<>> /\ open = {}
    /\ calls = [u \in Users |-> NoCall]
    /\ running = {}
-----------------------------------------------------------------------------
(* connect: the enabled services in priority order, each set up while       *)
(* nothing else uses the facade but the tasks of those that are up already. *)

NextService(p) ==
    /\ stage = "connecting"
    /\ p \in todo
    /\ \A q \in todo : DefaultRank[p] <= DefaultRank[q]
    /\ todo' = todo \ {p}

(* add_protocol for a registration whose connection is up. A second one for *)
(* the same protocol replaces what the relayers hold of the first, and both *)
(* connections stay in handles.                                             *)
Registers(p) ==
    /\ IF p \in added THEN UNCHANGED relayerVars ELSE AddProtocol(p)
    /\ handles' = Append(handles, p)
    /\ open' = open \cup {Len(handles) + 1}
    /\ UNCHANGED <<stage, calls, running>>

Connects(p) == NextService(p) /\ Registers(p)

(* Mutant: a set-up that fails leaves a connection up.                      *)
SetupLeaks(p) ==
    /\ NextService(p)
    /\ p # AirPlay
    /\ open' = open \cup {Len(handles) + 1}
    /\ UNCHANGED <<relayerVars, stage, handles, calls, running>>

(* The set-up fails, or the service declines: nothing is registered.        *)
SetupFails(p) ==
    /\ NextService(p)
    /\ p # AirPlay
    /\ UNCHANGED <<relayerVars, stage, handles, open, calls, running>>

(* Mutant: the tunnel is set up whether or not MRP is connected already.    *)
TunnelAlways == TRUE

(* setup_protocol: a service of another protocol than AirPlay brings one    *)
(* registration; AirPlay brings a second, MRP through the tunnel of its     *)
(* session, unless MRP is connected already.                                *)
TunnelWanted == Mrp \notin added

ConnectsTunnel ==
    /\ stage = "connecting"
    /\ AirPlay \in added
    /\ \A q \in todo : DefaultRank[AirPlay] < DefaultRank[q]
    /\ TunnelWanted
    /\ Registers(Mrp)
    /\ UNCHANGED todo

Connected ==
    /\ stage = "connecting"
    /\ todo = {}
    /\ stage' = IF handles = <<>> THEN "failed" ELSE "connected"
    /\ UNCHANGED <<relayerVars, todo, handles, open, calls, running>>

Connect ==
    \/ \E p \in Enabled : Connects(p) \/ SetupFails(p)
    \/ ConnectsTunnel
    \/ Connected
-----------------------------------------------------------------------------
(* FacadePushUpdater: start and stop go through the updaters as instances() *)
(* lists them at that moment, start awaiting each. close() stops them, and  *)
(* then awaits the close of one handle after the other.                     *)

Updaters ==
    LET ps == registered[PushUpdater]
    IN  CHOOSE s \in [1..Cardinality(ps) -> ps] :
            \A i, j \in DOMAIN s : i < j => s[i] # s[j] /\ Before(PushUpdater, s[i], s[j])

Goes(u, op, left, error) ==
    calls' = [calls EXCEPT ![u] = [op |-> op, left |-> left, error |-> error]]

Starts(u) ==
    /\ stage = "connected" /\ calls[u] = NoCall
    /\ Goes(u, "start", Updaters, FALSE)
    /\ UNCHANGED <<relayerVars, todo, stage, handles, open, running>>

(* One that refuses to start does not keep the others from starting.        *)
StartOne(u) ==
    /\ calls[u].op = "start" /\ calls[u].left # <<>>
    /\ \/ /\ running' = running \cup {Head(calls[u].left)}
          /\ Goes(u, "start", Tail(calls[u].left), calls[u].error)
       \/ Goes(u, "start", Tail(calls[u].left), TRUE) /\ UNCHANGED running
    /\ UNCHANGED <<relayerVars, todo, stage, handles, open>>

(* stop() never waits, and no other task of this model is inside an updater *)
(* meanwhile: it is one step.                                               *)
StopAll == running' = running \ registered[PushUpdater]

Stops(u) ==
    /\ stage = "connected" /\ calls[u] = NoCall
    /\ StopAll
    /\ UNCHANGED <<relayerVars, todo, stage, handles, open, calls>>

Closes(u) ==
    /\ stage = "connected" /\ calls[u] = NoCall
    /\ StopAll
    /\ Goes(u, "close", [k \in DOMAIN handles |-> k], FALSE)
    /\ UNCHANGED <<relayerVars, todo, stage, handles, open>>

(* Mutant: close() returns at the first error.                              *)
CloseOneStopsAtError(u) ==
    /\ calls[u].op = "close" /\ calls[u].left # <<>>
    /\ open' = open \ {Head(calls[u].left)}
    /\ \E error \in BOOLEAN :
          Goes(u, "close", IF error THEN <<>> ELSE Tail(calls[u].left), calls[u].error \/ error)
    /\ UNCHANGED <<relayerVars, todo, stage, handles, running>>

(* A handle ends its connection whatever its close() reports; the first     *)
(* error is kept for the caller.                                            *)
CloseOne(u) ==
    /\ calls[u].op = "close" /\ calls[u].left # <<>>
    /\ open' = open \ {Head(calls[u].left)}
    /\ \E error \in BOOLEAN :
          Goes(u, "close", Tail(calls[u].left), calls[u].error \/ error)
    /\ UNCHANGED <<relayerVars, todo, stage, handles, running>>

CallReturns(u) ==
    /\ calls[u].op # "none" /\ calls[u].left = <<>>
    /\ Goes(u, "none", <<>>, FALSE)
    /\ UNCHANGED <<relayerVars, todo, stage, handles, open, running>>

Calls(u) == Starts(u) \/ StartOne(u) \/ Stops(u) \/ Closes(u) \/ CloseOne(u) \/ CallReturns(u)

Claims ==
    /\ \E c \in Claimants : StartClaim(c) \/ ClaimEnds(c) \/ DropGuard(c)
    /\ UNCHANGED <<todo, stage, handles, open, calls, running>>

FacadeNext == Connect \/ Claims \/ \E u \in Users : Calls(u)

FacadeSpec == FacadeInit /\ [][FacadeNext]_facadeVars
-----------------------------------------------------------------------------
(* The values the variables take.                                           *)
FacadeTypeOK ==
    /\ RelayerTypeOK
    /\ todo \subseteq Enabled
    /\ stage \in {"connecting", "connected", "failed"}
    /\ handles \in Seq(Protocols)
    /\ open \subseteq DOMAIN handles
    /\ running \subseteq added
    /\ \A u \in Users : calls[u].op \in {"none", "start", "close"}

(* connect.rs:231: MRP over a tunnel never comes on top of MRP on its own   *)
(* socket: the second registration would take the place of the first in     *)
(* every relayer, and the first connection would stay up behind it.         *)
OneConnectionPerProtocol ==
    \A k, l \in DOMAIN handles : handles[k] = handles[l] => k = l

(* facade.rs:420: "one protocol refusing to shut down cleanly must not      *)
(* leave the others connected". Whoever returns from close(), with an error *)
(* or without, leaves no connection up, whatever other callers do.          *)
ClosedMeansAll ==
    \A u \in Users : calls[u].op = "close" /\ calls[u].left = <<>> => open = {}
=============================================================================

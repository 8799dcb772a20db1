---------------------------- MODULE DmapUpdates ----------------------------
(* Push updates over DMAP (pyatv-proto-dmap: facade/updates.rs, client.rs). *)
(* A poller asks for the play status past the revision the client knows; the*)
(* device holds the request until it has a later one. Other calls ask for   *)
(* the play status too, from revision zero, and every answer sets the       *)
(* revision the client knows. stop() aborts the poller, which still ends    *)
(* what it is doing up to its next await.                                   *)
EXTENDS Naturals

CONSTANTS
    Readers,    \* tasks in playing(), artwork() or skip()
    MaxRev      \* bound: revisions of the device

ASSUME DmapAssumption == MaxRev \in Nat \ {0} /\ {"poller", "aborted"} \cap Readers = {}

VARIABLES
    rev,        \* the device's revision
    revision,   \* ClientState.revision
    asks,       \* per task where it is in playstatus, the revision asked from, the answer
    told,       \* the revision of the listener's last playstatus_update, 0 after an error
    overtaken   \* the revision, or what was told, is another task's than the poller's

dmapVars == <<rev, revision, asks, told, overtaken>>

\* The poller, and the one before it that stop() has aborted.
Tasks == {"poller", "aborted"} \cup Readers
NoAsk == [at |-> "none", from |-> 0, answer |-> 0]

DmapInit ==
    /\ rev = 1
    /\ revision = 1   \* requester_login primes the play status
    /\ asks = [t \in Tasks |-> NoAsk]
    /\ told = 0 /\ overtaken = FALSE

To(t, at) == [asks EXCEPT ![t].at = at]

DeviceChanges ==
    /\ rev < MaxRev
    /\ rev' = rev + 1
    /\ UNCHANGED <<revision, asks, told, overtaken>>
-----------------------------------------------------------------------------
(* Mutant: a restart goes on from the revision it knows.                    *)
StartFromHere ==
    /\ asks["poller"] = NoAsk
    /\ asks' = To("poller", "ask")
    /\ overtaken' = FALSE
    /\ UNCHANGED <<rev, told, revision>>

(* start() while no poller runs: reset_revision, then spawn.                *)
StartPolling ==
    /\ asks["poller"] = NoAsk
    /\ revision' = 0
    /\ asks' = To("poller", "ask")
    /\ overtaken' = FALSE
    /\ UNCHANGED <<rev, told>>

(* stop(): the task ends at once if it waits; else it runs to its next await.*)
StopPolling ==
    /\ asks["poller"] # NoAsk
    /\ asks["aborted"] = NoAsk
    /\ asks' = [asks EXCEPT !["poller"] = NoAsk,
                            !["aborted"] = IF asks["poller"].at \in {"store", "tell"}
                                           THEN asks["poller"] ELSE NoAsk]
    /\ UNCHANGED <<rev, revision, told, overtaken>>

StartsRead(t) ==
    /\ t \in Readers /\ asks[t] = NoAsk
    /\ asks' = [asks EXCEPT ![t] = [at |-> "held", from |-> 0, answer |-> 0]]
    /\ UNCHANGED <<rev, revision, told, overtaken>>

(* playstatus: the poller asks from the revision the client knows.          *)
Asks ==
    /\ asks["poller"].at = "ask"
    /\ asks' = [asks EXCEPT !["poller"] = [at |-> "held", from |-> revision, answer |-> 0]]
    /\ UNCHANGED <<rev, revision, told, overtaken>>

(* The device holds a request that asks from the revision it is at.         *)
DeviceAnswers(t) ==
    /\ asks[t].at = "held"
    /\ asks[t].from # rev
    /\ asks' = [asks EXCEPT ![t].at = "store", ![t].answer = rev]
    /\ UNCHANGED <<rev, revision, told, overtaken>>

(* Every answer sets the revision. A caller's is not the listener's.        *)
StoresAnswer(t) ==
    /\ asks[t].at = "store"
    /\ revision' = asks[t].answer
    /\ asks' = IF t \in Readers THEN [asks EXCEPT ![t] = NoAsk] ELSE To(t, "tell")
    /\ overtaken' = (overtaken \/ (t \in Readers /\ asks[t].answer # told))
    /\ UNCHANGED <<rev, told>>

(* playstatus_update; an aborted poller ends when it asks again.            *)
TellsListener(t) ==
    /\ asks[t].at = "tell"
    /\ told' = asks[t].answer
    /\ overtaken' = IF t = "aborted" THEN asks["poller"] # NoAsk ELSE revision # told'
    /\ asks' = IF t = "aborted" THEN [asks EXCEPT ![t] = NoAsk]
               ELSE [asks EXCEPT ![t] = [NoAsk EXCEPT !.at = "ask"]]
    /\ UNCHANGED <<rev, revision>>

(* Mutant: an error leaves the revision as it was.                          *)
FailsKeeping ==
    /\ asks["poller"].at = "held"
    /\ told' = 0
    /\ asks' = To("poller", "sleep")
    /\ UNCHANGED <<rev, overtaken, revision>>

(* A refused poll: reset_revision, playstatus_error, and wait.              *)
PollFails ==
    /\ asks["poller"].at = "held"
    /\ revision' = 0
    /\ told' = 0
    /\ asks' = To("poller", "sleep")
    /\ overtaken' = FALSE
    /\ UNCHANGED rev

Wakes ==
    /\ asks["poller"].at = "sleep"
    /\ asks' = To("poller", "ask")
    /\ UNCHANGED <<rev, revision, told, overtaken>>

(* A transport failure: connection_lost, and the poller ends.               *)
PollLost ==
    /\ asks["poller"].at = "held"
    /\ asks' = [asks EXCEPT !["poller"] = NoAsk]
    /\ UNCHANGED <<rev, revision, told, overtaken>>

ReadFails(t) ==
    /\ t \in Readers /\ asks[t].at = "held"
    /\ asks' = [asks EXCEPT ![t] = NoAsk]
    /\ UNCHANGED <<rev, revision, told, overtaken>>

DmapNext ==
    \/ DeviceChanges \/ StartPolling \/ StopPolling \/ Asks \/ PollFails \/ Wakes \/ PollLost
    \/ \E t \in Tasks : StartsRead(t) \/ DeviceAnswers(t) \/ StoresAnswer(t) \/ TellsListener(t) \/ ReadFails(t)

DmapSpec == DmapInit /\ [][DmapNext]_dmapVars
-----------------------------------------------------------------------------
(* The values the variables take.                                           *)
DmapTypeOK ==
    /\ rev \in 1..MaxRev /\ {revision, told} \subseteq 0..MaxRev
    /\ \A t \in Tasks : asks[t].at \in {"none", "ask", "held", "store", "tell", "sleep"}
    /\ asks["aborted"].at \in {"none", "store", "tell"}

UpToDate == asks["poller"].at = "held" /\ asks["poller"].from = rev

(* updates.rs:85: the revision is reset "so the first request comes back    *)
(* immediately with current state rather than blocking on a revision the    *)
(* device has already moved past". So a poll the device holds is one of a   *)
(* listener that was told what plays.                                       *)
HeldPollIsTold == UpToDate /\ asks["aborted"] = NoAsk => told = rev

(* The same unless the answer to another caller set the revision, or an     *)
(* aborted poller told its answer after its successor began: restarts,      *)
(* refused polls and changes at any moment lose no update.                  *)
HeldPollIsToldUnlessOvertaken == ~overtaken => HeldPollIsTold
=============================================================================

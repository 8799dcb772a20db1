# A TLA+ model of pyatv-rs

pyatv-rs talks to Apple TVs and AirPlay receivers over five protocols. This directory models what a
unit test of it drives along one schedule only: tasks, channels, tables, locks, procedures over
several messages, and the codecs whose two ends have to agree. TLC checks the models on small
instances; TLAPS proves their safety properties, and that both connections implement the abstract one,
for every value of the constants.

## Inventory

| Component | State | Operations | What is hard |
|---|---|---|---|
| **MRP connection** (`pyatv-proto-mrp/src/protocol*`) | request and inbound channels, table of outstanding exchanges, reader, heartbeat | `send`, `send_and_receive`, `exchange_untagged`, `close`, `enable_heartbeat`; actor and reader loops | three kinds of task and a device interleave; timeouts race answers; the connection can end in four ways |
| **MRP player model** (`state*`, `player_state.rs`) | clients and players, push listener, notification queue | `handle`, `set_push_active`, the notifier | the actor and `start` both post; the queue drops; a removal is judged after it happened |
| **MRP facade** (`facade/*`) | cached volume and group | `set_volume`, steps, `modify_group` | a waiter that must exist before the request and must not be made when nothing will be reported |
| **MRP transports** (`transport/*`) | socket halves, cipher, frame buffer | `send`, `recv`, `close` | partial frames, the tunnel's bounded queues |
| **Companion protocol** (`pyatv-proto-companion/src/protocol.rs`) | transaction id, outstanding ids, stash, event queue | `exchange_opack`, `send_event`, `poll_once` | late and unsolicited responses, ids leaked by failed writes |
| **Companion API actor** (`api*`) | request queue, subscriptions, deferred work, power, volume, focus | `send_command`, `subscribe_event`, `close`; draining of events | an exchange blocks the actor while events arrive; shutdown in several steps |
| **Facade** (`pyatv-core/src/relayer.rs`, `facade*`, `pyatv/src/connect.rs`) | registrations, takeovers, handles, last values | `connect`, `add_protocol`, `takeover`, `release`, `start`, `stop`, `close`, reports | partial claims, a main protocol that moves while an update is under way, errors in the middle of `close` |
| **Storage** (`pyatv-core/src/storage/*`) | list of settings, remembered dump, file | `get_settings`, `update_settings`, `store_credentials`, `remove_settings`, `save`, `load` | operations under two holds of a lock, concurrent saves, crash in the replacement of the file |
| **RAOP** (`pyatv-proto-airplay/src/raop/*`) | session guard, what the accessors see, packet backlog | `stream`, `stop`; retransmission | a future dropped at any await, 16-bit sequence numbers |
| **AirPlay RTSP** (`http.rs`, `rtsp.rs`) | connection under a lock, CSeq, unread bytes | exchanges of several tasks | timeouts and aborted tasks leave responses behind |
| **AirPlay 2 session** (`ap2/*`, `pyatv/src/tunnel.rs`) | event and data channels, their queues | frame loop, tunnel | acknowledged payloads dropped, two bounded queues in a circle |
| **DMAP** (`pyatv-proto-dmap`) | session id, revision, poller; pairing PIN | `login`, `playstatus`, `start`, `stop`; pairing server | the revision is shared by the poller and all readers |
| **mDNS** (`pyatv-mdns`) | responder's log, scan results | `announce`, `handle`, `unregister`; `multicast`, `unicast` | rate limit against announcements, sleep proxies, answers that come twice or never |
| **Pairing** (`pyatv-pairing`) | procedure step, session keys; the accessory's session | M1 to M6, verify M1 to M4, transient | one accessory for many connections, retries, requests handled late |
| **Codecs** (OPACK, DNS, TLV8, DMAP tags, protobuf) | none | encode, decode | back references numbered by either side, limits |
| **Umbrella, CLI, GUI** | none of their own | `connect`, `scan`, `pair` | partial failure of `connect` |

The components interact through calls (facade to protocol), bounded `mpsc` channels with `oneshot`
replies (callers to actors), callbacks (`DeviceListener`, `PlaybackListener`, `PowerListener`,
`StateDispatcher` back into the facade) and shared `Arc<Mutex<_>>` state. MRP runs either on its own
TCP connection or on the AirPlay 2 data channel (`pyatv/src/tunnel.rs`).

What makes each component correct, in a sentence: a *connection* answers a call with the response
to that call or an error, exactly once and in bounded time, forgets nobody when it ends and reports
an end nobody asked for; the *player model* shows what the device said last; the *facade* claims all
or nothing, tells each change once and closes everything; *storage* has one record per device and a
file that is always whole; *RAOP* streams one track at a time and retransmits what it sent; *mDNS*
answers no more often than it may and takes no part of an answer for the whole; *pairing* stores only
what both sides have proved; a *codec* reads back what it wrote.

`PROJECT.json` lists the hazards at their lines; what no property covers is also under Findings, at the end.

## Modules

| Module | What it is |
|---|---|
| `RpcChannel` | abstract specification: what a connection promises the tasks that call over it, and when an answer may be another call's |
| `MrpProtocol`, `MCMrpProtocol` | the MRP connection: callers, heartbeat, actor, reader, device; its instance for TLC |
| `MrpProtocolShape`, `MrpProtocolProofs` | its proofs: types and shape; the inductive invariant and the safety invariants |
| `CompanionActor`, `MCCompanionActor`, `MCCompanion` | the Companion session: callers, actor, exchanges, device; its instances |
| `CompanionActorProofs` | its proofs, in the same order |
| `Relayer` | registrations, priorities and claims |
| `Facade` | extends `Relayer`: `connect`, the push updaters, `close` |
| `ListenerHub` | extends `Relayer`: what protocols report and listeners are told |
| `FacadeProofs` | proofs about the three, and that the facade implements the relayers |
| `Storage` | settings records and the settings file |
| `Raop`, `RtspConnection`, `DataStream` | AirPlay: streams and packets; one RTSP connection; data stream and MRP actor |
| `AirPlayProofs` | proofs about RAOP, RTSP and the data stream |
| `MrpPlayers`, `MrpVolume` | what plays and who is told; volume and groups |
| `DmapUpdates` | the play status poller and other readers |
| `MdnsScan`, `MdnsResponder` | a scan; a published service |
| `DeviceProofs` | proofs about DMAP, mDNS, players and volume |
| `HapPairing` | pair-setup, pair-verify and transient pairing with the reference accessory |
| `StorageProofs` | proofs about what is kept: the settings, and the credentials of pairing |
| `Opack`, `Tlv8`, `DnsCodec` | codecs as operators, each with a message that is built step by step |
| `CodecProofs` | proofs about TLV8 |
| `MCParts` | the instance of everything from `Facade` on |

### `MrpProtocol`

* `requests`, `inbound`: the two bounded `mpsc` channels, capacities `RequestQueue` and
  `InboundQueue` (32 and 64 in the code). A send waits for room and fails once the actor is gone.
* `phase`, `op`, `key`, `slot`, `reply`: where each caller is inside `actor::exchange`, `send` or
  `close`: waiting for room, waiting on its oneshot, or timed out with a `Cancel` to send.
* `writing`, `outstanding`, `actor`, `stop`: the actor. One iteration of `serve` is `TakeWrite`
  followed by `WriteOk` or `WriteFails`, because the actor awaits inside `transport.send`;
  everything else it does in one synchronous stretch is one action (`ServeCancel`, `Dispatch`,
  `ServeShutdown`, `ServeError`, `ServeEof`). `Finish` is the end of `run` (fail what is outstanding,
  tell the listener) and `DropActor` the drop of the receivers, which also drops every queued oneshot.
* `Dispatch`, `ServeError`, `ServeEof` are enabled only when no request is queued: the `select!` is
  biased.
* `hb`, `attempts`, `enables`, `orphans`: `heartbeat::run` and the futures that `enable_heartbeat`
  and `close` abort.
* `device`, `accepted` are the environment. The device may answer in any order, not at all, push,
  stop answering (`mute`), stop reading (`stalled`), close or reset.
* What the device has accepted, and what the reader hands over, says in `slot` which exchange it answers.
  The actor never looks at it: `Dispatch` matches by key, as `dispatch` does, and `reply` then says whether
  the oneshot got its own answer or a `"misanswer"`. `lapsed` is a ghost: whether an untagged exchange has
  timed out.

Payloads are reduced to the correlation key. A UUID is a member of `Ids` found nowhere else in the
system, so a finite set stands for the infinite supply; the key of untagged exchanges is `TypeKey`.
One task at a time makes untagged exchanges (`StartUntagged`), as the pairing procedures do and the
comment in `handle_request` says.

`ImplementsRpcChannel` tells the two kinds of exchange apart. One with an identifier gets its own answer or
fails. Untagged ones share a key, so the device's late answer to one that timed out resolves the next;
`RpcChannel` has that as `Misanswer`, enabled only for a call without an identifier, and only once such a
call was given up. Until then untagged exchanges get their own answers too, although nothing in a message
says whose it is.

### `CompanionActor`

* `requests`: the bounded `mpsc` channel of `CompanionApi` (32 in the code); `phase`, `op`, `reply`:
  each caller inside `send_command`, `send_event` or `close`. `got` is a ghost: whose request the
  response that a caller was given belongs to.
* `pc`: where the actor is in `Actor::run`. At `select` it takes a request or, only if there is none,
  a frame. `write` and `await` are the two awaits of an exchange; an event has only the first. `drain`
  is the `for` loop with `passes` as its counter, `teardown` the chain of `Actor::shutdown`, `lost` the
  time between the return of `run` and the call of `DeviceListener::connection_lost`.
* `job` is the frame being sent or the exchange awaited, for a caller, a deferred volume read or the
  teardown. `Finish` is what becomes of its result.
* `outstanding`, `stash`, `events`: the fields of `CompanionProtocol`. A `WriteFails` leaves its XID in
  `outstanding`, as the early return of `exchange_opack` does, so both can be non-empty at rest.
* `deferred` is a Boolean because `defer` drops duplicates and there is one kind of follow-up.
* `subscribed` is the actor's list, `registered` the device's. A request is filtered by the first.
* `controls` and `volume` stand for `ApiState`'s control flags and level, reduced to the VOLUME bit and
  to whether the level is 0.0 or was read. Power and focus have no follow-up and are left out.

The wrapping XID counter is abstracted to the smallest value not in flight. The device may answer in
any order or not at all, answer twice or unasked (`DeviceErrs`), push, and go away.

### `Relayer`, `Facade`, `ListenerHub`

`registered` and `takeover` are the instances and the takeover of each `Relayer`, `owners` the
feature owners of `FacadeFeatures`. A claim goes through the relayers one lock at a time, so each
`Take`, `Refuse` and `ReleaseOne` is a step of its own; `claims` holds what the guard of each claimant
has taken. `First` is the search order: the one that has taken over, then by rank.

`Facade` adds `connect` (`todo`, `stage`: services in priority order, each set up or failed, MRP
through the tunnel only if there is none yet), `handles` with the connections that are `open`, and
`calls`, where each user is within `start` or `close`. `stop` never waits and is one step.

`ListenerHub` splits a report at the lock: the question who is main (`Reports`), the compare and store
under the lock (`Stores`), and the calls of the listeners after it (`Tells`). `balance` is a ghost that
adds up the changes told.

### `Storage`

A record is the identifiers a device is known by and its credentials. `Get` is `get_settings` and the
first half of `update_settings`, `Pairs` the first half of `store_credentials`; `Store` the second half
of both under another hold of the lock. A configuration names the identifiers its services have and
those it clears, because a service without an identifier overwrites the stored one. `common` is a
history variable, the identifiers that every lookup and pairing has had. A save is the sequence `Save` (dump, compare), `CreateTmp`,
two writes, `Sync`, `Rename`, `MarkSaved`, any of which may fail; `conf`, `tmp` and `committed` are
names for inodes, so a rename that the disk has not seen yet can be undone by `Crash`, and what was
not synced can come back in part.

### `Raop`, `RtspConnection`, `DataStream`

`Raop`: `streams` is where each caller is in `stream()`, `guard` the lock of
`RaopPlaybackManager.streaming`, `shared` its `SharedState` with the owner of each part, `backlog` the
`PacketFifo`. `Drops` is a future dropped at any await: the lock goes, `release()` is not reached.
Numbers wrap at `SeqNumbers`.

`RtspConnection`: an exchange holds `lock` from `Send` to `ReadResponse`; it may time out, or its task
may be aborted in the queue, inside the write (the request out, out in part, or not) or waiting.

`DataStream`: `loop` is `run()` of the data stream, `actor` the MRP actor on the other side of the
tunnel. Frames are counted, not told apart. The guards of their steps have names (`CanTakeOutbound` and
so on), because the absence of a deadlock is stated by them.

### `MrpPlayers`, `MrpVolume`

`MrpPlayers`: `clients` and `playing` are the `PlayerStateManager`. A message is applied, judged and,
if in scope, posted (`ReadsView`, `PostsView`) from the actor; `start()` posts too, from its caller's
task. `excused` names the three ways an update is known to go missing.

`MrpVolume`: a caller reads the cached volume, creates its waiter, sends, and waits; `told` is the
`Notified` it created. The device reports a level that changed, and a group in any case.

### `DmapUpdates`

`revision` is the client's, set by every answer to whoever asked; `rev` the device's. A stopped
poller lives on to its next await as `"aborted"`.

### `MdnsScan`, `MdnsResponder`

`MdnsScan`: the types asked for are split over `Messages`, each with one type of the next. Datagrams
that hosts may have sent stay in `network`, to arrive once, twice or never. `answered` and `repeats`
are ghosts: whether answers were of different messages.

`MdnsResponder`: ages instead of times, in ticks. `log` is `MulticastLog`; `cached` is a cache that
hears every multicast, the reference the log is compared with. `HandleQuery` is `handle` up to the
await of its send. `Inner::multicast` writes the log only once its send has returned, and the serving task, the
announcing task and callers of `announce_now` (`Publishers`) run in parallel: so a multicast is two steps,
the send (`SendReply`, `MulticastAll`, `Goodbye`) and the entry (`RecordSent`), with `unlogged` between
them. A reply is `raced` if an announcement was in that gap when `handle` looked at the log, or went out
between that look and the reply. `replied`, a ghost, is how long ago a reply multicast each record. The log
is looked at in one step, although the code takes its lock for one record at a time; and no tick passes in
the gap, which is the time between the return of a system call and a lock.

### `HapPairing`

A run's number stands for all that is random in it, a session key is the tuple it is computed from,
something sealed names the key that opens it, and a signature is who signed what. `handlers` is
`MrpPairingHandler` with `PairSetup`, `PairVerify` or `TransientPairSetup` inside; `accessories` is the
repository's own accessory (`pyatv-pairing/src/server`), the reference for what a device does: one set-up
session and one verify secret for all its connections. `verified` has, for each run that was verified,
the credentials it was verified with and the secret it ended with. A user may give up at any step, and the device
still handles what was sent.

### `Opack`, `Tlv8`, `DnsCodec`

Writer and reader are operators translated from the code; the only step adds a part to a message, and
the properties pack, read and compare. Bytes within a scalar, a label or a value are one token;
lengths, limits, pointers, tables and chunks are as in the code. A value of OPACK is on the wire what
it is read as; a name is the sequence of its pieces between dots.

## Runs

| Run | Bounds | Shows |
|---|---|---|
| `MrpProtocolSafety` | 2 callers, 2 ids, queues of 1, all four calls (`SendsBeforeHeartbeat`), every device failure | `TypeOK`, `IInv` (the inductive invariant of the proofs), `SlotsAccountedFor`, `NoCallerForgotten`, `NeverReplaced`, `QuietAfterClose`, `ImplementsRpcChannel` |
| `MrpProtocolLiveness` | 1 caller and the heartbeat, request queue of 2, no stalled device | `EveryCallReturns`, `MuteDeviceDropped`, `PeerLossNoticed` |
| `MrpProtocolStall` | 1 caller and the heartbeat, queues of 1, the device may stall | counterexample: a call that never times out |
| `MrpProtocolDrop` | the same without a stall | counterexample: a connection the heartbeat ended, unreported |
| `CompanionSafety` | 2 callers, `MaxOutstanding` 2; either commands and closes with 2 requests the device remembers, or 2 names registered and deregistered and closes | `TypeOK`, `AnswersMatch`, `StashWithinOutstanding`, `NothingOutstanding`, `SubscriptionsAgree`, `NothingLeftRegistered`, `ImplementsRpcChannel` |
| `CompanionLiveness` | 2 callers with commands, one of which may close and the other registers one name, 2 drain passes | `EveryCallReturns`, `LossReported` |
| `CompanionVolume` | commands only, 2 frames or events | counterexample: a volume read after control was withdrawn |
| `CompanionLeftover` | as above, 1 event per drain | counterexample: events left to the next frame |
| `MCParts` | 17 scenarios, see below | one to three properties of each part |
| `StorageTorn` | the `file` scenario with two savers | counterexample: half a file under the settings' name |
| `RemovedPlayer` | the players scenario | counterexample: a change of what plays that nobody is told |
| `RtspMismatch` | the RTSP scenario | counterexample: an exchange returns another's response |

`CompanionSafety` and `MCParts` let a behaviour choose one scenario at the start and stay in it: their
parts share no state there, and one run explores each of them alone.

### Scenarios of `MCParts`

| Scenario | Bounds | Properties |
|---|---|---|
| `relayer` | 3 protocols, 3 interfaces, one with priorities of its own, 2 claims that take two interfaces in opposite order | `TakenByItsGuard`, `FeatureAnsweredByCallee` |
| `facade` | the same, 2 users, one claim, once all is connected (`OneClaim`) | `OneConnectionPerProtocol`, `ClosedMeansAll` |
| `hub` | the same with 2 kinds of report, one of them filtered by a main protocol, 2 values | `ChangesChain` |
| `records` | 2 editors, one device with 2 identifiers seen by either, by both, or by one that clears the other | `OneRecordPerDevice` |
| `file` | 1 saver, 1 editor that changes the list meanwhile (`OneEditor`) | `FileComplete`, `MarkerTruthful` |
| `raop` | 2 streams, numbers modulo 4, backlog 2, 6 packets, requests of 1 to 3 | `OneStreamsState`, `RetransmitAnswers` |
| `rtsp` | 3 senders, 4 exchanges | `AnswersOwnUnlessAbandoned` |
| `datastream` | queues of 2, 2 frames in the socket | `NoCircularWait` |
| `players` | 1 client with two players or 2 with one each (`FewPlayers`), queue of 1 | `ShownIsCurrent` |
| `volume` | 2 callers, levels 0 and 1, 1 command and 2 reports on their way (`TwoVolumes`) | `NoWaitInVain` |
| `dmap` | the poller, its aborted predecessor, 1 reader, 4 revisions | `HeldPollIsToldUnlessOvertaken` |
| `scan` | 2 hosts, one asleep, 3 types in messages of 2, 2 rounds | `EarlyEndIsComplete` |
| `responder` | rest of 2 ticks, lives of 8 and 12, 2 rounds of announcements, 1 publisher (`LateAnnouncements`) | `RepliesRest`, `UnicastOnlyWhileFresh` |
| `opack` | up to 4 parts of 12 values | `RoundTrips` |
| `tlv8` | 3 tags set 3 times, chunks of 2 | `RoundTrips` |
| `dns` | 3 questions or records of 7, labels of 2 pieces, pointers up to cell 8 | `RoundTrips` |
| `pairing` | 2 controllers, 2 devices, 2 runs, 2 PINs (`ShownPins`) | `StoredAreProven` |

`TypeOK` is the type invariant of the scenario's own variables. Deadlock is not checked: a scenario
ends when its bounds are used up, its claimants are through or its message is full, and a part with
nothing to do may rest.

### Why the bounds are enough

A queue of one place is both full and empty; two ids let a late answer or a `Cancel` meet a newer
exchange; two callers and the heartbeat contend for room. `HeartbeatRetries` has the code's value, 1.
`MaxEnables` bounds calls of `enable_heartbeat`. `MaxOutstanding` 2 (16 in the code) lets XIDs leaked
by failed writes be evicted with a response stashed under them; `MaxEventsPerDrain` and
`MaxDrainPasses` of 1 or 2 (256 and 8) are exceeded by the events that fit. `Xids` has more values than
can be in flight.

Two claims in opposite order make each refuse the other with one interface taken. Six packets with
numbers modulo 4 wrap with the backlog full, and a request of 3 is longer than it. Four exchanges let
an abandoned response meet two later ones. Three types in messages of 2 give two messages that share a
type (`PerMessage` is 3 in the code). A tick of the responder is half a second of rate limit, and the
lives keep the order rest, a quarter of the host's life, a quarter of the service's. The limits of the
codecs are scaled down together, in their order, so that a message of a few values passes each of
them: integers small, of a byte and wider, pointers that are inline, of a byte, of two bytes and too
far, containers up to `EndlessCount` and beyond, values that fill their entries or spill over, names
that end within the reach of a pointer and beyond it. `JumpLimit` is never reached by three records:
a chain of pointers is as long as the suffixes that were shortened one after another. Two runs are
enough for one to disturb another, also on the same device; a third would repeat the second.

Bounds that leave combinations out, not single steps, are `SendsBeforeHeartbeat` of `MCMrpProtocol`, which
keeps messages that need no answer apart from the heartbeat, and the named conditions of `MCParts`
(`OneClaim`, `OneEditor`, `FewPlayers`, `TwoVolumes`, `LateAnnouncements`, `ShownPins`, `MCQueries`),
each with a comment.

### Fairness

`MrpProtocol`: every task that can run is polled and timers fire; a task waiting for room is served in
order (tokio's semaphore is fair), hence strong fairness; the actor's poll of `inbound` is strongly
fair as far as the bias allows, which is why `PeerLossNoticed` is conditional on the request channel
running empty now and then. Nothing obliges the device to answer, push or fail.

`CompanionActor`: callers waiting for room are served in order (strong), a caller with a reply returns,
the actor runs, and the deadline of an exchange passes however many frames arrive meanwhile. Writes
complete or fail: a device that stops reading its socket would stop this actor as it stops MRP's, since
the deadline of `pump` does not cover `send_opack`. `LossReported` assumes that callers leave the request
channel empty in the end: the `select!` is biased here too.

`MCParts` states none: its properties are invariants. `NoCircularWait`, that two parties never wait on
each other, is stated by the guards of their steps.

### Findings

1. `MrpProtocolStall`: `exchange` starts its timeout after the request was queued, and neither
   `transport.send` nor the wait for room has one. A device that stops reading leaves callers waiting
   for ever.
2. `MrpProtocolDrop`: when the heartbeat gives up it sends `Shutdown`, and `run` treats the end as
   requested: the `DeviceListener` is not told.
3. `CompanionVolume`: an event that withdraws volume control does not withdraw the volume read an
   earlier event of the same drain deferred; the level read stays, and is dispatched, without control.
4. `CompanionLeftover`: events beyond `MAX_EVENTS_PER_DRAIN` are not picked up by a pass that follows
   immediately: with nothing deferred the loop ends, and they wait for the next frame or request.
5. `StorageTorn`: all savers write the same sibling file. One truncates and refills it while another
   is about to rename it, and half a dump gets the settings' name.
6. `RemovedPlayer`: `remove_player` asks who is active after the removal, so the removal of a default
   player that nobody chose is not told.
7. `RtspMismatch`: a response whose CSeq is not the request's is returned all the same. After a timeout or
   an aborted task the next exchange takes the late response for its own, and so does every later one.

Behaviour met while modelling that contradicts no document, or only in passing, and has no run:

* DMAP: after an expired session two tasks may both log in again (`daap.rs:265`); an answer to another
  reader overtakes the revision a held poll was for, so the listener hears the next change but not this
  one (`HeldPollIsTold` in `DmapUpdates` is the property without that exception); a poller that `stop()` aborted
  may still be inside a listener call (`updates.rs:128`); artwork can be filed
  under the hash of another track (`metadata.rs:77`).
* MRP: the late answer to an untagged exchange that timed out resolves the next one (`actor.rs:233`); the
  entry of a heartbeat that was aborted stays in the table (`protocol.rs:314`), and no property forbids it.
* mDNS: a reply checked while an announcement is sent and not yet logged multicasts its records again at once
  (`responder.rs:198`); `RepliesRest` excepts that, and shows that no reply repeats another's.
* mDNS: an answer or announcement under way may follow the goodbye (`responder.rs:165`). A browse counts
  answers, so a host that answers twice can end it with a service missing (`multicast.rs:388`);
  `deep_sleep` stays set once a proxy has answered.
* MRP: a caller that has never heard the level may wait in vain for a report, and one that sets the
  volume of another device waits by the wrong level; a notification queued before `stop()` is delivered
  after it (`notify.rs:78`); the power state that `start` read can be older than what the actor
  stored (`power.rs:72`).
* Companion: `initialize_power` stores its answer from the caller's task, past a newer event
  (`api.rs:401`).
* RAOP: a stop before the stream's flag is raised is lost (`stream/data.rs:36`); a dropped `stream()`
  future leaves `acquired` set, and no later stream gets in (`manager.rs:159`).
* AirPlay: the payload a full data-stream queue drops may be an answer, not only an update.
* Storage: two saves of different dumps may rename in one order and remember in the other (`file.rs:106`),
  which `MarkerTruthful` leaves out, as its scenario has one saver. `update_settings` and `store_credentials`
  read and write under two holds of the lock, so one of two concurrent changes of a record can be lost
  (`core.rs:231`). A device seen first under one identifier and then under another gets two records; once a
  configuration has both, the first record takes them and the second stays behind, with its credentials
  (`OneRecordPerDevice` excepts this by `common`; without that condition the `records` scenario has the
  counterexample).
* Facade: a `connect` whose future is dropped halfway drops the protocols that came up, without closing them
  (`connect.rs:136`); the model has no caller that gives up. A last value that a protocol reported stays when
  another becomes the main one (`listeners.rs:93`). Feature owners go by the default priorities, so where a
  relayer has others the protocol that is asked about a feature is not the one called
  (`FeatureAnsweredByCallee` excepts these); `close()` reports `connection_closed` after a protocol has
  reported a loss (`facade.rs:442`).
* OPACK: the reader's budget may refuse a large dense array that the writer emits. DNS: chains of
  pointers longer than the reader follows can be written; an empty first piece of an instance is lost.
* Pairing: `has_paired` is set before the save. The cipher is installed under a running reader
  (`protocol.rs:241`), which a device that is quiet between M4 and the first sealed message cannot meet.

## Proofs

Every safety property that a passing run checks is a theorem for every value of the constants, under the
named assumptions of its module, except those listed at the end of this section. `PROJECT.json` lists
the theorems with the property each states. A proof has a lemma for each action or group of actions and, under
it, a step for each conjunct that the action can disturb.

### The MRP connection (`MrpProtocolShape`, `MrpProtocolProofs`)

* `TypeCorrect`, `ShapeCorrect`: types, and what a call in each phase, a request of each kind, a
  stopping actor and the heartbeat look like.
* `Inductive`: `Spec => []IInv`. `SlotsAccountedFor` is not inductive: that a `Cancel` in the queue releases
  the right entry depends on who else holds the key. `IInv` adds that a oneshot has one receiver
  (`OneReceiver`) and one sender (`OneSender`), that a sender agrees with the call waiting on it
  (`SendersAgree`), that whatever a queued `Cancel` can strike is abandoned (`CancelsAreLate`), and that
  every sender, wherever it is, is expected by someone or about to be cancelled (`SendersAccountedFor`).
  Its part `OwnAnswers` is about what the device and the reader have for the actor: a message with an
  identifier answers the exchange of that identifier (`NamedAnswers`); and as long as no untagged exchange has
  timed out, the one untagged answer that is due is that of the exchange in the table (`OneAnswerDue`).
* `NothingPinned`, `NobodyForgotten`, `NobodyReplaced`: the three safety invariants, from `Inductive`.
* `ListenerLeftAlone`: the action property `QuietAfterClose`.
* `ConnectionImplementsRpcChannel`: the initial states map to initial states of `RpcChannel`, and each
  action to one of its steps or to a stutter. That no answer is delivered twice, or to a call that
  is not waiting, or to another than its own before an untagged one has timed out, comes from `IInv`.

### The Companion session (`CompanionActorProofs`)

`IInv` (`SessionInductive`) is about who owns an identifier. While the device is there, the one XID
outstanding is that of the exchange under way; every XID in the stash is outstanding; whatever is
accepted, arriving or stashed under the XID of a command answers its caller (`OwnersMatch`), whoever had
that XID before; and what the device has registered, with the change under way made, is what the lists
have (`ListsAgree`). A caller has one request, in the channel or in the actor's hands. From it: `SessionTypes`, `AnswersAreOwn`, `StashIsBounded`,
`ExchangesLeaveNothing`, `ListIsTheDevices`, `CloseDeregisters`, and with a mapping of its own
`SessionImplementsRpcChannel`.

### Relayers, facade and hub (`FacadeProofs`)

* `TakenByItsGuardAlways`, `RelayerTypeCorrect`. The inductive invariant adds to the property that a
  claim that has not begun has taken nothing (`ClaimShape`), without which the start of a claim could be one
  of what another holds. The property is about sets of claimants; `GuardsAgree` says the same of
  pairs of them, and the steps are proved for that. A step about claims replaces the record of one
  claimant (`Becomes`), the rest of each proof is about `takeover`. Only `Take` and `ReleaseOne` touch it:
  the one takes what is nobody's, the other gives back what its guard holds.
* `AskedIsCalled`: a feature's owner is the registered protocol of the smallest rank that offers it. It
  rests on two assumptions. `DefaultRank` is injective, as the order of `DEFAULT_PRIORITIES` is; and
  whoever offers a feature registers the interface it is called through, as every protocol's set-up does.
* `FacadeUsesRelayers`: `FacadeSpec => RelayerSpec`, each step of the facade being one of the relayers or a
  stutter. `FacadeRelaysFaithfully` carries both relayer theorems over.
* `ConnectedOnce`: a protocol that is still to be set up has no handle. MRP through the tunnel comes
  after MRP's own turn, because `Mrp` ranks before `AirPlay`, and only if that gave no handle.
* `CloseEndsAll`: whoever is closing still has to close every connection that is open (`StillToClose`).
* `FacadeTypes`: that the updaters which run are those of registered protocols takes `Updaters` to be a list
  of what is registered, so that such a list exists, sorted: a finite set in a strict order has for each
  member the number of those up to it (`SortedPlaces`). `Updaters` is written as a choice among lists
  because the prover knows nothing of the library's `SortSeq`.
* `HubTypes`, `ChangesAreAChain`: the property is inductive together with the shape of a report. The ghost `balance` is
  a function of functions; a change told adds one to the value it leads to and takes one from the value it left.
  The property adds the changes that are stored and not told yet, so the proof counts the protocols that are
  about to tell one (`Tellers`): hence the assumption that there are finitely many.

### Storage (`StorageProofs`)

* `DeviceHasOneRecord`: while `common` is not empty there is at most one record, and it has all of
  `common` among its identifiers, in the list, in what each editor holds between the two locks, in every
  dump, and in every file. A lookup then finds that record and no second one is added.
* `SavesAreAtomic`, `MarkerTellsTheFile` are theorems of behaviours in which saves take turns,
  `StorageSpec /\ []SavesTakeTurns`: with one saver every behaviour is one, with several the code does not
  ensure it and `StorageTorn` has the counterexample. The inductive invariant (`Atomic`) relates a
  save's position to its files: the sibling is an inode of its own, what it has of the dump grows with
  the steps, and it is on the disk before the rename; so a crash may undo a rename but never leaves a part.
  Savers are a finite set, because inodes are numbered and a new one must exist: processes and
  threads are finite.
* `StorageTypes`: `retain` gives each record that is kept the place that counts those kept up to it. That
  every place is taken (`NthKept`) is by the least number at which enough were kept (`LeastNumber`, from
  the well-foundedness of `<`).

### AirPlay (`AirPlayProofs`)

* `OneStreamAtATime`: the guard is with one stream, and what is shared has it for owner.
* `RetransmitsTheRightPacket`: the backlog is the window of the last packets sent (`Window`), so an index is
  a distance from the last number; two numbers of the window are equal modulo `SeqNumbers` only if
  they are the same, because the backlog is smaller than the numbers are many (1000 and 2^16 in the code).
* `AnswersAreOwnUnlessAbandoned`: as long as nothing was abandoned, the requests under way and the
  responses unread are those of the exchange that holds the lock.
* `StreamNeverDeadlocks`: while the device reads, a loop in the middle of a write or of a drain goes on
  whatever the queues hold, since it drops a payload there is no room for. An actor that waits for room faces a
  full queue, from which a loop at `select` takes, or a loop that has ended, and then the send fails.
  `StreamTypes` bounds the queues.
* `RaopTypes` (the backlog's map and order have the same numbers), `RtspTypes` (only the holder of the lock
  writes or reads).

### DMAP, mDNS, players and volume (`DeviceProofs`)

* `HeldPollMissesNothing`: a poller that asks or sleeps has a revision that is 0 or that of what was told,
  unless it was overtaken.
* `RepliesKeepTheRate`: every reply that was multicast is in the log or about to be (`RepliesLogged`), and the
  serving task writes it before it looks at the next query; so a record the log calls rested was in no
  reply for that long, whatever announcements do meanwhile. Unless an announcement raced the reply, the log
  also has what everyone multicast (`LogIsTrue`: but for what is unlogged, its ages are those of a cache that
  hears every multicast), so the record was in no multicast for that long.
* `UnicastWhenAllHaveIt`: `LogIsTrue` again. A record that is sent and not logged is fresher in the caches than
  in the log, never staler. `Queries` is a set of queries as the parser makes them (`QueryType`).
* `EarlyEndHasAll`: a host's answers that were counted are of different messages (`HeardOnce`), so as many
  as there are messages are one of each, and each brought what it had to say.
* `ListenerIsShownNow`: what was told last is the last of the queue or, if that is empty, the last that was
  delivered. Unless an update is known to have gone missing (`excused`), that is what plays whenever
  updates are on and nobody is about to post; a poster that is overtaken sets `excused`.
* `NobodyWaitsInVain`: a caller with a waiter that has not been told is promised a report (`Promised`):
  until its command is carried out, the level it knows is one the command changes; afterwards a
  report of its kind is on its way. That a command which was to change the level does change it is due to
  `Reported`: the last report on its way, or else the cached level, is the device's level.

* `DmapTypes`, `ResponderTypes`, `ScanTypes`, `PlayersTypes`, `VolumeTypesCorrect`: the type invariants. Some
  need more than themselves: that a revision in an answer on its way is one the device has had
  (`RevisionsHad`), or that records stay below the cap as they age.

### Pairing (second part of `StorageProofs`)

`CredentialsAreProven`. `PairingInv` ties a run to one user (nobody else uses or holds its number), a
message under way to the step its user is in (`Asks`), and an answer to what it says of the keys (`Means`). A
run that was verified has ended and its device has handled all of it, so that nothing disturbs its keys
afterwards. A device may replace its secret for another connection at any time, which is why `Means`
speaks of the connection's keys, not of the device's. The assumption that the PIN of transient pairing is
not one a device shows keeps a transient session's key apart from that of a set-up. `PairingTypes` adds that only the user's entry sets
a PIN.

### TLV8 (`CodecProofs`)

`TlvIsAMessage` and `TlvRoundTrips`, for every `MaxChunk` and all tags and values. The library's induction
theorems cannot be instantiated, but induction over numbers can be said of sets: a set of numbers that has 0
and with each its successor has all (`NumberInduction`, from the least number outside it). With it, the
recursive function of the decoder is what its equation says (`Iterates`), and the decode loop has an
invariant over the entries: after the fragments of the first entries it has read just these, and the
offset is at the next fragment. An entry of several fragments is put together again because all but its last
are `MaxChunk` long and no entry follows under the same tag. What is cut off within a fragment is
refused, because the length byte of that fragment points past the end; what is cut off between two is a
message of its own, whose encoding it is.

### Model-checked only

* Liveness (`EveryCallReturns`, `MuteDeviceDropped`, `PeerLossNoticed`, `LossReported`): out of TLAPS's reach.
* `RoundTrips` for OPACK and DNS; its TLV8 part is `TlvRoundTrips`. `Opack` declares `RECURSIVE` operators, and a
  module that reaches one loses the SMT backend. The round trip of a DNS message does not hold for every
  message (see the findings: chains of pointers, an empty first piece), so its bounds are part of the claim.
* The `TypeOK` of `MCParts` as a whole, whose module extends `Opack`. It is the conjunction of the parts' own
  type invariants, each of which is a theorem (`FacadeTypes` to `PairingTypes`).

## Plan

1. MRP connection (done: model, refinement, liveness, proofs).
2. Companion session (done: model, refinement, liveness, proofs; to model: pairing frames, focus and
   power).
3. Facade, storage, RAOP, RTSP, data stream, MRP players and volume, DMAP updates, mDNS, pairing, codecs
   (modelled, checked, and proved but for OPACK and DNS). To prove: that a DNS name is read as it was
   written, as long as its pointers are no more than the reader follows.
4. To model: the DMAP pairing server and the second login, the AirPlay 2 set-up and its channels' keys, the
   Companion frames' cipher, the power state of MRP, the opening messages of `start()`.

## Not modelled

The share of the source the model covers is small because most of the source has no state to model:
plain data (device tables, settings structures, protobuf messages), the wrappers of the facade that
forward one call each, the mapping of calls to payloads, property parsers of scan results, audio
decoding and packet layouts, cryptographic arithmetic, the command line, the GUI, and the fake devices
of the tests. A translation of these would restate them line by line. Of what does keep state:

* MRP: dropping every handle (`Stopped::Abandoned`), the opening exchange of `start()`, merging of content
  items and artwork, the power state, feature states.
* Companion: pairing frames, power and focus, text input, callers that drop their future, the cipher of
  its frames.
* AirPlay: the set-up order of an AirPlay 2 session and its `close()`, the event channel's replies (the
  loop is that of the data stream without its outbound half), timing packets, digest authentication.
* DMAP: the pairing server, the second login, artwork.
* Facade: `set_device_info`, listener lists, the volume of a single output device.
* mDNS: link-local addresses, hosts whose answers change during a scan, opening sockets.
* Pairing: nonce counters of a session's cipher, legacy AirPlay authentication.

`PROJECT.json` has the status of each component, with what is left out.

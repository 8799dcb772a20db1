----------------------------- MODULE MrpPlayers -----------------------------
(* What plays on the device as MRP sees it, and how the listener learns of  *)
(* it (pyatv-proto-mrp: player_state.rs, state.rs, state/notify.rs,         *)
(* facade/metadata.rs). The actor applies one message of the device at a    *)
(* time to a tree of clients and players and, if the change is in scope,    *)
(* reads what plays and queues it; start() does the same from its caller's  *)
(* task; one more task hands the queue to the listener.                     *)
EXTENDS Naturals, Sequences, Functions

CONSTANTS
    Clients,        \* bundle identifiers
    Players,        \* player identifiers
    DefaultPlayer,  \* DEFAULT_PLAYER_ID
    NoName,         \* the empty identifier, and None
    States,         \* playback states
    Queues,         \* the items and the position a device sends: the current item, or NoItem
    NoItem,
    Depth           \* QUEUE_DEPTH

ASSUME PlayersAssumption ==
    /\ NoName \notin Clients /\ DefaultPlayer # NoName
    /\ Depth \in Nat \ {0}

VARIABLES
    clients,   \* PlayerStateManager.clients: each with its players and its active player
    playing,   \* PlayerStateManager.active_client
    active,    \* PushState.active
    posters,   \* what the actor and start() are about to post: [at, view]
    queue,     \* the notifications not yet delivered
    shown,     \* what the listener was told last
    excused    \* an update is known to be missing, by one of the ways named below

playersVars == <<clients, playing, active, posters, queue, shown, excused>>

Posters == {"actor", "start"}
Nothing == [state |-> NoName, item |-> NoItem]
NewClient == [active |-> NoName, players |-> <<>>]
NewPlayer == [state |-> NoName, item |-> NoItem]
Resting == [at |-> "none", view |-> Nothing]

PlayersInit ==
    /\ clients = <<>> /\ playing = NoName
    /\ active = FALSE
    /\ posters = [t \in Posters |-> Resting]
    /\ queue = <<>> /\ shown = Nothing
    /\ excused = FALSE
-----------------------------------------------------------------------------
(* Client::active_player_id: the chosen player, else the default one if     *)
(* there is one. A chosen player need not be there.                         *)
ActiveId(c) ==
    IF c.active # NoName THEN c.active
    ELSE IF DefaultPlayer \in DOMAIN c.players THEN DefaultPlayer ELSE NoName

(* PlayerState::playback_state: paused with nothing to play is no state.    *)
PlaybackState(p) == IF p.state = "paused" /\ p.item = NoItem THEN NoName ELSE p.state

(* PlayerStateManager::playing: its identifier, and what build_playing reads.*)
PlayingId(tree, client) ==
    LET id == ActiveId(tree[client])
    IN  IF client \in DOMAIN tree /\ id \in DOMAIN tree[client].players THEN id ELSE NoName

View(tree, client) ==
    LET player == tree[client].players[PlayingId(tree, client)]
    IN  IF PlayingId(tree, client) = NoName THEN Nothing
        ELSE [state |-> PlaybackState(player), item |-> player.item]

Now == View(clients, playing)

(* Mutant: only changes of the player shown count.                          *)
ShouldNotifyPlayer(tree, client, scope) ==
    scope.player # NoName /\ scope.player = PlayingId(tree, client)

(* PlayerStateManager::should_notify, after the change; NoName is None.     *)
ShouldNotify(tree, client, scope) ==
    \/ scope.client = client
    \/ scope.player # NoName /\ scope.player = PlayingId(tree, client)
    \/ scope.client = NoName /\ scope.player = NoName

Always == [client |-> NoName, player |-> NoName]
OfClient(c) == [client |-> c, player |-> NoName]
OfPlayer(p) == [client |-> NoName, player |-> p]

(* mutate: apply under the lock, decide, and post after it is released.     *)
Mutate(tree, client, notify) ==
    /\ posters["actor"] = Resting
    /\ clients' = tree /\ playing' = client
    /\ posters' = IF notify THEN [posters EXCEPT !["actor"].at = "read"] ELSE posters
    /\ UNCHANGED <<active, queue, shown>>

Scoped(tree, client, scope) ==
    Mutate(tree, client, ShouldNotify(tree, client, scope)) /\ UNCHANGED excused

(* client_mut and player_mut create what a message names.                   *)
ClientOf(c) == IF c \in DOMAIN clients THEN clients[c] ELSE NewClient
PlayerOf(c, p) == IF p \in DOMAIN ClientOf(c).players THEN ClientOf(c).players[p] ELSE NewPlayer
With(f, key, value) == [k \in DOMAIN f \cup {key} |-> IF k = key THEN value ELSE f[k]]
WithClient(c, client) == With(clients, c, client)
WithPlayer(c, p, player) ==
    WithClient(c, [ClientOf(c) EXCEPT !.players = With(@, p, player)])

(* SET_STATE_MESSAGE changes the fields it carries; NoName and NoItem stand *)
(* for the ones it does not, "empty" for an empty queue.                    *)
SetState(c, p, state, item) ==
    Scoped(WithPlayer(c, p, [state |-> IF state = NoName THEN PlayerOf(c, p).state ELSE state,
                             item |-> IF item = NoItem THEN PlayerOf(c, p).item
                                      ELSE IF item = "empty" THEN NoItem ELSE item]),
           playing, OfPlayer(p))

SetNowPlayingClient(c) == Scoped(WithClient(c, ClientOf(c)), c, Always)

SetNowPlayingPlayer(c, p) ==
    Scoped(WithClient(c, [active |-> p,
                          players |-> With(ClientOf(c).players, p, PlayerOf(c, p))]),
           playing, OfClient(c))

UpdateClient(c) == Scoped(WithClient(c, ClientOf(c)), playing, OfClient(c))

(* Mutant: the active client goes without a word.                           *)
RemoveClientSilently(c) ==
    Mutate(Restrict(clients, DOMAIN clients \ {c}), IF playing = c THEN NoName ELSE playing, FALSE)
        /\ UNCHANGED excused

RemoveClient(c) ==
    /\ Mutate(Restrict(clients, DOMAIN clients \ {c}),
              IF playing = c THEN NoName ELSE playing,
              c \in DOMAIN clients /\ playing = c)
    /\ UNCHANGED excused

(* The check comes after the removal: a default player that nobody chose is *)
(* active no more by then, and the removal is not told.                     *)
RemovePlayer(c, p) ==
    LET client == [ClientOf(c) EXCEPT !.players = Restrict(@, DOMAIN @ \ {p})]
        wasActive == p \in {ActiveId(client), client.active}
        tree == WithClient(c, IF wasActive THEN [client EXCEPT !.active = NoName] ELSE client)
    IN  /\ Mutate(tree, playing, wasActive /\ ShouldNotify(tree, playing, OfClient(c)))
        /\ excused' = (excused \/ (~wasActive /\ View(tree, playing) # Now))

Handle ==
    \E c \in Clients :
        \/ SetNowPlayingClient(c) \/ UpdateClient(c) \/ RemoveClient(c)
        \/ \E p \in Players :
              \/ SetNowPlayingPlayer(c, p) \/ RemovePlayer(c, p)
              \/ \E state \in States \cup {NoName}, item \in Queues \cup {NoItem} :
                    SetState(c, p, state, item)
-----------------------------------------------------------------------------
StartUpdates ==
    /\ ~active
    /\ posters["start"] = Resting
    /\ active' = TRUE
    /\ posters' = [posters EXCEPT !["start"].at = "read"]
    /\ UNCHANGED <<clients, playing, queue, shown, excused>>

StopUpdates ==
    /\ active
    /\ active' = FALSE
    /\ UNCHANGED <<clients, playing, posters, queue, shown, excused>>

(* post_update: nothing if updates are off, else what plays now ...         *)
ReadsView(t) ==
    /\ posters[t].at = "read"
    /\ posters' = [posters EXCEPT ![t] = IF active THEN [at |-> "post", view |-> Now] ELSE Resting]
    /\ UNCHANGED <<clients, playing, active, queue, shown, excused>>

(* ... is queued, or dropped if there is no room. Another task may have     *)
(* queued a later view in between.                                          *)
PostsView(t) ==
    /\ posters[t].at = "post"
    /\ queue' = IF Len(queue) < Depth THEN Append(queue, posters[t].view) ELSE queue
    /\ excused' = (Len(queue) = Depth \/ posters[t].view # Now)
    /\ posters' = [posters EXCEPT ![t] = Resting]
    /\ UNCHANGED <<clients, playing, active, shown>>

(* notify::run hands the oldest on, whether or not updates are still wanted.*)
Delivers ==
    /\ queue # <<>>
    /\ shown' = Head(queue) /\ queue' = Tail(queue)
    /\ UNCHANGED <<clients, playing, active, posters, excused>>

PlayersNext == Handle \/ StartUpdates \/ StopUpdates \/ Delivers \/ \E t \in Posters : ReadsView(t) \/ PostsView(t)

PlayersSpec == PlayersInit /\ [][PlayersNext]_playersVars
-----------------------------------------------------------------------------
(* The values the variables take.                                           *)
PlayersTypeOK ==
    /\ DOMAIN clients \subseteq Clients /\ playing \in DOMAIN clients \cup {NoName}
    /\ \A c \in DOMAIN clients : DOMAIN clients[c].players \subseteq Players
    /\ Len(queue) <= Depth

(* notify.rs:33: "the next update supersedes every one it missed anyway".   *)
(* While updates are on and none is under way, the listener was told last   *)
(* what plays now, through clients and players that come, go and change in  *)
(* any order, updates switched off and on, and start() racing the actor. It *)
(* was not only if the last update was dropped or overtaken, or the default *)
(* player was removed; the next one that is queued mends it.                *)
ShownIsCurrent ==
    active /\ queue = <<>> /\ posters = [t \in Posters |-> Resting] /\ ~excused => shown = Now

(* player_state.rs:458: remove_player "Returns the bundle identifier to     *)
(* notify for, when the removed player was that client's active one". So    *)
(* whatever changes what plays is followed by an update.                    *)
ChangeIsTold == [][Now' # Now => posters'["actor"].at = "read"]_playersVars
=============================================================================

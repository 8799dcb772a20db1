------------------------------ MODULE MCParts ------------------------------
(* The smaller parts for TLC. They share no state here: a behaviour follows *)
(* one scenario, one part of the system, and leaves the others alone.       *)
EXTENDS Facade, ListenerHub, Storage, Raop, RtspConnection, DataStream, MrpPlayers, MrpVolume,
        DmapUpdates, MdnsScan, MdnsResponder, Opack, Tlv8, DnsCodec, HapPairing

CONSTANTS
    Scenarios,
    mrp, companion, airplay, RemoteControl, Keyboard, Power, up, focus, turn_on,
    video, stream,   \* the two that claim relayers
    u1, u2,          \* users of a facade, and of the storage
    app, other, default, chosen,  \* two clients and two players of MRP
    v1, v2,          \* callers of the volume
    box, sleeper,    \* hosts on the network
    tv, speaker      \* devices to pair with

VARIABLE scenario

FacadeOnly == <<todo, stage, handles, open, calls, running>>
HubOnly == <<tracked, reports, balance>>

vars == <<relayerVars, FacadeOnly, HubOnly, storageVars, raopVars, rtspVars, streamVars,
          playersVars, volumeVars, dmapVars, scanVars, responderVars, message, tlv, dns, pairingVars, scenario>>
-----------------------------------------------------------------------------
MCInterfaceOf ==
    [f \in Features |-> CASE f = up -> RemoteControl [] f = focus -> Keyboard
                          [] f = turn_on -> Power]

MCOffers ==
    [p \in Protocols |->
        CASE p = mrp -> [interfaces |-> {RemoteControl, Power}, features |-> {up, turn_on}]
          [] p = companion -> [interfaces |-> {Keyboard, Power, RemoteControl},
                               features |-> {focus, turn_on}]
          [] p = airplay -> [interfaces |-> {RemoteControl, Keyboard}, features |-> {up, focus}]]

MCDefaultRank == [p \in Protocols |-> CASE p = mrp -> 0 [] p = companion -> 1 [] p = airplay -> 2]

MCPowerRank == [p \in Protocols |-> CASE p = companion -> 0 [] p = mrp -> 1 [] p = airplay -> 2]

MCRankOf == [i \in Interfaces |-> IF i = Power THEN MCPowerRank ELSE MCDefaultRank]

MCClaimOf ==
    [c \in Claimants |->
        CASE c = video -> [protocol |-> airplay, interfaces |-> <<RemoteControl, Keyboard>>]
          [] c = stream -> [protocol |-> mrp, interfaces |-> <<Keyboard, RemoteControl>>]]

MCFilterOf == [k \in Kinds |-> IF k = focus THEN Keyboard ELSE None]

(* The two claims meet in the scenario of the relayers alone; in the others *)
(* there is the video's only, and it is claimed when all is connected.      *)
OneClaim ==
    /\ claims'[stream] = claims[stream]
    /\ claims' # claims => added = Protocols

MCConfigs ==
    {[ids |-> {"x"}, cleared |-> {}, credentials |-> NoCredentials],
     [ids |-> {"x"}, cleared |-> {"y"}, credentials |-> NoCredentials],
     [ids |-> {"y"}, cleared |-> {}, credentials |-> NoCredentials],
     [ids |-> {"x", "y"}, cleared |-> {}, credentials |-> "new"]}

(* One user changes the list while it is saved, and stores nothing twice.   *)
OneEditor ==
    /\ edits'[u2] = edits[u2]
    /\ edits'[u1].at # "store"
    /\ edits'[u1].record.ids \subseteq {"x"}

(* One client with two players, or two with a player each; the second has   *)
(* the default one only, which nobody chose and nothing is said of. Of the  *)
(* first one's players only the default one has a state, all have items.    *)
FewPlayers ==
    LET Of(c) == IF c \in DOMAIN clients' THEN clients'[c].players ELSE <<>>
    IN  /\ other \in DOMAIN clients' => Cardinality(DOMAIN Of(app)) <= 1
        /\ \A p \in DOMAIN Of(other) : p = default /\ Of(other)[p] = NewPlayer
        /\ chosen \in DOMAIN Of(app) => Of(app)[chosen].state = NoName
        /\ other \in DOMAIN clients' => clients'[other].active = NoName

(* Absolute control is there before the first call and stays; one caller    *)
(* turns the volume down, the other one up; another speaker reports when    *)
(* nothing else does.                                                       *)
TwoVolumes ==
    /\ callers'[v1].op \in {"none", "set", "down"}
    /\ callers'[v2].op # "down" /\ (callers'[v2].op = "set" => callers[v2].op # "none")
    /\ <<volume'.absolute, volume'.relative>> # <<volume.absolute, volume.relative>>
          => volume'.absolute /\ ~volume.absolute /\ \A c \in Callers : callers[c].at = "idle"
    /\ Len(pushes') > 1 => pushes'[2].own

(* The box has a type that nobody asks for.                                 *)
MCTypesOf == [h \in Hosts |-> IF h = box THEN 1..4 ELSE {1, 3}]

MCQueries ==
    {q \in [questions : {{"type"}, {"ANY", "host"}}, unicast : BOOLEAN, legacy : BOOLEAN,
            known : {{}, {"TXT"}}]
        : /\ q.legacy => q.questions = {"type"} /\ ~q.unicast
          /\ q.known # {} => q.questions # {"type"} /\ q.unicast}

(* A caller announces, and the service ends, once the announcements of the  *)
(* start are out; it ends while no reply is under way.                      *)
LateAnnouncements ==
    /\ (unlogged' \ unlogged) \cap Publishers # {} => announcing.left = 0
    /\ published' # published => announcing.left = 0 /\ serving = NoReply

(* Messages with scalars of every width, what is equal but not the same,    *)
(* what is too big or too deep, and containers in containers.               *)
MCElements ==
    LET S(x) == <<"string", x>>
        A(x) == <<"array", x>>
    IN  {<<"null">>, <<"uint", 0>>, <<"uint", 1>>, <<"sized", 1, 1>>, <<"sized", 2, 1>>, <<"time", 0>>,
         S(""), S("a"), NaN, A(<<S("a"), <<"uint", 1>>, <<"uint", 5>>, S("b")>>), A(<<A(<<A(<<>>)>>)>>),
         <<"dict", << <<S("a"), NaN>>, <<NaN, A(<<S("b")>>)>> >> >>} \cup Zeros

MCKeys == {<<"string", "a">>, <<"string", "b">>}

(* A message whose values all fit in its entries, fill them or exceed them. *)
MCTlvValues == {<<>>, <<0>>, <<1, 2>>, <<2, 1, 0>>, <<0, 1, 2, 2, 1>>, <<1, 1, 2, 2>>}

(* Names that end in each other, an instance with dots, one that is cut.    *)
MCRecords ==
    LET http == <<"_http", "_tcp", "local">>
        Host(name) == [name |-> name, type |-> "A", target |-> <<>>]
        Pointer(instance) == [name |-> http, type |-> "PTR", target |-> instance \o http]
        Server(instance, host) == [name |-> instance \o http, type |-> "SRV", target |-> host]
    IN  {Host(<<"box", "local">>), Host(<<"local", "">>), Host(<<"a", "box", "local">>),
         Pointer(<<"my">>), Pointer(<<"my", "old", "box">>),
         Server(<<"my">>, <<"box", "local">>), Server(<<"my", "old", "tv">>, <<"a", "box", "local">>)}

(* A PIN is entered when a device shows one, and never changed.           *)
ShownPins ==
    \A u \in Controllers :
        handlers'[u].pin # handlers[u].pin => handlers[u].procedure # Missing /\ handlers[u].pin = Missing

MCPinOf == [d \in Devices |-> IF d = tv THEN 1111 ELSE 2222]
-----------------------------------------------------------------------------
Init ==
    /\ FacadeInit /\ HubInit /\ StorageInit /\ RaopInit /\ RtspInit /\ DataStreamInit
    /\ PlayersInit /\ VolumeInit /\ DmapInit /\ ScanInit /\ ResponderInit
    /\ OpackInit /\ Tlv8Init /\ DnsInit /\ PairingInit
    /\ scenario \in Scenarios
    /\ scenario # "scan" => mode = "multicast"
    /\ scenario # "volume" => deviceLevel = 0
    /\ scenario # "opack" => message = <<"array", <<>>>>

Relayers == scenario = "relayer" /\ RelayerNext

Facades == scenario = "facade" /\ FacadeNext /\ OneClaim

Hubs == scenario = "hub" /\ HubNext /\ OneClaim

Storages ==
    \/ scenario = "records" /\ (\E u \in Editors : Edits(u)) /\ UNCHANGED <<saves, diskVars>>
    \/ scenario = "file" /\ StorageNext /\ OneEditor

Raops == scenario = "raop" /\ RaopNext

Rtsps == scenario = "rtsp" /\ RtspNext

DataStreams == scenario = "datastream" /\ DataStreamNext

PlayerTrees == scenario = "players" /\ PlayersNext /\ FewPlayers

Volumes == scenario = "volume" /\ VolumeNext /\ TwoVolumes

Dmaps == scenario = "dmap" /\ DmapNext

Scans == scenario = "scan" /\ ScanNext

Responders == scenario = "responder" /\ ResponderNext /\ LateAnnouncements

Opacks == scenario = "opack" /\ OpackNext

Tlv8s == scenario = "tlv8" /\ Tlv8Next

DnsMessages == scenario = "dns" /\ DnsNext

Pairings == scenario = "pairing" /\ PairingNext /\ ShownPins

(* What is not of the scenario stays as it is.                              *)
Elsewhere ==
    /\ scenario \notin {"relayer", "facade", "hub"} => UNCHANGED relayerVars
    /\ scenario # "facade" => UNCHANGED FacadeOnly
    /\ scenario # "hub" => UNCHANGED HubOnly
    /\ scenario \notin {"records", "file"} => UNCHANGED storageVars
    /\ scenario # "raop" => UNCHANGED raopVars
    /\ scenario # "rtsp" => UNCHANGED rtspVars
    /\ scenario # "datastream" => UNCHANGED streamVars
    /\ scenario # "players" => UNCHANGED playersVars
    /\ scenario # "volume" => UNCHANGED volumeVars
    /\ scenario # "dmap" => UNCHANGED dmapVars
    /\ scenario # "scan" => UNCHANGED scanVars
    /\ scenario # "responder" => UNCHANGED responderVars
    /\ scenario # "opack" => UNCHANGED message
    /\ scenario # "tlv8" => UNCHANGED tlv
    /\ scenario # "dns" => UNCHANGED dns
    /\ scenario # "pairing" => UNCHANGED pairingVars

Next ==
    /\ \/ Relayers \/ Facades \/ Hubs \/ Storages \/ Raops \/ Rtsps \/ DataStreams
       \/ PlayerTrees \/ Volumes \/ Dmaps \/ Scans \/ Responders
       \/ Opacks \/ Tlv8s \/ DnsMessages \/ Pairings
    /\ Elsewhere
    /\ UNCHANGED scenario

Spec == Init /\ [][Next]_vars

(* The values the variables of the parts take.                              *)
TypeOK ==
    /\ scenario \in {"relayer", "facade"} => FacadeTypeOK
    /\ scenario = "hub" => HubTypeOK
    /\ scenario \in {"records", "file"} => StorageTypeOK
    /\ scenario = "raop" => RaopTypeOK
    /\ scenario = "players" => PlayersTypeOK
    /\ scenario = "rtsp" => RtspTypeOK
    /\ scenario = "datastream" => DataStreamTypeOK
    /\ scenario = "volume" => VolumeTypeOK
    /\ scenario = "scan" => ScanTypeOK
    /\ scenario = "responder" => ResponderTypeOK
    /\ scenario = "dmap" => DmapTypeOK
    /\ scenario = "pairing" => PairingTypeOK

(* Each codec reads back what it wrote (see OpackRoundTrips, Tlv8RoundTrips *)
(* and DnsRoundTrips, each about its own scenario's message).               *)
RoundTrips ==
    /\ scenario = "opack" => OpackRoundTrips
    /\ scenario = "tlv8" => Tlv8RoundTrips
    /\ scenario = "dns" => DnsRoundTrips
=============================================================================

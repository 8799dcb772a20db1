SPECIFICATION Spec
CONSTANTS
    Scenarios = {"file"}
    mrp = mrp  companion = companion  airplay = airplay
    RemoteControl = RemoteControl  Keyboard = Keyboard  Power = Power
    up = up  focus = focus  turn_on = turn_on
    video = video  stream = stream
    None = None
    Protocols = {mrp, companion, airplay}
    Interfaces = {RemoteControl, Keyboard, Power}
    Features = {up, focus, turn_on}
    InterfaceOf <- MCInterfaceOf
    Offers <- MCOffers
    DefaultRank <- MCDefaultRank
    RankOf <- MCRankOf
    Claimants = {video, stream}
    ClaimOf <- MCClaimOf
    u1 = u1  u2 = u2
    Users = {u1, u2}
    PushUpdater = RemoteControl
    Enabled = {mrp, companion, airplay}
    Mrp = mrp  AirPlay = airplay
    Kinds = {focus, level}
    FilterOf <- MCFilterOf
    Values = {0, 1}
    Initial = 0
    Identifiers = {"x", "y"}
    Paired = {"x", "y"}
    Configs <- MCConfigs
    Credentials = {"new"}
    NoCredentials = "none"
    Editors = {u1, u2}
    Savers = {s1, s2}
    Streams = {r1, r2}
    NoStream = NoStream
    SeqNumbers = 4  Backlog = 2  MaxPackets = 6
    Losses = {1, 2, 3}
    app = app  other = other  default = default  chosen = chosen
    Clients = {app, other}
    Players = {default, chosen}
    DefaultPlayer = default
    NoName = NoName
    States = {"paused"}
    Queues = {i1, "empty"}
    NoItem = NoItem
    Depth = 1
    Readers = {reader}
    MaxRev = 4
    NoSender = NoSender
    Senders = {s1, s2, s3}
    MaxExchanges = 4
    InboundDepth = 2  OutboundDepth = 2  MaxArriving = 2
    v1 = v1  v2 = v2
    Callers = {v1, v2}
    MaxLevel = 1  VolumeStep = 1  MaxCommands = 1  MaxReports = 2
    box = box  sleeper = sleeper
    TypesAsked = 3  PerMessage = 2
    Hosts = {box, sleeper}
    TypesOf <- MCTypesOf
    Sleepers = {sleeper}
    WantedHosts = {box, sleeper}
    ResendRounds = 2
    Rest = 2  HostTtl = 8  ServiceTtl = 12  Rounds = 2  Publishers = {publisher}
    Queries <- MCQueries
    SmallLimit = 1  ByteBase = 2  InlinePointers = 0  EndlessCount = 3  MaxDepth = 3  MaxParts = 4
    Elements <- MCElements
    Keys <- MCKeys
    MaxChunk = 2  Tags = {0, 1, 2}  MaxSets = 3
    TlvValues <- MCTlvValues
    Underscored = {"_http", "_tcp"}  Transports = {"_tcp"}
    LabelLimit = 2  PointerLimit = 8  JumpLimit = 3  HeaderLength = 2  MaxRecords = 3
    RecordsToSend <- MCRecords
    tv = tv  speaker = speaker
    Controllers = {u1, u2}
    Devices = {tv, speaker}
    Pins = {1111, 2222}
    PinOf <- MCPinOf
    TransientPin = 3939
    MaxRuns = 2
    TlvError = TlvError  Missing = Missing
INVARIANT
    FileComplete
CHECK_DEADLOCK FALSE

SPECIFICATION MCSpec
CONSTANTS
    N = 2
    c1 = c1
    Clients = {c1}
    Capacity = 2
    AuthWindow = 1
    n1 = n1
    n2 = n2
    n3 = n3
    Nonces = {n1, n2, n3}
    MaxSkew = 1
    MaxTime = 4
    Settings = {"unset", "1"}
    DeadAfter = 3
    MaxDelay = 4
    MaxLate = 1
    MaxPayloads = 3
    MaxFragments = 2
    MaxGroups = 2
    CarrierTtl = 1
    MaxSessions = 2
    LaneCredit = 1
    QueueCapacity = 1
    MaxTaken = 4
    ReorderWindow = 2
    MinSample = 1
    PPM = 100
    MaxSequence = 3
    SeqNums <- MCSequences
    DataShards = 2
    Parities = {1}
    GroupTtl = 1
    MaxLag = 1
    MaxClock = 3
    MaxRestarts = 1
    Configs <- MCConfigs
    FailureLimit = 3
    MaxFaults = 2
CHECK_DEADLOCK FALSE
INVARIANTS
    ProgramsTypeOK
    RefusedAfterAll
    CacheAgrees
    AcceptedOnce
    DeadCarrierNoticed
    ModesAgree
    LossesExplained
    OutageBounded
    VerdictRight
    RestartsJustified
PROPERTIES
    HealthFollows
    RequestsAnswered
    HeartbeatTolerant
    ClashIsQuick
    Reconnects
    RejectedBacksOff
    CarrierIsChannel
    LanesDeliver
    StuckIsRebuilt

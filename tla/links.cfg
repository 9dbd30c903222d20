CONSTANTS
    Names <- OneName
    Apps <- MCApps
    Norm <- MCNorm
    Unruleable = {}
    Guarded = {"mic"}
    DefaultAction = "deny"
    LinkIds <- OneId
    Streams <- OneStream
    Nodes <- MCNodes
    CatOf <- PlainCatOf
    Shapes <- MicOrPlay
    NoLink = NoLink
    NoConn = NoConn
    NoGroup = NoGroup
    Settle = 1
    AwaitingOpen = 2
    Cooldown = 1
    UserRules <- FlipMicRule
    UserOps = {}
    SerialMayBeMissing = FALSE
    LoopIsFast = FALSE
    MaxInst = 3
    MaxQueue = 2
    MaxOutages = 1
    MaxRescans = 0
    MaxTime = 1
SPECIFICATION Spec
INVARIANTS
    TypeOK
    EveryLinkAccountedFor
    PursuitInvariant
    AllowedIsTracked
    ConnectionsEndWithLinks
PROPERTIES
    ImplementsGuard
CHECK_DEADLOCK FALSE

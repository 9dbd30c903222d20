CONSTANTS
    Names <- OneName
    Apps <- MCApps
    Norm <- MCNorm
    Unruleable = {}
    Guarded = {"mic"}
    DefaultAction = "deny"
    LinkIds <- OneId
    Streams <- OneStream
    Nodes <- MCNodes
    CatOf <- SinkCatOf
    Shapes <- AnyUse
    NoLink = NoLink
    NoConn = NoConn
    NoGroup = NoGroup
    Settle = 1
    AwaitingOpen = 2
    Cooldown = 1
    UserRules <- FlipMicRule
    UserOps = {}
    SerialMayBeMissing = TRUE
    LoopIsFast = FALSE
    MaxInst = 2
    MaxQueue = 2
    MaxOutages = 0
    MaxRescans = 2
    MaxTime = 1
SPECIFICATION Spec
INVARIANTS
    RefusedIsNotLost
PROPERTIES
    DecidedOnce
CHECK_DEADLOCK FALSE

CONSTANTS
    Names <- OneName
    Apps <- MCApps
    Norm <- MCNorm
    Unruleable = {}
    Guarded = {"mic"}
    DefaultAction = "ask"
    LinkIds <- OneId
    Streams <- OneStream
    Nodes <- MCNodes
    CatOf <- PlainCatOf
    Shapes <- MicShape
    NoLink = NoLink
    NoConn = NoConn
    NoGroup = NoGroup
    Settle = 1
    AwaitingOpen = 2
    Cooldown = 1
    UserRules <- NoUserRules
    UserOps = {}
    SerialMayBeMissing = FALSE
    LoopIsFast = TRUE
    MaxInst = 2
    MaxQueue = 1
    MaxOutages = 0
    MaxRescans = 0
    MaxTime = 4
SPECIFICATION Spec
PROPERTIES
    UnusedGrantExpires
CHECK_DEADLOCK FALSE

CONSTANTS
    Names <- OneName
    Apps <- MCApps
    Norm <- MCNorm
    Unruleable = {}
    Guarded = {"mic", "monitor"}
    DefaultAction = "allow"
    LinkIds <- TwoIds
    Streams <- OneStream
    Nodes <- MCNodes
    CatOf <- SinkCatOf
    Shapes <- MicOrRecord
    NoLink = NoLink
    NoConn = NoConn
    NoGroup = NoGroup
    Settle = 1
    AwaitingOpen = 2
    Cooldown = 1
    UserRules <- NoUserRules
    UserOps = {"block"}
    SerialMayBeMissing = FALSE
    LoopIsFast = FALSE
    MaxInst = 2
    MaxQueue = 2
    MaxOutages = 0
    MaxRescans = 1
    MaxTime = 1
SPECIFICATION Spec
INVARIANTS
    EveryLinkAccountedFor
    RefusedIsPursued
    AllowedIsTracked
PROPERTIES
    DecisionStands
CHECK_DEADLOCK FALSE

CONSTANTS
    Names <- OneName
    Apps <- MCApps
    Norm <- MCNorm
    Unruleable = {}
    Guarded = {"mic"}
    DefaultAction = "ask"
    LinkIds <- OneId
    Streams <- OneStream
    Nodes <- MCNodes
    CatOf <- PlainCatOf
    Shapes <- MicShape
    NoLink = NoLink
    NoConn = NoConn
    NoGroup = NoGroup
    Settle = 1
    AwaitingOpen = 2
    Cooldown = 1
    UserRules <- NoUserRules
    UserOps = {}
    SerialMayBeMissing = FALSE
    LoopIsFast = FALSE
    MaxInst = 2
    MaxQueue = 1
    MaxOutages = 1
    MaxRescans = 1
    MaxTime = 1
SPECIFICATION FairSpec
PROPERTIES
    LinkEventuallyDecided
    RefusedEventuallySettled
    QuestionEventuallyAsked
CHECK_DEADLOCK FALSE

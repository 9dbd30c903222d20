CONSTANTS
    Names <- TwoNames
    Apps <- MCApps
    Norm <- MCNorm
    Unruleable = {}
    Guarded = {"mic"}
    DefaultAction = "ask"
    LinkIds <- TwoIds
    Streams <- TwoStreams
    Nodes <- MCNodes
    CatOf <- PlainCatOf
    Shapes <- TwoNamedMic
    NoLink = NoLink
    NoConn = NoConn
    NoGroup = NoGroup
    Settle = 1
    AwaitingOpen = 2
    Cooldown = 1
    UserRules <- NoUserRules
    UserOps = {"remove"}
    SerialMayBeMissing = FALSE
    LoopIsFast = FALSE
    MaxInst = 2
    MaxQueue = 1
    MaxOutages = 0
    MaxRescans = 0
    MaxTime = 2
SPECIFICATION Spec
INVARIANTS
    OneQuestionPerPair
CHECK_DEADLOCK FALSE

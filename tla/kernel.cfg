CONSTANTS
    Paths <- MCPaths
    Servers <- MCServers
    Versions <- TwoVersions
    CamGuarded = FALSE
    MicGuarded = TRUE
    Readable <- MCReadable
    Wants <- MCWants
    SoundNodes = {"mic0", "mic1", "speaker0"}
    Mics = {"mic0", "mic1"}
    Plugged = {"mic0", "speaker0"}
    NoCache = NoCache
    NoRequest = NoRequest
    MaxChanges = 1
    MaxEnds = 1
    MaxTimeouts = 1
    MaxFails = 1
SPECIFICATION FairSpec
INVARIANTS
    TypeOK
    PushInvariant
    StatusFollowsKernel
PROPERTIES
    OnlyRevokedIsTaken
    RestartRestoresPolicy
    KernelConverges
CHECK_DEADLOCK FALSE

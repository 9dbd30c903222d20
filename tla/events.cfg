CONSTANTS
    Tasks <- OneTask
    Exes <- OneExe
    Files <- OneCamera
    KindOf <- MCKindOf
    None = None
    Window = 1
    Wrap = 8
    TableCap = 2
    RingCap = 2
    MaxOpens = 3
    MaxTime = 2
    MaxGrants = 0
    MaxFaults = 1
    MaxAnswers = 1
SPECIFICATION Spec
INVARIANTS
    TypeOKPath
    EveryOpenIsCounted
    CountersAgree
PROPERTIES
    GrantReachesTheGate
    SwallowedIsReported
CHECK_DEADLOCK FALSE

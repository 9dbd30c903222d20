CONSTANTS
    t1 = t1  t2 = t2
    c1 = c1  c2 = c2  c3 = c3
    e1 = e1  e2 = e2
    Tasks <- TwoTasks
    Exes <- TwoExes
    Files <- Cameras
    KindOf <- MCKindOf
    None = None
    Window = 1
    Wrap = 8
    TableCap = 2
    RingCap = 2
    MaxOpens = 3
    MaxTime = 1
    MaxGrants = 1
SPECIFICATION GateSpec
INVARIANTS
    TypeOK
    CountsAreExact
    TrackedUnlessRefused
SYMMETRY Alike
CHECK_DEADLOCK FALSE

CONSTANTS
    t1 = t1  t2 = t2
    c1 = c1  c2 = c2  c3 = c3
    e1 = e1  e2 = e2
    Tasks <- OneTask
    Exes <- OneExe
    Files <- OneCamera
    KindOf <- MCKindOf
    None = None
    Window = 1
    Wrap = 8
    TableCap = 2
    RingCap = 2
    MaxOpens = 2
    MaxTime = 1
    MaxGrants = 0
SPECIFICATION GateSpec
INVARIANTS
    OnlySucceededOpensAreTracked
CHECK_DEADLOCK FALSE

SPECIFICATION Spec
CONSTANTS
    t1 = t1
    t2 = t2
    t3 = t3
    i0 = i0
    i1 = i1
    i2 = i2
    NoTask = NoTask
    CpuCount = 3
    Tasks = {t1, t2, t3}
    idle <- MCIdle3
    Boot = {t1, t2}
    Blockers = {t1}
    Disablers = {t1}
    Launchers = {t2}
    Wakers = {}
    Signalled = {t1}
INVARIANTS
    OnePlace
    AwaitingExact
    NoDoubleRun
    RoundSettled
    ReadersExact
    SpinnersAreServed
    AccessOwnerLaunches

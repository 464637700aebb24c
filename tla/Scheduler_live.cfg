SPECIFICATION FairSpec
CONSTANTS
    t1 = t1
    t2 = t2
    t3 = t3
    i0 = i0
    i1 = i1
    i2 = i2
    NoTask = NoTask
    CpuCount = 2
    Tasks = {t1, t2}
    idle <- MCIdle2
    Boot = {t2}
    Blockers = {t1}
    Disablers = {t1}
    Launchers = {t2}
    Wakers = {t2}
    Signalled = {t1}
PROPERTIES
    RoundCompletes
    WakeUpServed

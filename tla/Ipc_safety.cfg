SPECIFICATION Spec
CONSTANTS
    s1 = s1
    s2 = s2
    c1 = c1
    c2 = c2
    Irq = Irq
    NoTask = NoTask
    Servers = {s1, s2}
    Clients = {c1, c2}
    Pollers = {s2}
    Attached = {s1}
    Unmapped = {c1, c2}
    LONG_MAX = 99
    MaxTick = 3
SYMMETRY MCSymmetry
CHECK_DEADLOCK FALSE
INVARIANTS
    HeadsKnown
    NoLostSender
    BuffersStable
    Answered
    ReleasesLocked
PROPERTY InOrder

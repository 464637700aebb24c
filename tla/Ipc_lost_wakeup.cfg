SPECIFICATION Spec
CONSTANTS
    s1 = s1
    s2 = s2
    c1 = c1
    c2 = c2
    Irq = Irq
    NoTask = NoTask
    Servers = {s1}
    Clients = {c1}
    Pollers = {}
    Attached = {}
    Unmapped = {}
    LONG_MAX = 99
    MaxTick = 2
CHECK_DEADLOCK FALSE
INVARIANT ReceiverAwake

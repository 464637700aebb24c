SPECIFICATION Spec
CONSTANTS
    c1 = c1
    c2 = c2
    s1 = s1
    s2 = s2
    m1 = m1
    g1 = g1
    e1 = e1
    n1 = n1
    None = None
    Ctx = {c1, c2}
    Spaces = {s1, s2}
    Root = s1
    Memories = {m1}
    Mappings = {g1}
    Endpoints = {e1}
    Connections = {n1}
    Address <- MCAddress
    MaxHandle = 2
SYMMETRY MCSymmetry
CHECK_DEADLOCK FALSE
INVARIANTS
    CountsExact
    NoDangling
    HandlesStable
    InitialisedWhenUsed
    NoCircularWait

SPECIFICATION FairSpec
CONSTANTS
    p1 = p1
    p2 = p2
    p3 = p3
    Proc <- MCProc
    NoProc = NoProc
    IniRetry = 2
INVARIANTS
    Exclusion
    CountersExact
    NoPanic
PROPERTIES
    Refines
    Progress
    TryReturns

SPECIFICATION Spec
CONSTANTS
    Slots = 3
    SqPerPage = 2
    CqPerPage = 4
    BlocksPerPage = 2
    Rpgs = 3
    MaxTransfer = 9
    Requests <- MCListRequests
    MaxCid = 9
CHECK_DEADLOCK FALSE
INVARIANT ListInBounds

SPECIFICATION FairSpec
CONSTANTS
    Client = {c1, c2, c3}
    NoSock = nosock
    MaxConn = 2
    HeadMax = 3
    RdTimeout = 0
    Window = 1
    BadLen = 1
    Requests <- GetOnly
    Faults = {"rst"}
INVARIANTS
    OneSlotEach
PROPERTIES
    CloseJustified
    Answered
    Accepted
CHECK_DEADLOCK FALSE

SPECIFICATION FairSpec
CONSTANTS
    Client = {c1, c2}
    NoSock = nosock
    MaxConn = 2
    HeadMax = 3
    RdTimeout = 0
    Window = 1
    BadLen = 1
    Requests <- PostRequests
    Faults = {}
PROPERTY
    PostEnds
CHECK_DEADLOCK FALSE

SPECIFICATION Spec
CONSTANTS
    Client = {c1, c2}
    NoSock = nosock
    MaxConn = 2
    HeadMax = 2
    RdTimeout = 0
    Window = 1
    BadLen = 1
    Requests <- AllRequests
    Faults = {"eof", "rst", "steal", "abort"}
SYMMETRY Perms
INVARIANTS
    TypeOK
    SlotPrefix
    WatchExact
    ReadyIsReadable
    AnswerHasPage
    Delivery
PROPERTIES
    RequestOrder
    KeepsPromise
CHECK_DEADLOCK FALSE

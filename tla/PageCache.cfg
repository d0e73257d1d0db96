SPECIFICATION Spec
CONSTANTS
    Conn = {k1, k2}
    Uri = {1, 2, 3}
    Root = 1
    Modulas = {3}
    Keys = {0, 1}
    CacheMax = 1
    Timeout = 1
    MaxPage = 3
    MaxTime = 1
    MaxRequest = 3
SYMMETRY Perms
INVARIANTS
    TypeOK
    OneClientOnly
PROPERTIES
    SendingKept
CHECK_DEADLOCK FALSE

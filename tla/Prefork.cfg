SPECIFICATION FairSpec
CONSTANTS
    Client = {c1, c2, c3}
    Max = 2
    Faults = {"fork", "crash", "early", "group", "block"}
INVARIANTS
    TypeOK
    Accounted
    ExitLast
PROPERTIES
    ShutdownEnds
    ServedOrStalled
CHECK_DEADLOCK FALSE

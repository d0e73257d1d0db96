SPECIFICATION Spec
CONSTANTS
    Session <- MCSession
    Posted <- MCPosted
    NoSession = none
    OutLen <- Outputs
    PipeMax = 3
    Chunk = 3
    Window = 2
    FdMax = 6
    Slips = 0
    Lingering <- MCLingering
    Faults = {}
INVARIANTS
    AllSent
CHECK_DEADLOCK FALSE

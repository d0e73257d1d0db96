SPECIFICATION FairSpec
CONSTANTS
    Session <- MCSession
    Posted <- MCPosted
    NoSession = none
    OutLen <- Outputs
    PipeMax = 3
    Chunk = 3
    Window = 2
    FdMax = 6
    Slips = 2
    Lingering <- MCLingering
    Faults = {"rst", "fork"}
INVARIANTS
    TypeOK
    FdExact
    OutputKept
    ClosedAtEnd
PROPERTIES
    OpenReturns
    Served
CHECK_DEADLOCK FALSE

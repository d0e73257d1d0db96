SPECIFICATION FairSpec
CONSTANT Files <- MCFiles
INVARIANTS
    TypeOK
    ReadsBack
    RegistryExact
    ServesAsRunUser
PROPERTY Starts
CHECK_DEADLOCK FALSE

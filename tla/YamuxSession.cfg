CONSTANTS
    MaxOpen  <- ClientOne
    MaxData  <- TwoAndOne
    Foreign  = {}
    MayClose = TRUE
    MayLose  = TRUE
SPECIFICATION Spec
INVARIANTS
    TypeOK
    NothingLost
    PrefixRead
    EofMeansAll
    ReadersReleased
PROPERTY ImplementsContract
CHECK_DEADLOCK FALSE

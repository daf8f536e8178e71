CONSTANTS
    MaxOpen  <- ServerOne
    MaxData  <- None
    Foreign  = {"RST", "PING", "GO_AWAY"}
    MayClose = TRUE
    MayLose  = TRUE
SPECIFICATION FairSpec
PROPERTIES
    CloseReachesPeer
    CloseEndsBoth
CHECK_DEADLOCK FALSE

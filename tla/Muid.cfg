CONSTANTS
    MaxCounter   = 2
    MinTime      <- MCMinTime
    MaxTime      = 3
    MaxStepBacks = 2
SPECIFICATION FairSpec
INVARIANTS
    TypeOK
    UniqueUnlessRegressed
PROPERTY WaitReturns
CHECK_DEADLOCK FALSE

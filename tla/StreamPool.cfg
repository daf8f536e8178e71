CONSTANTS
    a1 = a1  a2 = a2  a3 = a3  a4 = a4
    s1 = s1  s2 = s2  s3 = s3  s4 = s4
    NoStream = NoStream
    Calls      = {a1, a2, a3}
    Streams    = {s1, s2, s3}
    Limits     = {1, 2}
    Reuses     = {FALSE, TRUE}
    Faults     = {FALSE, TRUE}
    MayFinish  = TRUE
SPECIFICATION FairSpec
INVARIANTS
    PoolTypeOK
    CountCoversUse
    NoLostWakeup
    ExclusiveHold
PROPERTY WaiterServed
CHECK_DEADLOCK FALSE

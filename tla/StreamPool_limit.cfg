CONSTANTS
    a1 = a1  a2 = a2  a3 = a3  a4 = a4
    s1 = s1  s2 = s2  s3 = s3  s4 = s4
    NoStream = NoStream
    Calls      = {a1, a2, a3, a4}
    Streams    = {s1, s2, s3, s4}
    Limits     = {2}
    Reuses     = {FALSE}
    Faults     = {FALSE}
    MayFinish  = FALSE
SPECIFICATION Spec
INVARIANT LimitRespected

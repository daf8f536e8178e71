CONSTANTS
    o = o  p = p  q = q  b = b  d = d
    t1 = t1  t2 = t2  t3 = t3
    NoStream = NoStream
    NoCall   = NoCall
    ClientCalls = {o, p, q}
    ServerCalls = {b, d}
    Streams     = {t1, t2, t3}
    MaxStreams  = 2
    Nestings    <- MCNestings
SPECIFICATION Spec
INVARIANTS
    TypeOK
    OnlyNestingBlocks
PROPERTY CallsEnd
CHECK_DEADLOCK FALSE

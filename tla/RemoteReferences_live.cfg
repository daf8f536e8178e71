CONSTANTS
    shared = shared  list = list
    p1 = p1  p2 = p2
    c1 = c1  c2 = c2  c3 = c3
    i1 = i1  i2 = i2  i3 = i3
    None = None
    Root = Root
    Objects     = {shared}
    WeakRefable = {shared}
    Keys        <- MCKeys
    KeyOf       <- MCKeyOf
    Ids         = {i1, i2}
    MaxRetains  = 3
    Peers       = {p1, p2}
    Calls       = {c1, c2, c3}
    MayCancel   = TRUE
    MayClose    = TRUE
SPECIFICATION FairSpec
PROPERTY EventuallyCollected
CHECK_DEADLOCK FALSE

CONSTANTS
    root = root  maker = maker  list = list  one = one
    h1 = h1  h2 = h2  h3 = h3
    i1 = i1  i2 = i2  i3 = i3
    None = None
    Raises = Raises
    Objects     <- MCObjects
    WeakRefable <- MCWeakRefable
    Keys        <- MCKeys
    KeyOf       <- MCKeyOf
    Ids         = {i1, i2}
    MaxRetains  = 1
    Executors   = {"exporter"}
    Handlers    = {h1, h2}
    Chains      <- MCChains
    RootObject  = root
    Plain       = {one}
    Member      <- MCMember
    Applied     <- MCApplied
    Async       = {maker}
    Coroutine   = Coroutine
SPECIFICATION Spec
INVARIANT ArgumentsResolve
CHECK_DEADLOCK FALSE

CONSTANTS
    root = root  maker = maker  list = list  one = one
    h1 = h1  h2 = h2  h3 = h3
    i1 = i1  i2 = i2  i3 = i3
    None = None
    Raises = Raises
    Objects     <- MCObjects
    WeakRefable <- MCWeakRefable
    Keys        <- MCKeys
    KeyOf       <- MCKeyOf
    Ids         = {i1, i2, i3}
    MaxRetains  = 2
    Executors   = {"exporter", "importer"}
    Handlers    = {h1, h2, h3}
    Chains      <- MCChains
    RootObject  = root
    Plain       = {one}
    Member      <- MCMember
    Applied     <- MCApplied
    Async       = {maker}
    Coroutine   = Coroutine
SPECIFICATION Spec
INVARIANTS
    TypeOK
    AnswerMeans
    AnswersCounted
    CallbacksStay
SYMMETRY MCSymmetry
CHECK_DEADLOCK FALSE

CONSTANTS
    a1 = a1  a2 = a2  dict = dict
    None = None
    Shared       = dict
    Objects      <- MCObjects
    WeakRefable  <- MCWeakRefable
    Keys         = {"a"}
    KeyOf        <- MCKeyOf
    Ids          = {1, 2, 3, 4}
    MaxRetains   = 2
    MaxScenarios = 2
    Quiets       = {FALSE, TRUE}
SPECIFICATION Spec
INVARIANTS
    TypeOK
    CountedIffMapped
    KeysMatchEntries
    ReportTruthful
PROPERTIES
    ReferenceIsEqual
    EventuallyReported
CHECK_DEADLOCK FALSE

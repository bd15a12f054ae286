SPECIFICATION Spec
CONSTANTS
    NULL = NULL
    k = k
    n = n
    j1 = j1
    j2 = j2
    j3 = j3
    x = x
    Entities = {k, n}
    Jobs = {j1, j2, j3}
    ExtFences = {x}
    EntityOf <- EntityOfDef
    Prio <- PrioDef
    Deps <- DepsDef
    Destroyable = {}
    QueueSize = 1
    HwSubmissionLimit = 2
    Timeout = FALSE
    MayFail = {}
    MaxParks = 0
    MayStop = TRUE
INVARIANTS
    TypeOK
    HwCountExact
    NoLostWakeup
PROPERTIES
    ImplementsJobService
CHECK_DEADLOCK FALSE

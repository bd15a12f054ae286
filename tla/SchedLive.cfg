SPECIFICATION FairSpec
CONSTANTS
    NULL = NULL
    k = k
    n = n
    j1 = j1
    j2 = j2
    j3 = j3
    x = x
    Entities = {n}
    Jobs = {j2, j3}
    ExtFences = {}
    EntityOf <- EntityOfDef
    Prio <- PrioDef
    Deps <- DepsDef
    Destroyable = {n}
    QueueSize = 1
    HwSubmissionLimit = 2
    Timeout = TRUE
    MayFail = {j2}
    MaxParks = 1
    MayStop = FALSE
INVARIANTS
    EntityInUse
    FreedJobUnused
    OldestJobWatched
    RunQueueSound
PROPERTIES
    SubmittedJobsFinish
CHECK_DEADLOCK FALSE

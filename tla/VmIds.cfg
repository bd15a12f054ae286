SPECIFICATION FairSpec
CONSTANTS
    v = v
    w = w
    VMs = {v, w}
    Entities <- MCEntities
    NumRings = 2
    NumIds = 2
    Changing = {v}
    MaxJobs = 3
    MaxChanges = 1
    MaxResets = 1
    Failing = {2}
    FlushMayBeUndone = FALSE
INVARIANTS TlbFresh
CHECK_DEADLOCK FALSE
PROPERTIES JobsGetIds

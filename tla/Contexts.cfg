SPECIFICATION FairSpec
CONSTANTS
    Tasks = {s, t}
    amdgpu_sched_jobs = 2
    MaxHandles = 1
    MaxCtxs = 2
    MaxJobs = 3
    MaxSlips = 1
INVARIANTS RefsExact LookupExact
PROPERTIES CallsReturn
CHECK_DEADLOCK FALSE

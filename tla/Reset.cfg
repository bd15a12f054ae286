SPECIFICATION FairSpec
CONSTANTS
    NumJobs = 3
    HwSubmissionLimit = 2
    ResetThreads = {"tdr", "other"}
    MaxHangs = 2
    MaxRuns = 7
    ResumeMayFail = TRUE
CONSTRAINT Sound
CHECK_DEADLOCK FALSE
INVARIANT SchedulerBlocked
INVARIANT CountExact
INVARIANT NoFreedJob
PROPERTY JobsFinish

SPECIFICATION FairSpec
CONSTANTS
    NumHwSubmission = 1
    SeqMod = 8
    FirstSeq = 6
    MaxSeq = 10
    Workers = {"irq", "timer"}
    FlushMayBeUndone = FALSE
    MaxHangs = 1
    SlowGpu = FALSE
    MayWait = TRUE
CHECK_DEADLOCK FALSE
INVARIANT OneSignaler
INVARIANT NoEarlySignal
INVARIANT BusySlotPassed
INVARIANT WaitEmptyIdle
PROPERTY FencesSignal

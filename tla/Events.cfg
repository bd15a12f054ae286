SPECIFICATION FairSpec
CONSTANTS
    t1 = t1
    t2 = t2
    Threads = {t1, t2}
    SignalLimit = 1
    FirstNonsignal = 2
    LastNonsignal = 3
    Types = {"signal", "memory"}
    MaxEvents = 2
    Timeouts = {"finite"}
    Interruptible = {t1}
    GpuSignals = 1
    MaxWaits = 2
CHECK_DEADLOCK FALSE
INVARIANT IdsUnique
INVARIANT WaitersExact
INVARIANT NoMissedSignal
PROPERTY FiniteWaitsReturn

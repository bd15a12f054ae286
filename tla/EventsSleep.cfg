SPECIFICATION FairSpec
CONSTANTS
    t1 = t1
    t2 = t2
    Threads = {t1}
    SignalLimit = 1
    FirstNonsignal = 4
    LastNonsignal = 5
    Types = {"signal"}
    MaxEvents = 1
    Timeouts = {"infinite"}
    Interruptible = {}
    GpuSignals = 1
    MaxWaits = 1
CHECK_DEADLOCK FALSE
PROPERTY WokenReturns

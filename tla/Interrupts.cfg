SPECIFICATION Spec
CONSTANTS
    Users = {1, 2}
    MaxLosses = 1
    RingVectors = 3
    MaxVectors = 4
    Wanted = {3, 4}
    EntrySize = 2
    NumEntries = 2
    WordSize = 16
    MaxEntries = 9
    MayExit = TRUE
INVARIANTS EnabledExact NoUseAfterFree
PROPERTIES InOrder CatchesUp QueueSpec
CHECK_DEADLOCK FALSE

SPECIFICATION FairSpec
CONSTANTS
    t1 = t1
    Size = 4
    Sizes = {1, 2, 4}
    Aligns = {1, 2}
    NumLists = 2
    Threads = {t1}
    MaxAllocs = 4
    MayFail = TRUE
CHECK_DEADLOCK FALSE
INVARIANT NoOverlap
INVARIANT InUseKept
PROPERTY RequestsReturn

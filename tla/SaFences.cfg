SPECIFICATION Spec
CONSTANTS
    t1 = t1
    Size = 4
    Sizes = {1, 3}
    Aligns = {1}
    NumLists = 2
    Threads = {t1}
    MaxAllocs = 4
    MayFail = FALSE
CHECK_DEADLOCK FALSE
INVARIANT FencesHeld

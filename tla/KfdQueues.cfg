SPECIFICATION Spec
CONSTANTS
    p1 = p1
    p2 = p2
    Procs = {p1, p2}
    None = None
    Asks <- AskedQueues
    Debuggable = {p1}
    MaxCalls = 3
    MaxPerProcess = 2
    MaxPerDevice = 2
    DebugLimit = 2
    MaxFaults = 1
    RingSize = 8
    PacketSize <- PacketSizes
INVARIANTS
    HiqIntact
    CountersExact
    FreedNotMapped
    
    ExitClean
CHECK_DEADLOCK FALSE

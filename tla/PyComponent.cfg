SPECIFICATION MCSafety
CONSTANTS
    Kinds = {"resource", "device", "lifecycle", "executable", "logging", "messages", "events", "service",
             "view"}
    None = None
    c1 = c1
    c2 = c2
    p1 = p1
    p2 = p2
    a = a
    b = b
    Props = {p1}
    Listeners = {a, b}
    Clients = {c1}
    Threads = {a, b}
    Values = {0, 1}
    Interval = 2
    MaxChanges = 2
    MaxCalls = 4
    Capacity = 1
    MaxDeviceCalls = 4
    Devices = {a, b, c1}
    Managed = {b}
    MaxLost = 1
    MaxReleases = 2
    Names = {"f", "d"}
    Pids = {1, 2}
    MaxLoads = 2
    MaxCommands = 4
    Levels = {"INFO", "TRACE", "OFF", "BAD"}
    MaxLogCalls = 3
    Connections = {"r", "l"}
    Local = {"l"}
    Senders = {"s"}
    Unknown = {"bad"}
    Limit = 1
    MaxOps = 4
    Retries = 2
    MaxFaults = 2
    MaxSignals = 2
    Broken = Broken
    MaxObjects = 2
    MaxViewCalls = 2
    MaxViewFaults = 1
    MaxStates = 3
INVARIANTS
    ResourceTrue
    
    
    ExecutableTrue
    LoggingTrue
    EventsTrue
CHECK_DEADLOCK FALSE

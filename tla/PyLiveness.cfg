SPECIFICATION MCSpec
CONSTANTS
    Kinds = {"resource", "device", "lifecycle", "messages", "events"}
    None = None
    c1 = c1
    c2 = c2
    p1 = p1
    p2 = p2
    a = a
    b = b
    Props = {p1}
    Listeners = {a}
    Clients = {c1}
    Threads = {a, b}
    Values = {0, 1}
    Interval = 1
    MaxChanges = 2
    MaxCalls = 4
    Capacity = 1
    MaxDeviceCalls = 3
    Devices = {a, b, c1}
    Managed = {b}
    MaxLost = 1
    MaxReleases = 1
    Names = {"f", "d"}
    Pids = {1, 2}
    MaxLoads = 2
    MaxCommands = 4
    Levels = {"INFO", "TRACE", "OFF", "BAD"}
    MaxLogCalls = 3
    Connections = {"r", "l"}
    Local = {"l"}
    Senders = {"s"}
    Unknown = {"bad"}
    Limit = 1
    MaxOps = 3
    Retries = 2
    MaxFaults = 1
    MaxSignals = 2
    Broken = Broken
    MaxObjects = 2
    MaxViewCalls = 2
    MaxViewFaults = 1
    MaxStates = 3
PROPERTIES
    
    NothingForgotten
CHECK_DEADLOCK FALSE

CONSTANTS
    t1 = t1
    t2 = t2
    i1 = i1
    i2 = i2
    i3 = i3
    h1 = h1
    h2 = h2
    c1 = c1
    c2 = c2
    None = None
    Ids = {i1, i2, i3}
    Tuners = {t1, t2}
    Types = {"RX", "CHANNELIZER"}
    NoListeners = {"CHANNELIZER"}
    Threads = {h1, h2}
    TypeMaps <- MCTypeMaps
    MaxAllocations = 2
    Conns = {c1, c2}
    Clients = {h1, h2}
    Values = {"v1"}
    Default = "v0"
    MaxPortCalls = 5
SPECIFICATION MCSpec
INVARIANTS
    AllocationsTrue
    ControlTrue
PROPERTIES
    LedgerKept
CHECK_DEADLOCK FALSE

SPECIFICATION MCSpec
CONSTANTS
    None = None
    Kinds = {"in", "out", "link"}
    Users = {u}
    Streams = {"s"}
    Connections = {"w"}
    Wired = "w"
    Limits = {2, 3}
    Sizes = {1, 3}
    MaxMessage = 2
    MaxPushes = 3
    MaxOps = 3
    Readers = {r}
    Thresholds = {1, 2}
    MaxSettings = 2
    OtherBatch = 2
    MaxBatches = 3
INVARIANTS
    BurstsKept
PROPERTIES
    QueuesDrain
CHECK_DEADLOCK FALSE

SPECIFICATION MCSpec
CONSTANTS
    None = None
    Kinds = {"link"}
    Users = {u}
    Streams = {"s"}
    Connections = {"w"}
    Wired = "w"
    Limits = {2, 3}
    Sizes = {1}
    MaxMessage = 2
    MaxPushes = 3
    MaxOps = 3
    Readers = {r}
    Thresholds = {1, 2}
    MaxSettings = 2
    OtherBatch = 2
    MaxBatches = 3
PROPERTIES StopReturns
CHECK_DEADLOCK FALSE

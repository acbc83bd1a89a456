SPECIFICATION MCSpec
CONSTANTS
    Kinds = {"configured", "deep"}
    Streams = {s1, s2}
    Active = {s1, s2}
    SRIs <- OneFlushingSRI
    QueueDepths = {3}
    MaxCalls = 5
    Environment = {"emptyeos"}
    NoSRI = NoSRI
    NoStream = NoStream
    NoPacket = NoPacket
INVARIANT QueueTrue
INVARIANT StreamsTrue
PROPERTY ChangesReported
SYMMETRY Symmetry
CHECK_DEADLOCK FALSE

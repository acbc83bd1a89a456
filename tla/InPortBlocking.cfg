SPECIFICATION MCFairSpec
CONSTANTS
    Kinds = {"configured", "blocking"}
    Streams = {s1, s2}
    Active = {s1}
    SRIs <- MixedSRIs
    QueueDepths = {0, 1}
    MaxCalls = 4
    Environment = {"streams", "disable", "stop", "depth", "update", "nosri", "empty"}
    NoSRI = NoSRI
    NoStream = NoStream
    NoPacket = NoPacket
INVARIANT TypeOK
PROPERTY DeliveryInOrder
PROPERTY NobodyStarves
CHECK_DEADLOCK FALSE

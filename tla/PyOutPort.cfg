SPECIFICATION MCSpec
CONSTANTS
    s1 = s1
    s2 = s2
    c1 = c1
    c2 = c2
    None = None
    Conns = {c1, c2}
    Streams = {s1, s2}
    Direct = {s2}
    SRIs <- MCSRIs
    Lens = {0, 2}
    BufferSizes = {0, 7}
    maxSamplesPerPush = 5
    Filters <- MCFilters
    MaxCalls <- MCMaxCalls
    MaxControl = 3
    MaxPortCalls = 6
    Lengths = {None, 2, 3}
    PktSize = 2
    MaxReads = 2
    MaxPushes = 2
    MaxUserCalls = 4
    MaxRepeats = 1
    MaxFaults = 1
INVARIANTS
    PacketsTrue
    AttachmentsTrue
    SourceTrue
    LinkTrue
CHECK_DEADLOCK FALSE

SPECIFICATION Spec
CONSTANTS
    Streams = {s1}
    SRIs <- MCSRIs
    Lens = {0, 2}
    MaxSize = 2
    Reads <- MCReads
    MaxCalls = 4
    None = None
INVARIANTS
    StreamsSound
PROPERTIES
    ReadsAreContiguous
CHECK_DEADLOCK FALSE

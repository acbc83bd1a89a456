SPECIFICATION MCSpec
CONSTANTS
    None = None
    ByteBits = 3
    MaxKids = 2
    Block = 3
    Bpe = 2
    Values = {1, 2}
    MaxElements = 4
    MaxData = 2
    MaxWrites = 4
INVARIANTS
    ConversionsExact
    PropertiesExact
    BlueFilesKept
    ProfilesKept
CHECK_DEADLOCK FALSE

SPECIFICATION MCSpec
CONSTANTS
    m1 = m1 m1b = m1b d1 = d1 d1b = d1b s = s a = a
    idM = idM idD = idD idS = idS
    None = None
    Mgrs = {m1, m1b}
    Devs = {d1, d1b}
    Svcs = {s}
    Conns <- OneConnection
    Apps = {a}
    MaxCrashes = 2
    Environment = {"die", "restore", "release"}
    Ident <- IdentOf
    Launcher <- LauncherOf
CHECK_DEADLOCK FALSE
INVARIANTS
    TypeOK
    RegistryTrue
    ReleasedStaysGone
    StoreMatchesMemory
    ConnectionsMadeIfFresh
PROPERTIES
    LiveKeptDependentsReleased
    CallsReturn

SPECIFICATION MCSpec
CONSTANTS
    Clients = {c1, c2}
    c1 = c1
    c2 = c2
    NoClient = NoClient
    p1 = p1
    p2 = p2
    Props = {p1, p2}
    Configurable = {p2}
    InitialCap <- Cap1
    Width = 3
    UseNewAllocation = FALSE
    HasConfigureProps = TRUE
    Environment = {"reconfigure", "overreturn", "throw"}
INVARIANT TypeOK
INVARIANT CapacityBounds
INVARIANT Conservation
PROPERTY CallsReturn
CHECK_DEADLOCK FALSE

CONSTANTS
    n1 = n1
    p1 = p1
    p2 = p2
    NoName = NoName
    None = None
    Names <- OneName
    Ports <- OnePort
    Headless <- NotHeadless
    SyncEnabled = FALSE
    ResyncEnabled = FALSE
    Budget <- ChangesOnly
SPECIFICATION MirroredSpec
PROPERTIES EndpointsCatchUp
CHECK_DEADLOCK FALSE

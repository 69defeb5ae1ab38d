CONSTANTS
    a = a
    b = b
    p1 = p1
    p2 = p2
    None = None
    Live = Live
    Clusters <- TwoClusters
    Ports <- OnePort
    Services <- OneService
    Calm = FALSE
    Budget <- ChangesOnly
SPECIFICATION Spec
INVARIANTS NoPanic
CHECK_DEADLOCK FALSE

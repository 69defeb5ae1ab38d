CONSTANTS
    a = a
    b = b
    p1 = p1
    p2 = p2
    None = None
    Live = Live
    Clusters <- TwoClusters
    Ports <- TwoPorts
    Services <- FungibleServices
    Calm = TRUE
    Budget <- SafetyBudget
SPECIFICATION LiveSpec
INVARIANTS LocalFollowsStore NoPanic
PROPERTIES ServiceIsKept GlobalServiceCatchesUp
CHECK_DEADLOCK FALSE

CONSTANTS
    a = a
    b = b
    p1 = p1
    p2 = p2
    None = None
    Live = Live
    Clusters <- TwoClusters
    Ports <- OnePort
    Services <- AnyKind
    Calm = FALSE
    Budget <- SafetyBudget
SPECIFICATION Spec
SYMMETRY Symmetry
INVARIANTS TypeOK StoreFollowsClusters LocalGoesWithStore
PROPERTIES UsesLevelQueue
CHECK_DEADLOCK FALSE

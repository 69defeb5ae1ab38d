CONSTANTS
    L = L
    R = R
    p1 = p1
    Unlabelled = Unlabelled
    NoSource = NoSource
    None = None
    Clusters <- Two
    Local = L
    Sources <- Lonely
    Contents <- OneContent
    SyncEnabled = TRUE
    Budget <- NoBudget
SPECIFICATION Spec
INVARIANTS NoStaleRemoteSlice
CHECK_DEADLOCK FALSE

CONSTANTS
    L = L
    R = R
    p1 = p1
    Unlabelled = Unlabelled
    NoSource = NoSource
    None = None
    Clusters <- Two
    Local = L
    Sources <- Shared
    Contents <- OneContent
    SyncEnabled = TRUE
    Budget <- SliceBudget
SPECIFICATION LiveSpec
INVARIANTS TypeOK SettledSliceIsMirrored NoStaleLocalSlice
PROPERTIES UsesLevelQueue LiveMirrorIsKept SlicesCatchUp
CHECK_DEADLOCK FALSE

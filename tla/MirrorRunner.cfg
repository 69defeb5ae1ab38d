CONSTANTS
    n1 = n1
    p1 = p1
    p2 = p2
    NoName = NoName
    None = None
    Names <- OneName
    Ports <- TwoPorts
    Headless <- NotHeadless
    SyncEnabled = TRUE
    ResyncEnabled = TRUE
    Budget <- LiveBudget
SPECIFICATION LiveSpec
INVARIANTS TypeOK SeenIsCurrent SettledIsMirrored NoStaleMirror
PROPERTIES UsesLevelQueue LiveMirrorIsKept MirrorsCatchUp StaleMirrorsGo
CHECK_DEADLOCK FALSE

CONSTANTS
    None = None
    MaxRemotes = 2
    Files <- SomeFiles
    Settings <- TwoSettings
    Flags <- OneFlag
    Originals <- TwoOriginals
    Budgets <- SmallBudgets
SPECIFICATION LiveSpec
INVARIANTS TypeOK HealthyMeansStarted DoneIsMirrored
PROPERTIES NoMirrorIsTaken HealthDoesNotWait AnsweringIsMirrored
CHECK_DEADLOCK FALSE

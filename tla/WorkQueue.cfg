CONSTANTS
    k1 = k1
    k2 = k2
    k3 = k3
    NoKey = NoKey
    Keys <- ThreeKeys
SPECIFICATION FairSpec
INVARIANTS TypeOK FifoIsDirty RequeuedIsFailed CountedIsScheduled GaugeIsExact
PROPERTIES ImplementsLevelQueue ImplementsFairness StopEndsWorker
CHECK_DEADLOCK FALSE

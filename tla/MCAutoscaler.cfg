\* Seconds are scaled down: a load time above the floor of the scale-down window.
SPECIFICATION FairSpec
CONSTANTS
    MinReplicas = 1
    MaxReplicas = 3
    QueueDepthTarget = 4
    KVCacheUsagePercent = 80
    TTFTP95Milliseconds = 2000
    WeightLoadSeconds = 5
    SettleFloor = 3
    ScaleUpPeriod = 2
    Loads <- SomeLoads
    MaxRestarts = 2
INVARIANTS
    TypeOK
PROPERTIES
    NoRemovalWhileLoading
    PressureIsAnswered
    IdleShrinks

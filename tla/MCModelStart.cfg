\* The periods and thresholds of the code; a load time that is no multiple of ten.
SPECIFICATION FairSpec
CONSTANTS
    startupPeriod = 10
    WeightLoadSeconds = 25
    SlowestLoad = 19
    MaxFaults = 3
INVARIANTS
    TypeOK
    ReadyMeansServable
PROPERTIES
    
    LivenessKillsTheHung
    EventuallyServes

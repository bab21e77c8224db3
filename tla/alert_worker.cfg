\* One backend restart, one crash of the worker, two observations either way.
CONSTANTS
    NBuckets = 1
    Slow = 2
    MinErrors = 20
    MinLatency = 1
    RatioPercent = 5
    Threshold <- RareEvents
    Failures = 2
    Recovery = 2
    Traffic <- QuickAndSlow
    Happening <- OneEvent
    NoSnapshot = none
    MaxCount = 20
    MaxEvents = 1
    MaxFaults = 1
SPECIFICATION FairSpec
INVARIANTS TypeOK IntervalIsExact
PROPERTIES ReportsIncidents SignalsAreTrue OutageIsReported RecoveryIsReported

CONSTANTS
    Scan = {s1}
    Worker = {w1, w2}
    Remover = {r1, r2}
    NoScan = NoScan
    NoWorker = NoWorker
    MaxStalledCount = 1
    MaxCrashes = 2
    MaxFaults = 2
    MaxLockLosses = 2
SPECIFICATION FairSpec
PROPERTIES
    ImplementsLifecycle
    EveryScanSettles
INVARIANTS
    TypeOK
    NoStrandedScan
    OneHandlerPerScan
    QueueAgreesWithRow
    FailedKeepsResultsOnlyAfterLapse
    OneCompletionLogPerDelivery
CHECK_DEADLOCK FALSE

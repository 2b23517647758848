CONSTANTS
    k1 = k1  k2 = k2  r1 = r1  r2 = r2
    Kinds = {k1}
    Requests = {r1}
    MaxLoads = 2
    Concurrency = 1
    MaxSource = 2
    MaxFaults = 1
    None = None
SPECIFICATION FairSpec
CHECK_DEADLOCK FALSE
PROPERTIES IsSnapshotCache StaleIsRefreshed RemovedFallsSilent

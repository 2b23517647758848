CONSTANTS
    j1 = j1  j2 = j2
    Handlers = {j1, j2}
    Cases <- MCCases
    MaxMishaps = 2
    PageSize = 3
SPECIFICATION TenantSpec
CHECK_DEADLOCK FALSE
INVARIANTS SuccessIsDone PreviewKept
PROPERTIES OnlyStaleHurts

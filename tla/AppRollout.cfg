CONSTANTS
    j1 = j1  j2 = j2
    Jobs = {j1, j2}
    None = None
    MaxFaults = 1
    MaxCrashes = 1
SPECIFICATION Spec
CHECK_DEADLOCK FALSE
INVARIANTS PublishedIsComplete
PROPERTIES RecordedAppStays RowSettles

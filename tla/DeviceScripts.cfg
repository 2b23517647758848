CONSTANTS
    j1 = j1  j2 = j2
    Jobs = {j1, j2}
    KindChoices <- MCKindChoices
    MaxFaults = 1
    MaxTime = 2
    None = None
SPECIFICATION FairSpec
CHECK_DEADLOCK FALSE
INVARIANTS NothingLeft ResultIsOfRun
PROPERTIES TimeoutIsHarmless RightsEnd

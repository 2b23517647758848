CONSTANTS
    j1 = j1  j2 = j2  w1 = w1  w2 = w2
    Jobs = {j1}
    Workers = {w1, w2}
    Reliable = {w2}
    MaxFaults = 2
    None = None
SPECIFICATION FairSpec
CHECK_DEADLOCK FALSE
INVARIANTS OnceForEachRun SuccessIsEarned
PROPERTIES ToldIsFinal RowsClose

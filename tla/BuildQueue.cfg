SPECIFICATION FairSpec
CONSTANTS
    Calls = {c1, c2}
    Workers = {w1, w2}
    Reliable = {w1}
    Versions = {v1, v2}
    FirstVersion = v1
    Offered = {"msi", "winget", "store"}
    StaleAfter = 1
    MaxLines = 1
    MaxFaults = 1
    None = None
INVARIANTS
    TypeOK
    ExclusiveClaim
    SuccessIsOwnUpload
    ReadyHasArtifact
PROPERTIES
    ResultStays
    BuildsClose

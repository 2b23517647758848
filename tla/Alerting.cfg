CONSTANTS
    u1 = u1  u2 = u2  tick = tick  request = request
    Users = {u1, u2}  Tenant = tenant  Absent = Absent
    Evaluators = {tick, request}  Ticker = tick
    Cases <- MCCases
    FailedPerUser = 2  FailedWindow = 1
    SprayFailures = 3  SprayUsers = 2
    FailuresBeforeSuccess = 1  RecoveryWindow = 1
    CountryHop = 2  DayLength = 3
    Window = 4  MinInterval = 2
    MaxDelay = 1
    Top = 2  Attempts = 2
SPECIFICATION AlertingSpec
CHECK_DEADLOCK FALSE
INVARIANTS MailOnce BurstIsStored
PROPERTIES ResolvedStaysQuiet

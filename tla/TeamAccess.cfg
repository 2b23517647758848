CONSTANTS
    r1 = r1  r2 = r2  r3 = r3
    a = a  b = b  c = c  t1 = t1  t2 = t2
    Requests = {r1, r2, r3}
    People = {a, b, c}  Tenants = {t1, t2}
    Cases <- MCCases
    MaxRows = 3
    Lifetime = 3  IdleTime = 2  TouchEvery = 0
    None = None
SPECIFICATION Spec
CHECK_DEADLOCK FALSE
INVARIANTS ActsWithPresentRights GivenRoleHolds
PROPERTIES OnlyStaleTakesLastOwner

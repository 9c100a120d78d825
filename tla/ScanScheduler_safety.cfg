SPECIFICATION Spec
CONSTANTS
    Tenants = {t1, t2}
    Readers = {r1}
    OAuthReaders = {r1}
    NoReader = none
    Limits = {1, 2}
    MaxRequests = 2
    MaxFaults = 1
    MaxCrashes = 0
    MaxRetries = 0
SYMMETRY Symmetry
CHECK_DEADLOCK FALSE
INVARIANTS OneRunPerTenant
PROPERTIES LimitRespected PauseTakesEffect

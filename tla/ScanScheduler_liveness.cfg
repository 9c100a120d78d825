SPECIFICATION FairSpec
CONSTANTS
    Tenants = {t1, t2}
    Readers = {r1}
    OAuthReaders = {r1}
    NoReader = none
    Limits = {1}
    MaxRequests = 0
    MaxFaults = 1
    MaxCrashes = 1
    MaxRetries = 1
CHECK_DEADLOCK FALSE
PROPERTIES FairScans ShutdownCompletes

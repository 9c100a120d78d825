SPECIFICATION FairSpec
CONSTANTS
    Tenants = {t1, t2}
    Readers = {r1}
    OAuthReaders = {r1}
    NoReader = none
    Limits = {1}
    MaxRequests = 1
    MaxFaults = 0
    MaxCrashes = 0
    MaxRetries = 0
CHECK_DEADLOCK FALSE
PROPERTIES ReconnectContinues

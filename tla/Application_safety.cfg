SPECIFICATION FairSpec
CONSTANTS
    Codes <- MCCodes
    Fragments <- MCFragments
    Periodic = periodic
    Triggers = {t1}
    MaxRelease = 1
    MaxFaults = 1
    Requests = {r1}
    MaxBoots = 1
    MaxChanges = 1
INVARIANT StoreClosedLast
PROPERTY ResolverCatchesUp
PROPERTY ShutdownReturns
CHECK_DEADLOCK FALSE

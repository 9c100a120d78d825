SPECIFICATION FairSpec
CONSTANTS
    Requests = {r1, r2}
    NoRequest = NoRequest
    Callers = {c1, c2}
    MaxCalls = 2
CHECK_DEADLOCK FALSE
INVARIANTS
    TypeOK
    NoOrphanRun
    LastCommandWins
    ResolverApplied
PROPERTIES
    StopWaits
    ImplementsService
    CallersReturn
    CommandsExecuted

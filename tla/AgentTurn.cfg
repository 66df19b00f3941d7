SPECIFICATION FairSpec
CONSTANTS
    Tool         = {search, hidden, unknown}
    Registered   = {search, hidden}
    ParallelSafe = {search}
    Discoverable = {hidden}
    Search       = {search}
    Reveals     <- MCReveals
    search  = search
    hidden  = hidden
    unknown = unknown
    MaxTurns     = 2
    MaxContext   = 2
    HasSignal    = TRUE
    MaxCalls     = 3
    MaxSubmits   = 2
INVARIANTS
    TypeOK
    SerialCallsRunAlone
    SerialCallsKeepOrder
    BatchPlanAgrees
    TurnHistoryPaired
    LatestRoundInWindow
PROPERTIES
    KeepsContract
    TurnEnds
CHECK_DEADLOCK FALSE

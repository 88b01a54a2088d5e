SPECIFICATION FairSpec
CONSTANTS
    change = change
    query = query
    Requests = {change, query}
    Guarded = {change}
    Native = {change, query}
    Signals = {change}
    MaxSpawns = 3
INVARIANTS
    TypeOK
    SubmittedRunsOnce
    OkMeansExecuted
    PendingIsHeard
PROPERTIES
    EveryCallReturns

SPECIFICATION FairSpec
CONSTANTS
    wide = wide
    strict = strict
    lax = lax
    Job = {wide, strict, lax}
    Count <- CountOfJob
    MaxConcurrency <- ConcurrencyOfJob
    StopOnError <- StopOfJob
    PoolSize = 3
INVARIANTS
    TypeOK
    InFlightBounded
    NoGridlock
    ResultsComplete
PROPERTIES
    RefinesJobResults
    EveryJobFinishes
CHECK_DEADLOCK FALSE

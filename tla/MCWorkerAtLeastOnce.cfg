SPECIFICATION Spec
CONSTANTS
    e1 = e1
    e2 = e2
    j1 = j1
    Envelope = {e1, e2}
    JobId = {j1}
    Caller = {c1}
    JobOf <- SameJob
    SealedAt <- Sealed
    Target <- SomeBlank
    Deadline <- SomeExpire
    TTL = 4
    Skew = 1
    Lag = 1
    MaxTime = 3
PROPERTY SuppressedOnlyWhenServed

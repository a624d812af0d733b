SPECIFICATION Spec
CONSTANTS
    w1 = w1
    w2 = w2
    Workers = {w1, w2}
    Second = 1
    Cooldown = 2
    Expiry = 3
    Hour = 4
    MaxSends = 2
    MaxAttempts = 2
    MaxCodes = 4
    MaxTime = 4
    MaxCrashes = 0
SYMMETRY MCWorkerSymmetry
INVARIANTS
    TypeOK
    SendsAreLimited
    OneUsablePerWorker
    SpentOncePerWorker
\* The clock and the codes are used up in the end.
CHECK_DEADLOCK FALSE

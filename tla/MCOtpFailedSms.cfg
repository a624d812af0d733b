SPECIFICATION Spec
CONSTANTS
    w1 = w1
    w2 = w2
    Workers = {w1}
    Second = 2
    Cooldown = 2
    Expiry = 3
    Hour = 4
    MaxSends = 2
    MaxAttempts = 2
    MaxCodes = 3
    MaxTime = 14
    MaxCrashes = 0
INVARIANTS
    FailedSendIsFree
CHECK_DEADLOCK FALSE

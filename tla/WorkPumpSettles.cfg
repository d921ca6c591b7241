SPECIFICATION FairSpec
CONSTANTS
    r1 = r1
    r2 = r2
    Requests <- OneRequest
    Outcomes = {"done", "escalated"}
    MaxAttempts = 2
    MaxClaims = 6
    MaxLapses = 0
    FaultKinds = {"work", "after", "uncaught"}
    MaxFaults = 1
    MaxCrashes = 1
    MaxMoves = 1
    Durable = TRUE
    Cancellable = FALSE
PROPERTY EventuallySettled
CHECK_DEADLOCK FALSE

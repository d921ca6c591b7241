SPECIFICATION Spec
CONSTANTS
    r1 = r1
    r2 = r2
    Requests <- OneRequest
    Outcomes = {"done", "escalated"}
    MaxAttempts = 2
    MaxClaims = 6
    MaxLapses = 1
    FaultKinds = {"work"}
    MaxFaults = 2
    MaxCrashes = 0
    MaxMoves = 0
    Durable = FALSE
    Cancellable = TRUE
INVARIANTS
    DoneIsNewest
    ClaimsBounded
PROPERTIES
    SupersededIsMute
    
    
CHECK_DEADLOCK FALSE

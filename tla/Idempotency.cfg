SPECIFICATION Spec
CONSTANTS
    p1 = p1
    p2 = p2
    k1 = k1
    b1 = b1
    b2 = b2
    Procs <- MCProcs
    Keys <- MCKeys
    Bounds <- MCBounds
    Lease = 1
    ClaimAttempts = 2
    MaxTime = 2
    MaxCalls = 3
    None = None
SYMMETRY Symmetry
CHECK_DEADLOCK FALSE
INVARIANTS SingleExecutor EffectNotRepeated AnswersAgree
PROPERTY NoEffectAfterAnswer

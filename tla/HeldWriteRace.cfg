SPECIFICATION Spec
CONSTANTS
    r1 = r1
    r2 = r2
    t1 = t1
    t2 = t2
    Requests <- TwoRequests
    Asked <- OneRequest
    Volatile <- OneRequest
    Tasks <- MCTasks
    Delegated = FALSE
    Grace = FALSE
    MaxCrashes = 0
    None = None
CHECK_DEADLOCK FALSE
SYMMETRY Symmetry
INVARIANTS AtMostOneExecution ExecutedOnlyAsApproved
PROPERTY ImplementsApprovalOnce

SPECIFICATION FairSpec
CONSTANTS
    r1 = r1
    r2 = r2
    t1 = t1
    t2 = t2
    Requests <- OneRequest
    Asked <- OneRequest
    Volatile <- NoRequest
    Tasks <- MCTasks
    Delegated = TRUE
    Grace = FALSE
    MaxCrashes = 1
    None = None
CHECK_DEADLOCK FALSE
PROPERTY AnsweredIsResolved

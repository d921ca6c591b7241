SPECIFICATION Spec
CONSTANTS
    ws1 = ws1
    ws2 = ws2
    None = None
    Workspaces = {ws1, ws2}
    MaxRows = 3
    MaxRotations = 2
    Starts = {1, 2}
    Anchored = {None, ws1}
    PageSize = 2
    AnchorPage = 2
    QueryLimit = 4
    Rolling = TRUE
    Corruptible = TRUE
CHECK_DEADLOCK FALSE
INVARIANTS TypeOK VerdictIsFirstUnsound ChangeIsSeen AnchorsMatch
PROPERTY RemovalBreaksAnchor

SPECIFICATION FairSpec
CONSTANTS
    e1 = e1
    e2 = e2
    j1 = j1
    j2 = j2
    api = api
    w1 = w1
    w2 = w2
    Events = {e1, e2}
    Janitors = {j1, j2}
    Writers = {api, w1, w2}
    WriterOf <- TwoJanitors
    DrainBatch = 2
    FaultKinds = {"append", "lost_ack", "defer", "settle"}
    MaxFaults = 2
    MaxCrashes = 1
    None = None
CHECK_DEADLOCK FALSE
INVARIANTS TypeOK ChainIntact CollisionNeedsTwoWriters NothingLost RepeatsBounded
PROPERTY EventuallyAudited

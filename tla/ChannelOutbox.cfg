SPECIFICATION FairSpec
CONSTANTS
    Sidecars <- MCSidecars
    Tokens <- MCTokens
    FirstToken <- MCFirstToken
    MaxMessages = 1
    BatchLimit = 2
    OutboxLease = 1
    OwnerLease = 2
    MaxAttempts = 2
    Backoff = 1
    BackoffCap = 2
    MaxEvents = 2
INVARIANTS TypeOK  DeliveredWasSent
PROPERTIES DeliveredIsFinal EventuallySettled

SPECIFICATION FairSpec
CONSTANTS
  Spawns = {"a", "b"}
  Scopes = {"tenant", "dept"}
  ById <- MCById
  Runs <- MCRuns
  Chars <- MCChars
  Tier <- MCTier
  Rate <- MCRate
  Reports <- MCReports
  Policies <- MCPolicies
  Initial <- MCInitial
  MaxDay = 1
  MaxEvents = 1
  NoRun = NoRun
  NoPolicy = NoPolicy
  Free = Free
INVARIANTS LedgerBalances HardStopHolds NothingHeldBack EveryTokenBilledOnce
PROPERTIES EventuallyEnds
CHECK_DEADLOCK FALSE

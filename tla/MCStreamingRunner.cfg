CONSTANTS
  Token = {"a", "b", "c"}
  Cases <- MCCases
  MaxQueue = 5
SPECIFICATION FairSpec
INVARIANTS ConsumedIsPosition ScopesClosed ChunkingInvisible
PROPERTIES StalledIsStuck ProgressiveReturns
CHECK_DEADLOCK FALSE

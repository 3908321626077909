CONSTANTS
  Grammar = {"Main", "Sub", "Leaf"}
  Token = {"a", "b"}
  Name = {"n"}
  Docs <- MCDocs
  Inputs <- Words
  Main = "Main"
  Empty = "empty"
  MaxFrames = 3
SPECIFICATION FairSpec
INVARIANTS CallStack ConsumedIsPosition FailAtTopIsFinal ScopesClosed ScopesKept
PROPERTIES SingleShotExact Terminates
CHECK_DEADLOCK FALSE

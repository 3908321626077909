CONSTANTS
  Grammar = {"Main", "Sub", "Leaf"}
  Token = {"a", "b"}
  Name = {"n"}
  Docs <- FailDocs
  Inputs <- Words
  Main = "Main"
  Empty = "empty"
  MaxFrames = 3
SPECIFICATION FairSpec
INVARIANTS FailStops
CHECK_DEADLOCK FALSE

CONSTANTS
  Grammar <- Few
  Name <- Few
  NoParent = "-"
SPECIFICATION FairSpec
INVARIANTS ChildTakesPrecedence
CHECK_DEADLOCK FALSE

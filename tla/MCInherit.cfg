CONSTANTS
  Grammar <- MCGrammar
  Name <- MCName
  NoParent = "-"
SPECIFICATION FairSpec
INVARIANTS TypeOK CollectsChain AncestorsFirst
PROPERTIES Terminates
CHECK_DEADLOCK FALSE

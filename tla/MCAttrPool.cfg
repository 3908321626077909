CONSTANTS
  a1 = a1
  a2 = a2
  Dead = Dead
  Node = {n1, n2, n3}
  Attr <- MCAttr
  InitLists <- MCInitLists
  MaxPool = 8
SPECIFICATION Spec
INVARIANTS TypeOK RangesInPool RangesDisjoint
PROPERTY ImplementsNodeAttrs
CHECK_DEADLOCK FALSE

CONSTANTS
  a = a
  x = x
  Dot = Dot
  Tag = {a}
  Attr = {x}
  InitLists <- MCInitLists
  Paths <- MCPaths
  Vals = {FALSE, TRUE}
  Threshold = 2
  MaxNodes = 4
  MaxDepth = 3
  MaxAttrs = 2
SPECIFICATION Spec
INVARIANTS IsTree IndexIffWide IndexSound LookupExact OpenScopesAttached
CHECK_DEADLOCK FALSE

CONSTANTS
  Inputs <- MCInputs
  MaxChunk = 3
  MaxBatch = 2
SPECIFICATION FairSpec
INVARIANTS InOrder CutsInvisible
PROPERTIES Finishes
CHECK_DEADLOCK FALSE

SPECIFICATION Spec
CONSTANTS
  Depth = 2
  Cap = 2
  MaxChunks = 3
  Kinds = {"H3"}
INVARIANT FinIsWhole
CHECK_DEADLOCK FALSE

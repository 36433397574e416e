SPECIFICATION Spec
CONSTANTS
  Depth = 2
  MaxBody = 3
  MaxSend = 4
  Cells = {"H1", "H2", "H3"}
INVARIANT TruncatedNeverComplete
CHECK_DEADLOCK FALSE

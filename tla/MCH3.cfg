SPECIFICATION MCSpec
CONSTANTS
  Depth = 2
  MaxBody = 3
  MaxSend = 4
  Cells = {"H1", "H2", "H3"}
  Cap = 2
  MaxChunks = 3
  Kinds = {"H1", "H2", "H3", "inline"}
  MaxIn = 3
  MaxOut = 3
  Streams = {0, 1, 2}
  RequestCap = 2
  MaxSizeLine = 5
  MaxTrailers = 8
  MaxHexDigits = 2
  MaxHeaderBytes = 7
  Bodies = {2}
  RespCap = 3
  MaxUnits = 3
  Protocols = {"H1", "H2", "H3"}
  Sinks = {"wire", "decoded"}
INVARIANTS NothingLost NoTruncatedBody EndsAreWhole 
PROPERTIES StreamsArePipes  StreamsEnd
CHECK_DEADLOCK FALSE

SPECIFICATION Spec
CONSTANTS
  LegDepth = 1
  LegCap = 3
  FcH1 = {fa}
  FcH2 = {fb}
  FcKeepAlive = 1
  FcThreshold = 10
  FcWindow = 0
  FcBudget = 1
  FcRequests = 2
  FcSends = 2
  FcTicks = 1
  FrMaxHeaders = 7
  WpClientFrames = 2
  WpBackendFrames = 1
  WpPings = 1
  WpWindow = 0
  WpTicks = 1
  Proxies = {pa, pb}
  Watched = {ra, rb}
  MaxRegistered = 1
  HeaderTimeout = 1
  LastTick = 3
  Threshold = 2
  Window = 2
  MinRate = 1
  StallAfter = 4
  LastInstant = 5
  MaxEvents = 4
  HourMs = 12
  MinuteMs = 4
  SecondMs = 2
  MicrosPerMs = 2
  NanosPerMs = 4
  WordMax = 63
  MaxDeadline = 13
  DeadlineDigits = {0, 1, 3, 63}
  DialMs = 1
  Overhead = 1
  Base = 2
  MaxShift = 3
  TableSizes = {4, 8}
  MaxBlocks = 2
  MaxFrameSize = 5
  MaxFrames = 2
INVARIANTS LegSound   WsSound
PROPERTY L7Ends
CHECK_DEADLOCK FALSE

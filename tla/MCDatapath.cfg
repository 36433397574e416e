SPECIFICATION Spec
CONSTANTS
  Subjects = {"router", "guard", "token", "pass", "public", "xdp", "sums", "gate", "hash", "attach"}
  ClientCids = {d1, d2}
  Tokens = {k1, k2}
  ReplaySize = 1
  MaxConnections = 1
  ChannelDepth = 1
  MaxActors = 3
  MaxPackets = 5
  Digests = {h1, h2, h3, h4}
  MaxTokens = 3
  Odcids = {o1}
  MaxAge = 1
  Horizon = 4
  MaxBoots = 2
  MaxMinted = 1
  ClientIds = 2
  FlowCap = 1
  IdleTicks = 1
  MaxFlows = 2
  MaxCidLen = 2
  MaxRouted = 2
  CidBytes = {1, 2}
  VarintBase = 2
  PassFlows = {1, 2}
  MaxIds = 2
  XdpBackends = {"b1"}
  CtEntries = 1
  Cpus = {1}
  Caps = {1}
  RateWindow = 2
  XdpHorizon = 3
  FlowsMax = 2
  Lanes = {0, 1, 65534, 65535}
  Threads = {1, 2}
  Second = 2
  RefillPerSec = 1
  GateHorizon = 3
  MaxSetbacks = 1
  TableSize = 3
  Vnodes = 1
  RingSize = 4
  Flows5 = {"f", "g"}
  FlowSlots = 1
  MaxStarts = 2
  ForeignProg = 9
  Peers = {p1, p2}
INVARIANTS RouterSound TokensSound XdpSound
PROPERTIES GuardIsWindow XdpStepsAllowed DatapathEnds
\* Connections, boots and packets are bounded.
CHECK_DEADLOCK FALSE

SPECIFICATION Spec
CONSTANTS
  Peers = {p1, p2}
  Callers = {t1, t2}
  TcpConns = {c1, c2, c3, c4}
  TcpPerPeerMax = 1
  TcpTotalMax = 1
  QuicConns = {c1, c2, c3, c4, c5}
  QuicPerPeerMax = 1
  QuicTotalMax = 1
  QuicWrap = 8
  H2Conns = {c1, c2, c3, c4}
  H2Reqs = {t1, t2}
  Hosts = {p1}
  DnsCells = {c1, c2, c3, c4, c5}
  DnsCalls = {t1}
  Refresher = t3
  IdleLimit = 2
  HeadLimit = 3
  EndOfTime = 9
  Names = {"a", "b", "c"}
  CounterWidth = 2
  MaxLoad = 1
  Latencies = {0, 1}
INVARIANTS  PoolsAccounted AnswersFresh WeightsKept
PROPERTIES DecisionsHonest UpstreamEnds
CHECK_DEADLOCK FALSE

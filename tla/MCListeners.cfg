SPECIFICATION MCSpec
CONSTANTS
  c1 = c1 c2 = c2 c3 = c3 c4 = c4 p1 = p1 p2 = p2
  Sockets = {c1, c2, c3, c4}
  Peers = {p1, p2}
  PeerOf <- MCPeerOf
  ListenerCap = 3
  PerIpCap = 2
  Listeners = {l1}
  Conns = {c1, c2}
  Callers = {m, k}
  Legacy = {k}
  Main = m
  MaxInflight = 1
  Terminal = {TERM}
  Reloads = {HUP}
INVARIANTS CapsHold EntriesCollected ReportTrue SlotsExact
PROPERTIES DrainEnds
\* The process stops for good once it has exited.
CHECK_DEADLOCK FALSE

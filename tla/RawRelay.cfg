\* The actor ends with its connections.
SPECIFICATION FairSpec
CHECK_DEADLOCK FALSE
CONSTANTS
  b = b
  c = c
  Bidi = {b}
  ClientUni = {c}
  UpUni = {}
  Window = 1
  PeerWindow = 1
  MaxRelayStreams = 1
  MaxSend <- Budget
  MaxCredit = 1
INVARIANTS RelayBounded NothingLost
PROPERTIES HalvesArePipes FinishedArrives

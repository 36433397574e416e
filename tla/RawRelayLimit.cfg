\* The actor ends with its connections.
SPECIFICATION Spec
CHECK_DEADLOCK FALSE
CONSTANTS
  b = b
  c = c
  Bidi = {b}
  ClientUni = {c}
  UpUni = {}
  Window = 1
  PeerWindow = 1
  MaxRelayStreams = 1
  MaxSend <- Budget
  MaxCredit = 1
INVARIANT HalfEndsForCause

SPECIFICATION ControlSpec
CONSTANTS
  textA = textA textB = textB textC = textC bad = bad junk = junk l1 = l1 l2 = l2 None = None
  Texts = {textA, textB, textC, bad, junk}
  Toml = {textA, textB, textC, bad}
  Valid = {textA, textB, textC}
  Listeners = {l1, l2}
  Typed <- MCTyped
  Configs <- MCConfigs
  Edits <- MCEdits
  Callers = {t1, t2} Names = {n1} MaxAdds = 2
  Panicking = {t1, t2, t3} Cpus = {u1, u2} MaxPackets = 3 Tuples = {v1, v2, v3} Ceiling = 2
  Clients = {k1}
  TlsListeners <- MCTlsListeners
  Interval = 2 Overlap = 2 LastSecond = 3 LastPair = 2
INVARIANTS ReloadSafe ManagerTracksApplied Honest  ReportSound TlsSound
PROPERTY EditTakesEffect
CHECK_DEADLOCK FALSE

SPECIFICATION Spec
CONSTANTS
  N = 1
  MMs = {m1, m2}
  Parent = m1
  FtWorkers = {}
  BgWorkers = {bg}
  Cov = cov
  Ps = ps
  BatchPages = 1
  Order <- OrderHot
  Calls = {"cancel", "watch", "close"}
  FailPages = {0}
  MayFail = TRUE
INVARIANTS ExclusivePage RefsExact RetireQuiet 
CHECK_DEADLOCK FALSE

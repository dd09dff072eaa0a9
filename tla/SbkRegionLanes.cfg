SPECIFICATION Spec
CONSTANTS
  N = 2
  MMs = {m1}
  Parent = m1
  FtWorkers = {ft}
  BgWorkers = {bg}
  Cov = cov
  Ps = ps
  BatchPages = 2
  Order <- OrderHot
  Calls = {"stage", "cancel"}
  FailPages = {1}
  MayFail = FALSE
INVARIANT FreshPages
CHECK_DEADLOCK FALSE

SPECIFICATION FairSpec
CONSTANTS
  N = 1
  MMs = {m1, m2}
  Parent = m1
  FtWorkers = {}
  BgWorkers = {bg}
  Cov = cov
  Ps = ps
  BatchPages = 1
  Order <- OrderHot
  Calls = {"cancel"}
  FailPages = {}
  MayFail = FALSE
PROPERTIES Drains FaultReturns
CHECK_DEADLOCK FALSE

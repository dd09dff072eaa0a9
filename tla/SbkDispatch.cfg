SPECIFICATION FairSpec
CONSTANTS
  o1 = o1
  o2 = o2
  a1 = a1
  a2 = a2
  b1 = b1
  s1 = s1
  bg = bg
  ft = ft
  t1 = t1
  t2 = t2
  t3 = t3
  None = None
  Owners = {o1, o2}
  HotWorks = {b1}
  StackJobs = {s1}
  MaxQuanta = 1
  Works = {a1, b1}
  OwnerOf <- LiveOwnerOf
  Pools = {bg}
  PoolOf <- LivePoolOf
  Threads = {t1, t2}
  ThreadPool <- LiveThreadPool
INVARIANTS OnePlace NoUseAfterFree
PROPERTIES StopReturns WaitReturns
CHECK_DEADLOCK FALSE

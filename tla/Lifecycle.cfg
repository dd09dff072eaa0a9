SPECIFICATION FairSpec
CONSTANTS
  parent = parent  child = child  p1 = p1  b = b
  pf = pf  bg = bg  reader = reader
  None = None
  Contexts = {parent, child}
  Root = parent
  Pages = {p1}
  Spare = {b}
  Installers = {pf, bg}
  Demand = {pf}
  Reader = reader
  Threads = {pf, bg, reader}
  SB_GATE_WRITER = 4
  Batch = 1
  Calls = {"discard", "unmap", "remap", "fork", "exit"}
  MaxCalls = 2
INVARIANTS Exclusion ContentRight Settled
PROPERTIES FaultServed ReaderProgress
CHECK_DEADLOCK FALSE

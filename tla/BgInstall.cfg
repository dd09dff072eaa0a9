SPECIFICATION FairSpec
CONSTANTS
  p1 = p1  p2 = p2  p3 = p3
  w1 = w1  demand = demand
  None = None
  Pages = {p1, p2, p3}
  Faulting = {p1, p2}
  Workers = {w1}
  Demand = demand
  SB_BG_SLOTS = 2
  MaxBatch = 2
  AssistSlots = 1
INVARIANTS NoDie CommittedInstalled Pinned NoLostAssist
PROPERTIES WantedServed Finishes
CHECK_DEADLOCK FALSE

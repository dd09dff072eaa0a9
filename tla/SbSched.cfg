SPECIFICATION FairSpec
CONSTANTS
  p1 = p1
  p2 = p2
  feeder = feeder
  demand = demand
  c1 = c1
  c2 = c2
  Pages = {p1, p2}
  NoPage = NoPage
  Capacity = 2
  MaxGen = 2
  Requesters = {feeder, demand}
  Claimers = {c1}
  Submits <- MCSubmits
  Mask <- MCMask
INVARIANTS NoLostPage TransferredOnce CellExclusive
PROPERTIES Delivered ImplementsHandoff
CHECK_DEADLOCK FALSE

SPECIFICATION FairSpec
CONSTANTS
  r1 = r1
  r2 = r2
  r3 = r3
  r4 = r4
  s1 = s1
  s2 = s2
  Readers = {r1, r2, r3, r4}
  Slots = {s1}
  Count = 2
  None = None
INVARIANTS SlotExclusive DmaFenced
PROPERTIES FifoGrant Admitted
CHECK_DEADLOCK FALSE

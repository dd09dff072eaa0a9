SPECIFICATION Spec
CONSTANTS
  f1 = f1  f2 = f2  s1 = s1  s2 = s2
  Faults = {f1, f2}
  Servers = {s1, s2}
  None = None
INVARIANTS CompletesLive
CHECK_DEADLOCK FALSE

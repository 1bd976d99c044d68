CONSTANTS
  a = a
  b = b
  c = c
  x = x
  y = y
  Configs = {a, b, c}
  Render <- Shared
  Runtimes = {1, 2, 3}
  MaxRequests = 3
  MaxSignals = 2
  Faults = {}
  None = None
SPECIFICATION Spec
CHECK_DEADLOCK FALSE
INVARIANTS
  NeverAbandons

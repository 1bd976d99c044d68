SPECIFICATION Spec
CONSTANTS
  Callers = {c1}
  Closers = {k1}
  Expirers = {e1}
  Procs = {p1, p2, p3}
  Paths = {chrome}
  MaxConcurrency = 1
  MaxUses = 3
  NoProc = NoProc
  NoPath = NoPath
PROPERTY ExpiresByCurrentTimer

\* Liveness: one lease at a time, so that callers starve each other unless the
\* wake-ups and the deadlines work; no symmetry.
SPECIFICATION FairSpec
CONSTANTS
  Callers = {c1, c2}
  Closers = {k1}
  Expirers = {e1}
  Procs = {p1, p2, p3}
  Paths = {chrome}
  MaxConcurrency = 1
  MaxUses = 2
  NoProc = NoProc
  NoPath = NoPath
INVARIANTS
  NoLostWakeup
PROPERTIES
  CloseReturns
  CallsReturn
  IdleBrowserRetired

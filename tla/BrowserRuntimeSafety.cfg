\* Two borrowers at once on a browser good for three acquisitions, two executables,
\* a pending timer and two concurrent Close calls.
SPECIFICATION Spec
CONSTANTS
  Callers = {c1, c2}
  Closers = {k1, k2}
  Expirers = {e1}
  Procs = {p1, p2, p3, p4}
  Paths = {chrome, shell}
  MaxConcurrency = 2
  MaxUses = 3
  NoProc = NoProc
  NoPath = NoPath
SYMMETRY Symmetry
INVARIANTS
  IndInv
  OneNativeBrowser
  BorrowersKeepTheirBrowser
  ClosedMeansGone
PROPERTIES
  LendsOnlyHealthy
  ImplementsPool

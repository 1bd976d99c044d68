CONSTANTS
  a = a
  b = b
  p = p
  Callers = {a, b}
  Procs = {p}
  Home <- OneProcess
  Keys = {1, 2}
  TTL = 1
  NegTTL = 1
  MemoryMax = 1
  StaleIfError = TRUE
  MaxCalls = 1
  Faults = {"write", "prune", "restart"}
  Earlier = {2}
  NoKey = NoKey
SPECIFICATION FairSpec
CHECK_DEADLOCK FALSE
INVARIANTS
  IndInv
  NoWaitCycle
PROPERTIES
  CallsReturn
  VectorsComplete

CONSTANTS
  a = a
  p = p
  operator = operator
  Operators = {operator}
  Callers = {a}
  Procs = {p}
  Home <- OneCaller
  Keys = {1, 2}
  TTL = 1
  NegTTL = 1
  MaxEntries = 1
  MaxBytes = 2
  MemoryMax = 1
  StaleIfError = TRUE
  MaxCalls = 2
  Faults = {"write", "prune", "restart"}
  Earlier = {1}
  NoKey = NoKey
SPECIFICATION PruneSpec
CHECK_DEADLOCK FALSE
INVARIANT PruneInd
PROPERTIES
  PruneWithinPolicy
  OldOnlyIfError

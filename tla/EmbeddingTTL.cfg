CONSTANTS
  a = a
  b = b
  p = p
  Callers = {a}
  Procs = {p}
  Home <- OneCaller
  Keys = {1}
  TTL = 1
  NegTTL = 1
  MemoryMax = 1
  StaleIfError = TRUE
  MaxCalls = 2
  Faults = {}
  Earlier = {0}
  NoKey = NoKey
SPECIFICATION Spec
CHECK_DEADLOCK FALSE
PROPERTIES
  HitsHonorTTL

CONSTANTS
  r1 = r1
  r2 = r2
  r3 = r3
  Requests = {r1, r2}
  Kind <- BodiesPage
  Sizes = {2}
  MaxSent = 0
  MaxBytes = 2
  ResourceMaxBytes = 2
  MaxResources = 2
  MaxMessages = 1
  ReadyMin = 0
  Idle = 1
  StreamIdle = 1
  MinObservation = 1
  MaxWait = 1
  NoRequest = NoRequest
SPECIFICATION Spec
CHECK_DEADLOCK FALSE
INVARIANTS
  RetainedWithinBudget

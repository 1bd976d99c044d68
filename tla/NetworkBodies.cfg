CONSTANTS
  r1 = r1
  r2 = r2
  r3 = r3
  Requests = {r1, r2}
  Kind <- BodiesPage
  Sizes = {1, 2}
  MaxSent = 1
  MaxBytes = 3
  ResourceMaxBytes = 2
  MaxResources = 2
  MaxMessages = 1
  ReadyMin = 0
  Idle = 1
  StreamIdle = 1
  MinObservation = 1
  MaxWait = 1
  NoRequest = NoRequest
SPECIFICATION Spec
CHECK_DEADLOCK FALSE
INVARIANTS
  IndInv
  NotTruncatedIsWhole
  RetainedInd

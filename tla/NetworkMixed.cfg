CONSTANTS
  r1 = r1
  r2 = r2
  r3 = r3
  Requests = {r1, r2, r3}
  Kind <- MixedPage
  Sizes = {1}
  MaxSent = 2
  MaxBytes = 1
  ResourceMaxBytes = 1
  MaxResources = 2
  MaxMessages = 1
  ReadyMin = 0
  Idle = 1
  StreamIdle = 2
  MinObservation = 2
  MaxWait = 2
  NoRequest = NoRequest
SPECIFICATION FairSpec
CHECK_DEADLOCK FALSE
PROPERTIES
  StreamsKeepAlive
  RenderEnds

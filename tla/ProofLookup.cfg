\* A lookup beside two runs that save: only the part "stores" has these jobs.
CONSTANTS
  page0 = page0
  cat = cat
  md = md
  idx = idx
  doc1 = doc1
  doc2 = doc2
  x = x
  y = y
  r = r
  s = s
  Seed = page0
  Sources = {cat, md, idx}
  KindOf <- MCKindOf
  Declared <- MCDeclared
  Conventional <- MCConventional
  Priority <- MCPriority
  InSitemap <- MCInSitemap
  LinksOf <- MCLinksOf
  Batch = 2
  Sitemaps = 1
  MaxSegments = 3
  TinyLimit = 2
  StandardLimit = 3
  Processes = {1, 2, 3}
  Pages = {doc1, doc2}
  HostOf <- MCHostOf
  Jobs <- MCLookup
  NoPage = NoPage
  MaxFaults = 0
  Actors = {1, 2, 3}
  URLs = {x, y}
  RootsOf <- MCRootsOf
  Plans <- MCPlans
  MaxScore = 1
  MaxErrors = 1
  Loggers = {1, 2}
  MaxFiles = 2
  MaxSize = 2
  MaxEvents = 8
  MaxLogFaults = 1
  Runners = {1, 2}
  Seeds = {x}
  NoSeed = NoSeed
  MaxRuns = 2
  MaxLookups = 1
  MaxMissed = 1
  Readings <- MCReadings
  Size <- MCSize
  MaxInput = 2
  Model = Model
  Other = Other
  MemoEntries = 2
  Cooldown = 2
  Nobody = Nobody
SPECIFICATION LocalSpec
CHECK_DEADLOCK FALSE
INVARIANT NotFoundMeansAbsent

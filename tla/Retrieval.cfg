CONSTANTS
  site1 = site1
  site2 = site2
  a = a
  b = b
  c = c
  d = d
  x = x
  p1 = p1
  p2 = p2
  p3 = p3
  NoPage = NoPage
  Callers = {1, 2}
  Hosts = {site1, site2}
  MinGap = 2
  MaxJitter = 1
  Backoff = 1
  Timeout = 1
  LongTimeout = 2
  MaxHops = 1
  Links <- MCRedirects
  Inputs <- MCInputs
  Horizon = 5
  Urls = {a, b, c, d, x}
  HostOf <- MCHosts
  Finals <- MCFinals
  LinksOf <- MCLinks
  Seeds = {a, b, d}
  MaxPages = 3
  MaxDepth = 2
  SameDomain = TRUE
  Pages = {p1, p2, p3}
  Providers = {"duckduckgo", "brave"}
  LinkSets <- MCLinkSets
  FamilyOf <- MCFamilyOf
  Enough = 2
  EnoughFamilies = 2
  ProbeLimit = 2
  BrowserProbes = 1
  MaxCandidates = 2
  HasExtractor = TRUE
  Modes = {"off", "site", "web"}
  Starts <- MCStarts
  Memories <- MCMemories
  Stored <- MCStored
  d1 = d1
  d2 = d2
  Downloads = {d1, d2}
  Wanted <- MCWanted
  Origins = {site1, site2, x}
  Linked <- MCLinked
  MaxAssets = 2
  MaxBody = 2
  MaxTrouble = 1
  Renders = {1, 2}
  BrowserLimit = 2
  MaxLosses = 2
SPECIFICATION RetrievalSpec
CHECK_DEADLOCK FALSE
INVARIANTS
  AcquireInd
  CrawlInd
  QueryInd
  DownloadInd
  RenderInd
PROPERTIES
  PacedSends
  RetrievalEnds

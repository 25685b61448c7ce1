\* Two concurrent sends over two transports that honour timeoutMs; two
\* concurrent calls, or one history, of each of the other services.
CONSTANTS
  libp2p = libp2p
  http = http
  NoKind = NoKind
  Kinds = {libp2p, http}
  Senders = {s1, s2}
  Rank <- DefaultRank
  Patience <- Guarded
  Budgets = {0, 3}
  MaxTime = 4
  FailureThreshold = 2
  CooldownMs = 2
  Letters = {"*", "a", "b"}
  Segments = {"a", "b"}
  GlobLength = 3
  TokenScopes = {sc1}
  RootCaps <- CapSets
  Required <- Asked
  Ttls = {2}
  Depths = {0, 1}
  Skew = 1
  Verifications = {v1}
  NoToken = NoToken
  MaxTokens = 2
  MaxTokenTime = 3
  Paths = {f1, f2, f3}
  Loads = {s1, s2}
  MaxEdits = 2
  CacheMaxBytes = 3
  SizeOf <- Sizes
  Reviews = {s1, s2}
  CooldownHours = 1
  GenerationCap = 1
  QueryLimit = 2
  SamplesMin = 2
  HoldoutPct = 20
  ThresholdPct = 80
  MaxObserved = 3
  MaxSamples = 3
  MaxHours = 2
  MaxReviews = 2
  PluginCalls = {s1, s2}
  Versions = {"v1", "v2"}
  MaxRestarts = 1
  MaxRuns = 4
  Messages = {"x", "y"}
  Appenders = {s1, s2}
  VerifyLimit = 3
  MaxEntries = 5
  PluginNames = {n1, n2}
  MarketCalls = {s1, s2}
  MaxStores = 3
  Early <- TwoParts
  Requests = {s1, s2}
  Sessions = {w1}
  MaxInits = 2
  MaxServers = 2
SPECIFICATION MCSpec
SYMMETRY Symmetry
INVARIANTS  ProbeAccounting 
  MethodGlobsExact CacheAccounted 
    ChainTellsTheSession TrailTellsTheShelf
  
PROPERTIES BreakerTurns 
CHECK_DEADLOCK FALSE

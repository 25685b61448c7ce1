\* Two overlapping calls, two sandboxes; two starts of the distillers of two
\* processes, two promotions.
CONSTANTS
  c1 = c1
  c2 = c2
  b1 = b1
  b2 = b2
  NoBox = NoBox
  Callers = {c1, c2}
  Boxes = {b1, b2}
  MaxCrashes = 2
  CrashBound = 2
  w1 = w1
  w2 = w2
  Memories = {m1, m2}
  Extractions <- NothingOrAll
  InitialTier <- AllEpisodic
  Workers = {w1, w2}
  Loops = {l1, l2}
  BatchSize = 1
  IdleStopRuns = 2
  MaxChat = 2
  MaxStarts = 2
  MaxPromotions = 2
SPECIFICATION MCSpec
INVARIANTS ProcessesAccounted CleanWithoutInterference MemoriesDistilled
PROPERTIES DisablesOnlyOffenders CallsEnd DistillsWhatItFinds
CHECK_DEADLOCK FALSE

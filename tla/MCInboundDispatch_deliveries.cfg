\* Three requests, each delivered any number of times, two at a time; the
\* caches are smaller than the set of requests.
CONSTANTS
  r1 = r1
  r2 = r2
  r3 = r3
  NoId = NoId
  NoEntry = NoEntry
  Ids = {r1, r2, r3}
  Deliveries = {d1, d2}
  Status <- Statuses
  Deadline <- Deadlines
  HandlerAnswers = {"ok", "error"}
  HttpMaxEntries = 1
  CrossMaxEntries = 2
  MaxTime = 3
  Calls = {r1}
  MaxRetries = 1
  AttemptTimeout = 1
  Delays = {0, 2}
SPECIFICATION MCSpec
SYMMETRY Symmetry
INVARIANTS  CallsEndInTime
PROPERTIES ForgetsOnlyUnderPressure 
CHECK_DEADLOCK FALSE

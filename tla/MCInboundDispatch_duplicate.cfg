\* A duplicate overtakes the answer.
CONSTANTS
  r1 = r1
  r2 = r2
  r3 = r3
  NoId = NoId
  NoEntry = NoEntry
  Ids = {r1, r2}
  Deliveries = {d1, d2}
  Status <- Statuses
  Deadline <- Deadlines
  HandlerAnswers = {"ok"}
  HttpMaxEntries = 2
  CrossMaxEntries = 2
  MaxTime = 2
  Calls = {r1}
  MaxRetries = 1
  AttemptTimeout = 1
  Delays = {0, 2}
SPECIFICATION MCSpec
PROPERTIES HandlerOnce
CHECK_DEADLOCK FALSE

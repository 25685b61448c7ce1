\* Three overlapping calls on a transport of either kind; the bootstrap
\* attempts of two addresses, stopped and scheduled again.
CONSTANTS
  c1 = c1
  c2 = c2
  c3 = c3
  s1 = s1
  s2 = s2
  s3 = s3
  NoServer = NoServer
  Kinds = {"http", "libp2p"}
  Callers = {c1, c2, c3}
  Servers = {s1, s2, s3}
  Peers = {p1}
  Addresses = {m1, m2}
  MaxAsked = 2
SPECIFICATION MCSpec
INVARIANTS OneServerRuns ChainsOfAttempts
PROPERTIES CallsEnd AttemptsUntilStopped
CHECK_DEADLOCK FALSE

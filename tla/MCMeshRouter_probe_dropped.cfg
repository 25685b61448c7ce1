\* A call that ends early keeps the probes of the candidates it never reached.
CONSTANTS
  libp2p = libp2p
  http = http
  NoKind = NoKind
  Kinds = {libp2p, http}
  Senders = {s1, s2}
  Rank <- DefaultRank
  Patience <- AsBuilt
  Budgets = {2}
  MaxTime = 4
  FailureThreshold = 1
  CooldownMs = 1
SPECIFICATION Spec
INVARIANT HalfOpenHasItsProbe
CHECK_DEADLOCK FALSE

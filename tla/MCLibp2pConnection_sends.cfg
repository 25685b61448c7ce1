\* Two overlapping sends over one connection that may be lost and dialled again.
CONSTANTS
  s1 = s1
  s2 = s2
  k1 = k1
  NoSend = NoSend
  NoConn = NoConn
  Sends = {s1, s2}
  Conns = {k1}
  MaxAttempts = 2
  InitiatorVerifier = "any"
  ResponderVerifier = "any"
SPECIFICATION FairSpec
INVARIANTS RequestsVouchedFor MisreadOnlyWhenContended
 
CHECK_DEADLOCK FALSE

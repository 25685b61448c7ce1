\* The verifier and the signer of the local node.
CONSTANTS
  s1 = s1
  s2 = s2
  k1 = k1
  k2 = k2
  NoSend = NoSend
  NoConn = NoConn
  Sends = {s1}
  Conns = {k1}
  MaxAttempts = 2
  InitiatorVerifier = "ed25519"
  ResponderVerifier = "ed25519"
SPECIFICATION Spec

INVARIANTS HonestPeersAreAccepted
CHECK_DEADLOCK FALSE

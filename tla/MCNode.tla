-------------------------------- MODULE MCNode --------------------------------
(***************************************************************************)
(* What a node starts and stops: a behaviour is one of TransportLifecycle  *)
(* or of PeerDiscovery.  No action that is fair is enabled at first, so    *)
(* the fairness of one says nothing of the other's behaviours.             *)
(***************************************************************************)
EXTENDS TransportLifecycle, PeerDiscovery

VARIABLE focus

Rest(x) ==
  /\ focus = x /\ UNCHANGED focus
  /\ x # "transport" => UNCHANGED vars
  /\ x # "discovery" => UNCHANGED discVars

MCInit ==
  /\ Init /\ DiscInit
  /\ focus \in {"transport", "discovery"}
  /\ focus # "transport" => kind = CHOOSE k \in Kinds : TRUE

MCNext ==
  \/ Rest("transport") /\ Next
  \/ Rest("discovery") /\ DiscNext

MCSpec ==
  /\ MCInit /\ [][MCNext]_<<vars, discVars, focus>>
  /\ Fairness /\ DiscFairness
=============================================================================

-------------------------- MODULE MCInboundDispatch --------------------------
(***************************************************************************)
(* Small instances of InboundDispatch and MeshRpc.  A behaviour of MCSpec  *)
(* is one of either: deliveries of several requests from anywhere, or one  *)
(* call of a client with all its tries.                                    *)
(***************************************************************************)
EXTENDS MeshRpc, TLC

CONSTANTS r1, r2, r3

(* The first request, the one that is called, has the later deadline.      *)
Deadlines == [id \in Ids |-> IF id = r1 THEN 2 ELSE 1]

Statuses == {"ok", "denied", "error", "timeout"}

(* Deliveries are interchangeable, and so are requests of one deadline.    *)
Symmetry == Permutations(Deliveries) \union Permutations(Ids \ {r1})
-----------------------------------------------------------------------------
VARIABLE focus

(* Bounds of the deliveries: only the first deadlines may pass, the        *)
(* application's answer is always the same, and only the first request is  *)
(* both refused and answered.                                              *)
WithinBounds ==
  /\ now' <= 1
  /\ \A id \in Ids : settled'[id] \subseteq {"denied", CHOOSE a \in HandlerAnswers : TRUE}
  /\ \A id \in Ids : id # r1 => Cardinality(settled'[id]) <= 1

MCInit == RpcInit /\ focus \in {"deliveries", "call"}

MCNext ==
  \/ focus = "deliveries" /\ Next /\ WithinBounds /\ UNCHANGED <<rpcVars, focus>>
  \/ focus = "call" /\ RpcNext /\ UNCHANGED focus

MCSpec == MCInit /\ [][MCNext]_<<allVars, focus>>
=============================================================================

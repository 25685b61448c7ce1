---------------------------- MODULE RequestReply ----------------------------
(***************************************************************************)
(* What a caller may rely on when it sends a request through the mesh, in  *)
(* the terms of packages/mesh-transport-core/src/types.ts: whatever is     *)
(* lost, repeated or answered from a cache on the way, the call gets one   *)
(* response; a response "ok" or "error" was given to this very request     *)
(* after its handler had begun to run.  The handler may run more than once *)
(* and after the caller has been told "timeout".                           *)
(***************************************************************************)
CONSTANTS Ids, Calls, Status, NoEntry

VARIABLES
  ran,      (* the requests whose handler has begun                        *)
  given,    (* given[id]: the responses the node has settled for id        *)
  result    (* result[c]: what the call returned                           *)

vars == <<ran, given, result>>

Init ==
  /\ ran = {}
  /\ given = [id \in Ids |-> {}]
  /\ result = [c \in Calls |-> NoEntry]

Run(id) ==
  /\ ran' = ran \union {id}
  /\ UNCHANGED <<given, result>>

(* Anything but a denial takes a handler. *)
Give(id, response) ==
  /\ response = "denied" \/ id \in ran
  /\ given' = [given EXCEPT ![id] = @ \union {response}]
  /\ UNCHANGED <<ran, result>>

Return(c, response) ==
  /\ result[c] = NoEntry
  /\ response \in given[c] \union {"denied", "timeout"}
  /\ result' = [result EXCEPT ![c] = response]
  /\ UNCHANGED <<ran, given>>

Next ==
  \/ \E id \in Ids : Run(id)
  \/ \E id \in Ids, response \in Status : Give(id, response)
  \/ \E c \in Calls, response \in Status : Return(c, response)

Spec == Init /\ [][Next]_vars
=============================================================================

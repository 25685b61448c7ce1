---------------------------- MODULE MCMeshRouter ----------------------------
(* Small instances of MeshRouter: the two transports a node registers, in  *)
(* the default priority order libp2p, http.                                *)
EXTENDS MeshRouter, TLC

CONSTANTS libp2p, http

DefaultRank == [k \in Kinds |-> IF k = libp2p THEN 0 ELSE 1]

(* Every transport honours timeoutMs. *)
Guarded == [k \in Kinds |-> "attempt"]

(* What the two real transports do with timeoutMs; libp2p's dial and http's *)
(* retries are bounded by the deadline of the request only.                 *)
ByRequest == [k \in Kinds |-> "request"]

(* libp2p's handshake has no timer at all. *)
AsBuilt == [k \in Kinds |-> IF k = libp2p THEN "unbounded" ELSE "request"]

Symmetry == Permutations(Senders)
=============================================================================

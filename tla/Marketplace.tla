------------------------------ MODULE Marketplace ------------------------------
(***************************************************************************)
(* The local plugins of the marketplace and their audit trail:             *)
(* MarketplaceCrud (packages/marketplace-core/src/crud.ts) and             *)
(* MarketplaceManager.import (manager.ts).  Every call awaits the store,   *)
(* then the store again, then the audit writer; several calls of one       *)
(* process interleave at the awaits, and each of them may fail.            *)
(***************************************************************************)
EXTENDS Naturals, Sequences

CONSTANTS
  PluginNames,
  MarketCalls,
  MaxStores  (* bound of the model: calls that wrote the store             *)

ASSUME StoresCounted == MaxStores \in Nat

VARIABLES
  shelf,     (* shelf[n]: content of n in the store, 0 without one         *)
  market,    (* market[m]: the call m                                      *)
  trail,     (* trail[n]: content the last audit event of n tells          *)
  contents,  (* contents made so far                                       *)
  collided,  (* history: names two calls in progress both wrote            *)
  unaudited  (* history: names written by a call whose audit failed        *)

marketVars == <<shelf, market, trail, contents, collided, unaudited>>

NoMarketCall == [op |-> "none", name |-> "none", at |-> "idle", content |-> 0]
InProgress(n) == {m \in MarketCalls : market[m].name = n}

MarketInit ==
  /\ shelf = [n \in PluginNames |-> 0] /\ trail = [n \in PluginNames |-> 0]
  /\ market = [m \in MarketCalls |-> NoMarketCall]
  /\ contents = 0
  /\ collided = {} /\ unaudited = {}

(* A call under way as another of the same name begins may be collided.    *)
CallBegins(m, op, n) ==
  /\ market[m] = NoMarketCall
  /\ LET first == IF op = "fork" THEN "source" ELSE "look"
     IN  market' = [market EXCEPT ![m] = [op |-> op, name |-> n, at |-> first, content |-> 0]]
  /\ collided' = IF InProgress(n) # {} THEN collided \union {n} ELSE collided
  /\ UNCHANGED <<shelf, trail, contents, unaudited>>

MayGoOn(op, n) ==
  CASE op \in {"create", "fork"} -> shelf[n] = 0
    [] op \in {"update", "delete"} -> shelf[n] # 0
    [] op = "import" -> TRUE

LooksAtSource(m) ==
  /\ market[m].at = "source"
  /\ \E n \in PluginNames \ {market[m].name} : shelf[n] # 0
  /\ market' = [market EXCEPT ![m].at = "look"]
  /\ UNCHANGED <<shelf, trail, contents, collided, unaudited>>

(* import normalizes its input instead of looking. *)
LooksAtTarget(m) ==
  /\ market[m].at = "look"
  /\ MayGoOn(market[m].op, market[m].name)
  /\ market' = [market EXCEPT ![m].at = "write"]
  /\ UNCHANGED <<shelf, trail, contents, collided, unaudited>>

StoresPlugin(m) ==
  /\ market[m].at = "write" /\ contents < MaxStores
  /\ contents' = contents + 1
  /\ LET content == IF market[m].op = "delete" THEN 0 ELSE contents'
     IN  /\ shelf' = [shelf EXCEPT ![market[m].name] = content]
         /\ market' = [market EXCEPT ![m].at = "audit", ![m].content = content]
  /\ UNCHANGED <<trail, collided, unaudited>>

CallEnds(m) == market' = [market EXCEPT ![m] = NoMarketCall]

(* Mutant: a deletion leaves no event.                                     *)
AuditsButDeletes(m) ==
  /\ market[m].at = "audit"
  /\ trail' = IF market[m].op = "delete" THEN trail
              ELSE [trail EXCEPT ![market[m].name] = market[m].content]
  /\ unaudited' = unaudited \ {market[m].name}
  /\ CallEnds(m)
  /\ UNCHANGED <<shelf, contents, collided>>

Audits(m) ==
  /\ market[m].at = "audit"
  /\ trail' = [trail EXCEPT ![market[m].name] = market[m].content]
  /\ unaudited' = unaudited \ {market[m].name}
  /\ CallEnds(m)
  /\ UNCHANGED <<shelf, contents, collided>>

(* Not found, exists already, not valid, or the store fails: the call      *)
(* throws; an import writes an event of its failure, which tells nothing   *)
(* of the plugin, and answers that it failed.                              *)
CallThrows(m) ==
  /\ market[m].at \in {"source", "look", "write"}
  /\ CallEnds(m)
  /\ UNCHANGED <<shelf, trail, contents, collided, unaudited>>

(* The audit writer fails when the store has been written. *)
AuditFails(m) ==
  /\ market[m].at = "audit"
  /\ unaudited' = unaudited \union {market[m].name}
  /\ CallEnds(m)
  /\ UNCHANGED <<shelf, trail, contents, collided>>

MarketNext ==
  \E m \in MarketCalls :
    \/ \E op \in {"create", "update", "delete", "fork", "import"}, n \in PluginNames :
         CallBegins(m, op, n)
    \/ LooksAtSource(m) \/ LooksAtTarget(m) \/ StoresPlugin(m)
    \/ Audits(m) \/ CallThrows(m) \/ AuditFails(m)

MarketSpec == MarketInit /\ [][MarketNext]_marketVars
-----------------------------------------------------------------------------
MarketTypeOK ==
  /\ shelf \in [PluginNames -> 0 .. MaxStores] /\ trail \in [PluginNames -> 0 .. MaxStores]
  /\ \A m \in MarketCalls : market[m].at \in {"idle", "source", "look", "write", "audit"}
  /\ \A m \in MarketCalls : market[m].at = "idle" => market[m] = NoMarketCall
  /\ contents \in 0 .. MaxStores

(* With no call of it in progress, the last audit event about a plugin     *)
(* tells what the store holds of it, unless its last event failed to be    *)
(* written or two calls on it overlapped.                                  *)
TrailTellsTheShelf ==
  /\ MarketTypeOK
  /\ \A n \in PluginNames : InProgress(n) = {} =>
          (trail[n] = shelf[n] \/ n \in collided \union unaudited)

=============================================================================

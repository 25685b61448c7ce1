------------------------------ MODULE LruCache ------------------------------
(***************************************************************************)
(* The bounded response cache that packages/mesh-router/src/dedup.ts       *)
(* (CrossTransportDedup) and packages/mesh-transport-http/src/             *)
(* dedup-cache.ts (DedupCache) both implement on a JavaScript Map, whose   *)
(* keys iterate in insertion order: re-inserting a key makes it the        *)
(* newest.  Its methods are synchronous, so each is an operator from a     *)
(* cache to a cache.                                                       *)
(***************************************************************************)
EXTENDS Integers, SequencesExt

CONSTANTS
  Ids,      (* the request ids a cache is asked about                      *)
  Status,   (* the responses it holds, told apart by their status          *)
  NoEntry

ASSUME CacheParameters ==
  /\ IsFiniteSet(Ids)
  /\ NoEntry \notin Status

(* order: the keys of the map, oldest first; resp and expiresAt: its values. *)
Cache ==
  [order : Seq(Ids),
   resp : [Ids -> Status \union {NoEntry}],
   expiresAt : [Ids -> Nat]]

EmptyCache ==
  [order |-> <<>>, resp |-> [id \in Ids |-> NoEntry], expiresAt |-> [id \in Ids |-> 0]]

Keys(c) == {id \in Ids : c.resp[id] # NoEntry}

Hit(c, id, now) == c.resp[id] # NoEntry /\ now < c.expiresAt[id]

Without(s, id) ==
  IF id \in ToSet(s) THEN RemoveAt(s, CHOOSE i \in DOMAIN s : s[i] = id) ELSE s

Delete(c, id) ==
  [order |-> Without(c.order, id),
   resp |-> [c.resp EXCEPT ![id] = NoEntry],
   expiresAt |-> [c.expiresAt EXCEPT ![id] = 0]]

GetNoRefresh(c, id, now) ==             \* mutant: a hit does not make its key the newest
  IF c.resp[id] = NoEntry \/ Hit(c, id, now) THEN c ELSE Delete(c, id)

Refresh(c, id) == [c EXCEPT !.order = Append(Without(c.order, id), id)]

(* The effect of get: a hit makes its key the newest, an expired entry is  *)
(* dropped.                                                                *)
Get(c, id, now) ==
  CASE c.resp[id] = NoEntry -> c
    [] Hit(c, id, now)      -> Refresh(c, id)
    [] OTHER                -> Delete(c, id)

(* set adds at most one key to a cache that held no more than maxEntries,  *)
(* so its eviction loop runs at most once.                                 *)
Evict(c, maxEntries) ==
  IF Cardinality(Keys(c)) > maxEntries THEN Delete(c, Head(c.order)) ELSE c

Put(c, id, resp, expiry) ==
  [order |-> Append(Without(c.order, id), id),
   resp |-> [c.resp EXCEPT ![id] = resp],
   expiresAt |-> [c.expiresAt EXCEPT ![id] = expiry]]

Set(c, id, resp, ttl, now, maxEntries) ==
  Evict(Put(c, id, resp, now + (IF ttl > 0 THEN ttl ELSE 0)), maxEntries)

(* The map and its order agree and the bound holds. *)
Coherent(c, maxEntries) ==
  /\ ToSet(c.order) = Keys(c)
  /\ IsInjective(c.order)
  /\ Len(c.order) <= maxEntries
=============================================================================

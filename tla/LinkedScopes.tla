----------------------------- MODULE LinkedScopes -----------------------------
(***************************************************************************)
(* The links of a scope to remote ones, the queries that go out over them  *)
(* and the detachment that ends them: ScopeLinkStore                       *)
(* (packages/scope-link/src/store.ts), MeshRouter.query                    *)
(* (packages/mesh-routing/src/router.ts) and DetachExecutor                *)
(* (packages/detach/src/executor.ts), over the store of Workspaces.        *)
(*                                                                         *)
(* links is the table in the order of its rows.  list returns its first    *)
(* rows only, the revoked ones with the others unless a status is asked.   *)
(***************************************************************************)
EXTENDS Workspaces

CONSTANTS
  Local,      (* the scope this store is about                             *)
  Remotes,
  ListLimit,  (* default limit of list                                     *)
  MaxLinks    (* bound: rows ever created                                  *)

ASSUME LinkParameters == Local \in Scopes /\ ListLimit \in Nat /\ MaxLinks \in Nat

VARIABLES
  links,         (* rows: remote, direction, status                        *)
  made,          (* rows ever created                                      *)
  linking,       (* linking[p]: an updateStatus between SELECT, UPDATE     *)
  detaching,     (* the detachment in progress, and the keys it revokes    *)
  query,         (* the query in progress                                  *)
  crossedLinks,  (* history: updates of links raced                        *)
  bound,         (* history: rows not revoked as the detachment began      *)
  beyond,        (* history: ... and whether rows exceeded the limit       *)
  escaped        (* history: links a completed detachment left             *)

linkVars == <<links, made, linking, detaching, query, crossedLinks, bound, beyond, escaped>>
scopeVars == <<wsVars, linkVars>>

Directions == {"outbound", "inbound"}
LegalTransitions == [s \in {"pending", "active", "revoked"} |->
  CASE s = "pending" -> {"active", "revoked"} [] s = "active" -> {"revoked"} [] s = "revoked" -> {}]

Key(row) == <<row.remote, row.direction>>
Rows == {links[i] : i \in DOMAIN links}
RowOf(key) == CHOOSE row \in Rows : Key(row) = key
Has(key) == \E row \in Rows : Key(row) = key
Listed == {i \in DOMAIN links : i <= ListLimit}
Setting(key, status) ==
  links' = [i \in DOMAIN links |->
              IF Key(links[i]) = key THEN [links[i] EXCEPT !.status = status] ELSE links[i]]

NotLinking == [key |-> <<"none", "none">>, status |-> "none", stale |-> FALSE]
NotDetaching == [by |-> "none", at |-> "idle", todo |-> << >>]
NoQuery == [at |-> "idle", targets |-> {}, asked |-> 0, succeeded |-> 0, linked |-> 0]

LinkInit ==
  /\ links = << >> /\ made = 0
  /\ linking = [p \in Writers |-> NotLinking]
  /\ detaching = NotDetaching
  /\ query = NoQuery
  /\ crossedLinks = FALSE
  /\ bound = {} /\ beyond = FALSE /\ escaped = {}
-----------------------------------------------------------------------------
Others(key) == [p \in Writers |->
  IF linking[p].key = key THEN [linking[p] EXCEPT !.stale = TRUE] ELSE linking[p]]

(* A row for each remote and direction; any status may be asked for.       *)
CreateLink ==
  /\ made < MaxLinks
  /\ \E remote \in Remotes, direction \in Directions, status \in {"pending", "active"} :
       /\ ~ Has(<<remote, direction>>)
       /\ links' = Append(links, [remote |-> remote, direction |-> direction, status |-> status])
  /\ made' = made + 1
  /\ escaped' = {}
  /\ UNCHANGED <<linking, detaching, query, crossedLinks, bound, beyond>>

RemoveLink ==
  /\ \E i \in DOMAIN links :
       /\ links' = SubSeq(links, 1, i - 1) \o SubSeq(links, i + 1, Len(links))
       /\ linking' = Others(Key(links[i]))
       /\ bound' = bound \ {Key(links[i])}
       /\ escaped' = escaped \ {Key(links[i])}
  /\ UNCHANGED <<made, detaching, query, crossedLinks, beyond>>

UpdateReads(p) ==
  /\ linking[p] = NotLinking /\ detaching.by # p
  /\ \E row \in Rows : \E status \in LegalTransitions[row.status] :
       linking' = [linking EXCEPT ![p] = [key |-> Key(row), status |-> status, stale |-> FALSE]]
  /\ UNCHANGED <<links, made, detaching, query, crossedLinks, bound, beyond, escaped>>

UpdateWrites(p) ==
  /\ linking[p] # NotLinking
  /\ Setting(linking[p].key, linking[p].status)
  /\ crossedLinks' = (crossedLinks \/ linking[p].stale)
  /\ linking' = [Others(linking[p].key) EXCEPT ![p] = NotLinking]
  /\ UNCHANGED <<made, detaching, query, bound, beyond, escaped>>
-----------------------------------------------------------------------------
Bound(row) == row.status # "revoked"

(* Full detachment: the links that list returns, one after the other, as   *)
(* updateStatus does it.                                                   *)
DetachBegins(p) ==
  /\ detaching = NotDetaching /\ linking[p] = NotLinking
  /\ detaching' = [by |-> p, at |-> "links",
                   todo |-> [i \in {j \in Listed : Bound(links[j])} |-> Key(links[i])]]
  /\ bound' = {Key(row) : row \in {r \in Rows : r.status # "revoked"}}
  /\ beyond' = (Len(links) > ListLimit)
  /\ escaped' = {}
  /\ UNCHANGED <<links, made, linking, query, crossedLinks>>

(* Another process may have revoked or removed the row: updateStatus       *)
(* throws, and the detachment stops where it is.                           *)
DetachRevokes ==
  /\ \E i \in DOMAIN detaching.todo :
       /\ \A j \in DOMAIN detaching.todo : i <= j
       /\ LET key == detaching.todo[i]
          IN  IF Has(key) /\ Bound(RowOf(key))
                THEN /\ Setting(key, "revoked")
                     /\ linking' = Others(key)
                     /\ detaching' = [detaching EXCEPT !.todo = [j \in DOMAIN @ \ {i} |-> @[j]]]
                ELSE detaching' = NotDetaching /\ UNCHANGED <<links, linking>>
  /\ UNCHANGED <<made, query, crossedLinks, bound, beyond, escaped>>

(* Then the workspaces it owns go, and the files of .orqenix.              *)
DetachEnds ==
  /\ detaching.at = "links" /\ DOMAIN detaching.todo = {}
  /\ IF owner = Local /\ members[Local] # "none"
       THEN DeletedWorkspace /\ writer' = OldReads /\ UNCHANGED <<writes, raced>>
       ELSE UNCHANGED wsVars
  /\ detaching' = NotDetaching
  /\ escaped' = {key \in bound : Has(key) /\ RowOf(key).status # "revoked"}
  /\ UNCHANGED <<links, made, linking, query, crossedLinks, bound, beyond>>

(* unlink-remote revokes the links with one remote, in the same way.       *)
UnlinkBegins(p) ==
  /\ detaching = NotDetaching /\ linking[p] = NotLinking
  /\ \E remote \in Remotes :
       LET unlinked == {j \in Listed : Bound(links[j]) /\ links[j].remote = remote}
       IN  detaching' = [by |-> p, at |-> "remote", todo |-> [i \in unlinked |-> Key(links[i])]]
  /\ UNCHANGED <<links, made, linking, query, crossedLinks, bound, beyond, escaped>>

UnlinkEnds ==
  /\ detaching.at = "remote" /\ DOMAIN detaching.todo = {}
  /\ detaching' = NotDetaching
  /\ UNCHANGED <<links, made, linking, query, crossedLinks, bound, beyond, escaped>>
-----------------------------------------------------------------------------
(* A query awaits its preRecall hooks before it looks at the links.        *)
QueryBegins ==
  /\ query.at \in {"idle", "done"}
  /\ query' = [NoQuery EXCEPT !.at = "hooks"]
  /\ UNCHANGED <<links, made, linking, detaching, crossedLinks, bound, beyond, escaped>>

Outbound(row) == row.status = "active" /\ row.direction = "outbound"

(* Those among the first i rows, and the first of all that list returns.   *)
OutboundIn(i) == {j \in 1 .. i : Outbound(links[j])}
OutboundListed == {i \in OutboundIn(Len(links)) : Cardinality(OutboundIn(i)) <= ListLimit}

ResolveTargets ==
  /\ query.at = "hooks"
  /\ LET targets == {links[i].remote : i \in OutboundListed}
     IN  query' = [at |-> "asking", targets |-> targets, asked |-> Cardinality(targets),
                   succeeded |-> 0, linked |-> Cardinality(OutboundIn(Len(links)))]
  /\ UNCHANGED <<links, made, linking, detaching, crossedLinks, bound, beyond, escaped>>

(* A scope answers; one that fails or rejects counts as a failure.         *)
ScopeSettles ==
  /\ query.at = "asking"
  /\ \E s \in query.targets, ok \in {0, 1} :
       query' = [query EXCEPT !.targets = @ \ {s}, !.succeeded = @ + ok]
  /\ UNCHANGED <<links, made, linking, detaching, crossedLinks, bound, beyond, escaped>>

(* Mutant: half of the scopes, rounded down: one that fails alone is a     *)
(* quorum.                                                                 *)
QuorumReachedFloor == query.asked > 0 /\ query.succeeded >= query.asked \div 2

(* scopesSucceeded >= Math.ceil(targets.length / 2); none for no targets.  *)
QuorumReached == query.asked > 0 /\ query.succeeded >= (query.asked + 1) \div 2

QueryEnds ==
  /\ query.at = "asking" /\ query.targets = {}
  /\ query' = [query EXCEPT !.at = IF QuorumReached THEN "quorum" ELSE "done"]
  /\ UNCHANGED <<links, made, linking, detaching, crossedLinks, bound, beyond, escaped>>

QueryForgotten ==
  /\ query.at = "quorum"
  /\ query' = NoQuery
  /\ UNCHANGED <<links, made, linking, detaching, crossedLinks, bound, beyond, escaped>>

LinkStep ==
  \/ CreateLink \/ RemoveLink
  \/ \E p \in Writers : UpdateReads(p) \/ UpdateWrites(p) \/ DetachBegins(p) \/ UnlinkBegins(p)
  \/ DetachRevokes \/ UnlinkEnds
  \/ QueryBegins \/ ResolveTargets \/ ScopeSettles \/ QueryEnds \/ QueryForgotten

ScopesNext ==
  \/ WsNext /\ UNCHANGED linkVars
  \/ LinkStep /\ UNCHANGED wsVars
  \/ DetachEnds

ScopesSpec == WsInit /\ LinkInit /\ [][ScopesNext]_scopeVars
-----------------------------------------------------------------------------
LinkTypeOK ==
  /\ \A row \in Rows : row.remote \in Remotes /\ row.direction \in Directions
                       /\ row.status \in DOMAIN LegalTransitions
  /\ \A i, j \in DOMAIN links : Key(links[i]) = Key(links[j]) => i = j
  /\ made \in 0 .. MaxLinks
  /\ detaching.at \in {"idle", "links", "remote"}
  /\ query.at \in {"idle", "hooks", "asking", "quorum", "done"}

(* A full detachment that ends without an error leaves none of the links   *)
(* it found bound, unless the table holds more rows than list returns or   *)
(* another process wrote one meanwhile from what it had read before.       *)
DetachedCompletely == escaped # {} => (beyond \/ crossedLinks)

(* When a query reports a quorum, at least half of the scopes that were    *)
(* linked when its hooks had run have answered, unless there were more     *)
(* links than list returns.                                                *)
QuorumIsOfAllLinks ==
  query.at = "quorum" => (2 * query.succeeded >= query.linked \/ query.linked > ListLimit)

(* A detachment that reports success has left no link, and a quorum is     *)
(* one of all links, whatever else is written meanwhile.                   *)
LinksAccounted == LinkTypeOK /\ DetachedCompletely /\ QuorumIsOfAllLinks
=============================================================================

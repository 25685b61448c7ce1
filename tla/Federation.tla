------------------------------ MODULE Federation ------------------------------
(***************************************************************************)
(* Queries across projects, and the approvals they need: the engine        *)
(* (packages/local-memory-federation/src/federation-engine.ts), the        *)
(* PermissionChecker and its cache of the approvals file                   *)
(* (permission-checker.ts) and the cache of results (cache-layer.ts).      *)
(*                                                                         *)
(* An approval is the source project it lets the current project query.    *)
(* A process holds one checker and one engine; the file is shared.  Every  *)
(* task loads the approvals first, from the checker's cache or the file,   *)
(* and awaits the read; a grant or a revocation then truncates and writes  *)
(* the file.  One query is asked, so that the cache holds one result.      *)
(***************************************************************************)
EXTENDS Integers, FiniteSets

CONSTANTS
  Projects,             (* the other projects, federation-enabled          *)
  Processes,
  Tasks,
  PermissionTtl,        (* CACHE_TTL_MS of the checker                     *)
  ResultTtl,            (* ttlMs of the cache layer                        *)
  MaxFedTime, MaxTasks  (* bounds of the model                             *)

ASSUME FederationParameters ==
  /\ {PermissionTtl, ResultTtl, MaxFedTime, MaxTasks} \subseteq Nat
  /\ "torn" \notin Projects

VARIABLES
  approvalsFile,  (* the approvals, or TornFile while it is written        *)
  approvals,      (* approvals[p]: cachedApprovals, and cacheLoadedAt      *)
  results,        (* results[p]: the projects of the cached result         *)
  task,           (* what each task does, and what it holds                *)
  fedNow, tasksBegun,
  served,         (* history: the last answer of a query                   *)
  lastIn,         (* history: when an approval was last in the file        *)
  revoked,        (* history: approvals whose revocation returned          *)
  mingled         (* history: a task ran beside another, or another        *)
                  (* process had written the file                          *)

fedVars == <<approvalsFile, approvals, results, task, fedNow, tasksBegun,
             served, lastIn, revoked, mingled>>

TornFile == {"torn"}
Never == 0 - (ResultTtl + PermissionTtl + 1)
NotCached == [at |-> Never, list |-> {}]
NoTask == [at |-> "idle", process |-> "none", op |-> "none", about |-> "none",
           since |-> 0, list |-> {}, left |-> {}, eligible |-> {}]

FedInit ==
  /\ approvalsFile \in SUBSET Projects
  /\ approvals = [p \in Processes |-> NotCached]
  /\ results = [p \in Processes |-> NotCached]
  /\ task = [t \in Tasks |-> NoTask]
  /\ fedNow = 0 /\ tasksBegun = 0
  /\ served = NotCached
  /\ lastIn = [s \in Projects |-> IF s \in approvalsFile THEN 0 ELSE Never]
  /\ revoked = {}
  /\ mingled = FALSE

Cached(p) == fedNow - approvals[p].at < PermissionTtl

(* loadApprovals: the cache answers at once, or the file is read.  The age *)
(* of what is read counts from before the read.                            *)
Load(p, record) ==
  IF Cached(p) THEN [record EXCEPT !.at = "loaded", !.list = approvals[p].list]
               ELSE [record EXCEPT !.at = "reading", !.since = fedNow]

TaskBegins(t, p, op, about, left) ==
  /\ task[t] = NoTask
  /\ tasksBegun < MaxTasks
  /\ tasksBegun' = tasksBegun + 1
  /\ task' = [task EXCEPT ![t] =
                Load(p, [NoTask EXCEPT !.process = p, !.op = op, !.about = about, !.left = left])]
  /\ mingled' = (mingled \/ \E u \in Tasks : task[u] # NoTask /\ {op, task[u].op} # {"query"})

GrantApproval(t, p) ==
  /\ \E s \in Projects : TaskBegins(t, p, "grant", s, {})
  /\ UNCHANGED <<approvalsFile, approvals, results, fedNow, served, lastIn, revoked>>

RevokeApproval(t, p) ==
  /\ \E s \in Projects : TaskBegins(t, p, "revoke", s, {})
  /\ UNCHANGED <<approvalsFile, approvals, results, fedNow, served, lastIn, revoked>>

(* A cached result is served as it is; it is put last, with its old age.   *)
QueryHits(p) ==
  /\ fedNow - results[p].at <= ResultTtl
  /\ served' = [at |-> fedNow, list |-> results[p].list]
  /\ UNCHANGED <<approvalsFile, approvals, results, task, fedNow, tasksBegun, lastIn, revoked,
                 mingled>>

(* The query may also skip the cache. *)
QueryProjects(t, p) ==
  /\ TaskBegins(t, p, "query", "none", Projects)
  /\ UNCHANGED <<approvalsFile, approvals, results, fedNow, served, lastIn, revoked>>
-----------------------------------------------------------------------------
(* A file being written has no valid schema: the task throws.              *)
FileRead(t) ==
  /\ task[t].at = "reading"
  /\ task' = [task EXCEPT ![t] =
                IF approvalsFile = TornFile THEN NoTask
                ELSE [@ EXCEPT !.at = "read", !.list = approvalsFile]]
  /\ UNCHANGED <<approvalsFile, approvals, results, fedNow, tasksBegun, served, lastIn, revoked,
                 mingled>>

ApprovalsCached(t) ==
  /\ task[t].at = "read"
  /\ approvals' = [approvals EXCEPT ![task[t].process] =
                     [at |-> task[t].since, list |-> task[t].list]]
  /\ task' = [task EXCEPT ![t].at = "loaded"]
  /\ UNCHANGED <<approvalsFile, results, fedNow, tasksBegun, served, lastIn, revoked, mingled>>

(* check: the next project is eligible if its approval is in the list; the *)
(* check of the one after loads the approvals again.                       *)
ProjectChecked(t) ==
  /\ task[t].at = "loaded" /\ task[t].op = "query" /\ task[t].left # {}
  /\ \E s \in task[t].left :
       LET checked == [task[t] EXCEPT !.left = @ \ {s},
                                      !.eligible = @ \union ({s} \intersect task[t].list)]
       IN  task' = [task EXCEPT ![t] = IF checked.left = {} THEN checked
                                                            ELSE Load(checked.process, checked)]
  /\ UNCHANGED <<approvalsFile, approvals, results, fedNow, tasksBegun, served, lastIn, revoked,
                 mingled>>

(* The eligible projects have answered; an empty result is cached as well. *)
QueryAnswered(t) ==
  /\ task[t].at = "loaded" /\ task[t].op = "query" /\ task[t].left = {}
  /\ results' = [results EXCEPT ![task[t].process] = [at |-> fedNow, list |-> task[t].eligible]]
  /\ served' = [at |-> fedNow, list |-> task[t].eligible]
  /\ task' = [task EXCEPT ![t] = NoTask]
  /\ UNCHANGED <<approvalsFile, approvals, fedNow, tasksBegun, lastIn, revoked, mingled>>

Seen(at) == [s \in Projects |-> IF s \in approvalsFile THEN at ELSE lastIn[s]]

WriteBegins(t) ==
  /\ task[t].at = "loaded" /\ task[t].op # "query"
  /\ lastIn' = Seen(fedNow)
  /\ approvalsFile' = TornFile
  /\ task' = [task EXCEPT ![t].at = "writing"]
  /\ UNCHANGED <<approvals, results, fedNow, tasksBegun, served, revoked, mingled>>

Updated(r) == IF r.op = "grant" THEN r.list \union {r.about} ELSE r.list \ {r.about}

(* Mutant: the list that was loaded stays cached over the write.           *)
WriteEndsKeeping(t) ==
  /\ task[t].at = "writing"
  /\ LET r == task[t]
     IN  /\ approvalsFile' = Updated(r)
         /\ lastIn' = [s \in Projects |-> IF s \in Updated(r) THEN fedNow ELSE lastIn[s]]
         /\ revoked' = IF r.op = "grant" THEN revoked \ {r.about} ELSE revoked \union {r.about}
         /\ mingled' = (mingled \/ \E p \in Processes \ {r.process} : Cached(p))
  /\ task' = [task EXCEPT ![t] = NoTask]
  /\ UNCHANGED <<approvals, results, fedNow, tasksBegun, served>>

(* The checker that wrote forgets what it had cached; the others, and the  *)
(* results, keep what they have.                                           *)
WriteEnds(t) ==
  /\ task[t].at = "writing"
  /\ LET r == task[t]
     IN  /\ approvalsFile' = Updated(r)
         /\ lastIn' = [s \in Projects |-> IF s \in Updated(r) THEN fedNow ELSE lastIn[s]]
         /\ approvals' = [approvals EXCEPT ![r.process] = NotCached]
         /\ revoked' = IF r.op = "grant" THEN revoked \ {r.about} ELSE revoked \union {r.about}
         /\ mingled' = (mingled \/ \E p \in Processes \ {r.process} : Cached(p))
  /\ task' = [task EXCEPT ![t] = NoTask]
  /\ UNCHANGED <<results, fedNow, tasksBegun, served>>

(* A process ends at any moment; a write in progress leaves a torn file.   *)
ProcessEnds(p) ==
  /\ approvals' = [approvals EXCEPT ![p] = NotCached]
  /\ results' = [results EXCEPT ![p] = NotCached]
  /\ task' = [t \in Tasks |-> IF task[t].process = p THEN NoTask ELSE task[t]]
  /\ UNCHANGED <<approvalsFile, fedNow, tasksBegun, served, lastIn, revoked, mingled>>

(* Reading or writing the file takes less than a unit of time. *)
FedTick ==
  /\ fedNow < MaxFedTime
  /\ \A t \in Tasks : task[t] = NoTask
  /\ fedNow' = fedNow + 1
  /\ lastIn' = Seen(fedNow + 1)
  /\ UNCHANGED <<approvalsFile, approvals, results, task, tasksBegun, served, revoked, mingled>>

FedNext ==
  \/ \E t \in Tasks, p \in Processes :
       GrantApproval(t, p) \/ RevokeApproval(t, p) \/ QueryProjects(t, p)
  \/ \E t \in Tasks :
       \/ FileRead(t) \/ ApprovalsCached(t) \/ ProjectChecked(t) \/ QueryAnswered(t)
       \/ WriteBegins(t) \/ WriteEnds(t)
  \/ \E p \in Processes : QueryHits(p) \/ ProcessEnds(p)
  \/ FedTick

FedSpec == FedInit /\ [][FedNext]_fedVars
-----------------------------------------------------------------------------
FedTypeOK ==
  /\ approvalsFile \in (SUBSET Projects) \union {TornFile}
  /\ \A p \in Processes : approvals[p].list \subseteq Projects /\ results[p].list \subseteq Projects
  /\ \A t \in Tasks : task[t].at \in {"idle", "reading", "read", "loaded", "writing"}
  /\ fedNow \in 0 .. MaxFedTime /\ tasksBegun \in 0 .. MaxTasks
  /\ revoked \subseteq Projects /\ mingled \in BOOLEAN

(* Two caches stand between an approval and the projects an answer covers, *)
(* neither cleared by a revocation of another process, and a read can      *)
(* overtake a write: still no answer covers a project whose approval left  *)
(* the file longer ago than the two lifetimes together.                    *)
AnswersOutliveApprovalsBriefly ==
  \A s \in served.list : lastIn[s] >= served.at - (ResultTtl + PermissionTtl)

(* A revoked approval is back only after it was granted again: a task that *)
(* starts from a cached list does not revive it, unless tasks overlapped   *)
(* or another process still had its own list cached.                       *)
RevokedStaysRevoked ==
  (approvalsFile # TornFile /\ ~ mingled) => revoked \intersect approvalsFile = {}

(* What is answered and what is stored follow the approvals, through two   *)
(* caches per process, crashes and torn writes.                            *)
AnswersFollowApprovals ==
  /\ FedTypeOK
  /\ AnswersOutliveApprovalsBriefly
  /\ RevokedStaysRevoked
=============================================================================

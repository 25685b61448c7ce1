------------------------------- MODULE Workbench -------------------------------
(***************************************************************************)
(* The workbench's server (apps/workbench/lib): the engine its first       *)
(* request opens (engine-init.ts), the store of samples it falls back on   *)
(* (demo/) and the sessions, which are in the one or in the other          *)
(* (stores/session-store.ts).                                              *)
(*                                                                         *)
(* A request that needs the engine awaits init; requests for sessions look *)
(* at the engine there is and never await it.  An action is the code       *)
(* between two awaits.  With strict, init rejects instead of falling back. *)
(***************************************************************************)
EXTENDS Naturals, FiniteSets, Sequences

CONSTANTS
  Early,        (* the parts init constructs first, in their order: observer, *)
                (* detector, skillGenesis and promoter                        *)
  Requests,     (* those that need the engine, in progress at a time         *)
  Sessions,     (* sessions that are created                                 *)
  MaxInits,     (* bounds of the model: inits of one process,                *)
  MaxServers    (* and processes one after the other                         *)

ASSUME WorkbenchParameters ==
  /\ MaxInits \in Nat
  /\ Early \in Seq({"observer", "detector", "skillGenesis", "promoter"})

VARIABLES
  strict,
  settingsSet,  (* __orqenixSettings                                         *)
  engine,       (* __orqenixMemory: the init that opened it, or 0            *)
  part,         (* part[p]: the init whose engine p works on, or 0           *)
  status,       (* engineStatus                                              *)
  promise,      (* __orqenixInitPromise: the init it is of, or 0             *)
  inits,        (* inits[n]: how far the n-th init has come                  *)
  opened,       (* the engines that are open                                 *)
  request,      (* request[c]: what it awaits                                *)
  servers,
  db, demo,     (* the sessions in the database and in the store of samples  *)
  told,         (* history: where a session was as its creation was answered *)
  ended,        (* history: the sessions aborted or reset since they were told *)
  overtaken     (* history: a reset came while an init was in progress       *)

globals == <<settingsSet, engine, part, promise, status, overtaken>>
sessionVars == <<db, demo, told, ended>>
wbVars == <<strict, globals, inits, opened, request, servers, sessionVars>>

EarlyParts == {Early[i] : i \in DOMAIN Early}
Parts == EarlyParts \union {"plugins", "marketplace"}
NoParts == [p \in Parts |-> 0]
AllStatus(s) == [x \in Parts \union {"memory"} |-> s]

NoRow == [state |-> "none", named |-> FALSE]
NoRequest == [op |-> "none", init |-> 0]
NoInits == [n \in 1 .. MaxInits |-> "none"]
NoSession == [s \in Sessions |-> NoRow]

(* A server starts: the database is all that is left of the one before.    *)
FreshServer ==
  /\ settingsSet' = FALSE /\ engine' = 0 /\ part' = NoParts /\ promise' = 0
  /\ status' = AllStatus("real") /\ overtaken' = FALSE
  /\ inits' = NoInits /\ opened' = {}
  /\ request' = [c \in Requests |-> NoRequest]
  /\ demo' = NoSession

WbInit ==
  /\ strict \in BOOLEAN
  /\ settingsSet = FALSE /\ engine = 0 /\ part = NoParts /\ promise = 0
  /\ status = AllStatus("real") /\ overtaken = FALSE
  /\ inits = NoInits /\ opened = {}
  /\ request = [c \in Requests |-> NoRequest]
  /\ servers = 1
  /\ db = NoSession /\ demo = NoSession
  /\ told = [s \in Sessions |-> "no"] /\ ended = {}

Restart ==
  /\ servers < MaxServers /\ servers' = servers + 1
  /\ FreshServer
  /\ UNCHANGED <<strict, db, told, ended>>
-----------------------------------------------------------------------------
Started == {n \in 1 .. MaxInits : inits[n] # "none"}
Unfinished == {n \in Started : inits[n] \notin {"done", "rejected"}}

StartsInit(c, op) ==
  \E n \in 1 .. MaxInits :
    /\ inits[n] = "none" /\ 1 .. n - 1 \subseteq Started
    /\ inits' = [inits EXCEPT ![n] = "settings"]
    /\ promise' = n
    /\ request' = [request EXCEPT ![c] = [op |-> op, init |-> n]]

(* Mutant: every request starts an init until the settings are there.      *)
EnsureInitAnew(c, op) ==
  /\ request[c] = NoRequest
  /\ IF settingsSet
       THEN /\ request' = [request EXCEPT ![c] = [op |-> op, init |-> 0]]
            /\ UNCHANGED <<promise, inits>>
       ELSE StartsInit(c, op)
  /\ UNCHANGED <<strict, settingsSet, engine, part, status, overtaken, opened, servers,
                 sessionVars>>

(* ensureInit; 0 stands for a promise resolved already. *)
EnsureInit(c, op) ==
  /\ request[c] = NoRequest
  /\ IF settingsSet \/ promise # 0
       THEN /\ request' = [request EXCEPT ![c] =
                             [op |-> op, init |-> IF settingsSet THEN 0 ELSE promise]]
            /\ UNCHANGED <<promise, inits>>
       ELSE StartsInit(c, op)
  /\ UNCHANGED <<strict, settingsSet, engine, part, status, overtaken, opened, servers,
                 sessionVars>>

(* init has the settings and opens the database. *)
InitOpens(n) ==
  /\ inits[n] = "settings"
  /\ settingsSet' = TRUE
  /\ \/ opened' = opened \union {n} /\ inits' = [inits EXCEPT ![n] = "open"]
     \/ /\ UNCHANGED opened
        /\ \E why \in {"missing", "refused"} : inits' = [inits EXCEPT ![n] = why]
  /\ UNCHANGED <<strict, engine, part, status, promise, overtaken, request, servers, sessionVars>>

(* init's outer catch, with the statuses s so far: ENOENT is never fatal. *)
Caught(n, s, fatal) ==
  /\ inits' = [inits EXCEPT ![n] = IF fatal /\ strict THEN "rejected" ELSE "done"]
  /\ status' = IF fatal /\ strict THEN s ELSE AllStatus("demo")

InitNotOpened(n) ==
  /\ inits[n] \in {"missing", "refused"}
  /\ Caught(n, status, inits[n] = "refused")
  /\ UNCHANGED <<strict, settingsSet, engine, part, promise, overtaken, opened, request, servers,
                 sessionVars>>

With(f, S, v) == [x \in DOMAIN f |-> IF x \in S THEN v ELSE f[x]]

(* The engine is there.  The migrations may fail, and each of the first    *)
(* parts: a strict init ends with the first that does.                     *)
InitMigrates(n) ==
  LET opening == [status EXCEPT !["memory"] = "real"]
  IN  /\ inits[n] = "open"
      /\ engine' = n
      /\ \/ Caught(n, opening, TRUE) /\ UNCHANGED part
         \/ \E failed \in SUBSET EarlyParts :
              /\ strict => failed = {}
              /\ part' = With(part, EarlyParts \ failed, n)
              /\ status' = With(With(opening, EarlyParts, "real"), failed, "demo")
              /\ inits' = [inits EXCEPT ![n] = "registry"]
         \/ \E i \in DOMAIN Early :
              LET before == {Early[j] : j \in 1 .. i - 1}
              IN  /\ strict
                  /\ part' = With(part, before, n)
                  /\ Caught(n, With(With(opening, before, "real"), {Early[i]}, "demo"), TRUE)
      /\ UNCHANGED <<strict, settingsSet, promise, overtaken, opened, request, servers, sessionVars>>

(* The registry of plugins has been read, or not. *)
InitEnds(n) ==
  /\ inits[n] = "registry"
  /\ \E failed \in SUBSET {"plugins", "marketplace"} :
       IF failed = {} \/ ~ strict
         THEN /\ part' = With(part, {"plugins", "marketplace"} \ failed, n)
              /\ status' = With(With(status, {"plugins", "marketplace"}, "real"), failed, "demo")
              /\ inits' = [inits EXCEPT ![n] = "done"]
         ELSE LET last == IF "plugins" \in failed THEN "plugins" ELSE "marketplace"
              IN  /\ part' = With(part, {"plugins"} \ failed, n)
                  /\ Caught(n, [With(status, {"plugins"} \ failed, "real") EXCEPT ![last] = "demo"],
                            TRUE)
  /\ UNCHANGED <<strict, settingsSet, engine, promise, overtaken, opened, request, servers,
                 sessionVars>>
-----------------------------------------------------------------------------
Settled(c) ==
  /\ request[c].op # "none"
  /\ request[c].init # 0 => inits[request[c].init] \in {"done", "rejected"}

(* getMemory has answered, or thrown: the request is served or refused.    *)
Served(c) ==
  /\ Settled(c) /\ request[c].op = "use"
  /\ request' = [request EXCEPT ![c] = NoRequest]
  /\ UNCHANGED <<strict, globals, inits, opened, servers, sessionVars>>

(* POST api/dev/reset: the engine closed, the globals and the database     *)
(* gone; without an engine, the samples as at first.                       *)
Reset(c) ==
  /\ Settled(c) /\ request[c].op = "reset"
  /\ request' = [request EXCEPT ![c] = NoRequest]
  /\ LET rejected == request[c].init # 0 /\ inits[request[c].init] = "rejected"
     IN  \/ /\ rejected
            /\ UNCHANGED <<globals, opened, sessionVars>>
         \/ /\ ~ rejected /\ engine # 0
            /\ opened' = opened \ {engine}
            /\ settingsSet' = FALSE /\ engine' = 0 /\ part' = NoParts /\ promise' = 0
            /\ overtaken' = (overtaken \/ Unfinished # {})
            /\ db' = NoSession
            /\ ended' = ended \union {s \in Sessions : db[s] # NoRow}
            /\ UNCHANGED <<status, demo, told>>
         \/ /\ ~ rejected /\ engine = 0
            /\ demo' = NoSession
            /\ ended' = ended \union {s \in Sessions : demo[s] # NoRow}
            /\ UNCHANGED <<globals, opened, db, told>>
  /\ UNCHANGED <<strict, inits, servers>>
-----------------------------------------------------------------------------
(* Requests for sessions, which take the engine as they find it.           *)

NotCreated(s) == told[s] = "no" /\ db[s] = NoRow /\ s \notin ended

(* Two statements; either may fail, which is answered as an error. *)
CreateSession(s) ==
  /\ NotCreated(s)
  /\ IF engine # 0
       THEN \E named \in BOOLEAN :
              /\ db' = [db EXCEPT ![s] = [state |-> "active", named |-> named]]
              /\ told' = [told EXCEPT ![s] = IF named THEN "db" ELSE "no"]
              /\ UNCHANGED demo
       ELSE /\ demo' = [demo EXCEPT ![s] = [state |-> "active", named |-> TRUE]]
            /\ told' = [told EXCEPT ![s] = "demo"]
            /\ UNCHANGED db
  /\ UNCHANGED <<strict, globals, inits, opened, request, servers, ended>>

(* The store that has the sessions now. *)
Moves(s, from, to) ==
  LET now == IF engine # 0 THEN db ELSE demo
  IN  /\ now[s].state = from
      /\ IF engine # 0 THEN db' = [db EXCEPT ![s].state = to] /\ UNCHANGED demo
                       ELSE demo' = [demo EXCEPT ![s].state = to] /\ UNCHANGED db
      /\ UNCHANGED <<strict, globals, inits, opened, request, servers, told>>

PauseSession(s)  == Moves(s, "active", "paused") /\ UNCHANGED ended

ResumeAny(s) ==                          \* mutant: any session is made active
  \E from \in {"paused", "deleted"} : Moves(s, from, "active") /\ UNCHANGED ended

ResumeSession(s) == Moves(s, "paused", "active") /\ UNCHANGED ended

(* From any state, even when it has been aborted; samples are removed. *)
AbortSession(s) ==
  /\ \E from \in {"active", "paused", "deleted"} :
       Moves(s, from, IF engine # 0 THEN "deleted" ELSE "none")
  /\ ended' = ended \union {s}

SessionRequest(s) ==
  CreateSession(s) \/ PauseSession(s) \/ ResumeSession(s) \/ AbortSession(s)

WbNext ==
  \/ Restart
  \/ \E c \in Requests, op \in {"use", "reset"} : EnsureInit(c, op)
  \/ \E n \in 1 .. MaxInits : InitOpens(n)
  \/ \E n \in 1 .. MaxInits : InitNotOpened(n)
  \/ \E n \in 1 .. MaxInits : InitMigrates(n)
  \/ \E n \in 1 .. MaxInits : InitEnds(n)
  \/ \E c \in Requests : Served(c)
  \/ \E c \in Requests : Reset(c)
  \/ \E s \in Sessions : SessionRequest(s)

WbSpec == WbInit /\ [][WbNext]_wbVars
-----------------------------------------------------------------------------
WbTypeOK ==
  /\ {strict, settingsSet, overtaken} \subseteq BOOLEAN
  /\ engine \in 0 .. MaxInits /\ promise \in 0 .. MaxInits
  /\ part \in [Parts -> 0 .. MaxInits]
  /\ status \in [Parts \union {"memory"} -> {"real", "demo"}]
  /\ opened \subseteq Started
  /\ \A c \in Requests : request[c].op \in {"none", "use", "reset"}
  /\ \A s \in Sessions : /\ db[s].state \in {"none", "active", "paused", "deleted"}
                         /\ demo[s].state \in {"none", "active", "paused"}
                         /\ told[s] \in {"no", "db", "demo"}

(* However many requests come while the engine is being opened, fails to   *)
(* open, or is reset and opened again, one engine at most is open and it   *)
(* is the one that is used, by every part unless a reset overtook an init. *)
OneEngine ==
  /\ Cardinality(opened) <= 1
  /\ engine # 0 => opened = {engine}
  /\ ~ overtaken => \A p \in Parts : part[p] \in {0, engine}

(* What init reports when it has not rejected: a part is "real" when it is *)
(* there.  Before init, after a reset and after a rejection the statuses   *)
(* say nothing.                                                            *)
StatusTruthful ==
  (promise # 0 /\ inits[promise] = "done" /\ ~ overtaken) =>
    /\ \A p \in Parts : status[p] = "real" <=> part[p] # 0
    /\ status["memory"] = "real" => engine # 0

(* A session that was answered for by the database stays in it, over       *)
(* restarts and inits that fail, until it is aborted or reset; an aborted  *)
(* one never comes back.                                                   *)
SessionsKept ==
  \A s \in Sessions : told[s] = "db" =>
    IF s \in ended THEN db[s].state \in {"deleted", "none"}
                   ELSE db[s].named /\ db[s].state \in {"active", "paused"}

(* The workbench over its inits, resets and restarts: one engine, whose    *)
(* parts are reported as they are, and sessions that last.                 *)
WorkbenchHolds == WbTypeOK /\ OneEngine /\ StatusTruthful /\ SessionsKept
-----------------------------------------------------------------------------
(* engine-init.ts:6 "demo-store remains ONLY a graceful fallback when the  *)
(* engine cannot open": a session that is created in the samples is one no *)
(* engine could be opened for.                                             *)
SamplesOnlyAsFallback ==
  [][\A s \in Sessions : (told[s] = "no" /\ told'[s] = "demo") =>
       promise # 0 /\ inits[promise] \in {"done", "rejected"}]_wbVars
=============================================================================

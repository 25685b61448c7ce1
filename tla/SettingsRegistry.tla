--------------------------- MODULE SettingsRegistry ---------------------------
(***************************************************************************)
(* One setting of one module under the hierarchy of overrides:             *)
(* SettingsRegistry.update and revert                                      *)
(* (packages/settings-registry/src/registry.ts), SettingsResolver          *)
(* (resolver.ts) and the in-memory persistence (persistence.ts).           *)
(*                                                                         *)
(* An update awaits the persistence, the audit log and the hot-reload      *)
(* handler of the module, which may throw; a resolution awaits the         *)
(* persistence at each level.  The module's own validation and the audit   *)
(* log change nothing here and are left out.                               *)
(***************************************************************************)
EXTENDS Naturals, Sequences

CONSTANTS
  Levels,     (* RESOLUTION_ORDER: the levels, the strongest first         *)
  Values,
  Permits,    (* hierarchyOverride of the module's contract                *)
  Updates,    (* calls of update in progress at a time                     *)
  MaxUpdates  (* bound of the model                                        *)

ASSUME SettingsParameters ==
  /\ Levels \in Seq({"session", "branch", "project", "user", "system"})
  /\ \A i, j \in DOMAIN Levels : Levels[i] = Levels[j] => i = j
  /\ MaxUpdates \in Nat

Unset == "unset"
LevelSet == {Levels[i] : i \in DOMAIN Levels}

VARIABLES
  overrides,  (* overrides[l], or Unset                                    *)
  updating,   (* updating[u]: the level, value and old override of u       *)
  updates,
  resolving,  (* the level a resolution asks next, and its answer          *)
  accepted,   (* history: what each level holds by the calls that          *)
              (* returned without an error                                 *)
  contended,  (* history: levels where a call met another                  *)
  effective,  (* history: the values in effect while it resolved           *)
  moves       (* history: the changes while it resolved, 2 for more        *)

settingVars == <<overrides, updating, updates, resolving, accepted, contended, effective, moves>>

NoUpdate == [at |-> "idle", level |-> "none", value |-> Unset, old |-> Unset]
NotResolving == [at |-> "idle", next |-> 1, answer |-> Unset]

CanOverride(level) ==
  CASE Permits \in {"all", "session"} -> TRUE
    [] Permits = "branch"  -> level # "session"
    [] Permits = "project" -> level \in {"project", "user", "system"}
    [] Permits = "none"    -> level = "system"

(* The strongest permitted override, or Unset for the built-in default.    *)
EffectiveIn(over) ==
  LET set == {i \in DOMAIN Levels : CanOverride(Levels[i]) /\ over[Levels[i]] # Unset}
  IN  IF set = {} THEN Unset ELSE over[Levels[CHOOSE i \in set : \A j \in set : i <= j]]

SettingsInit ==
  /\ overrides = [l \in LevelSet |-> Unset]
  /\ updating = [u \in Updates |-> NoUpdate]
  /\ updates = 0
  /\ resolving = NotResolving
  /\ accepted = overrides
  /\ contended = {}
  /\ effective = {}
  /\ moves = 0

(* Every write of the persistence; what a resolution in progress could see. *)
Persist(level, value) ==
  /\ overrides' = [overrides EXCEPT ![level] = value]
  /\ effective' = IF resolving.at = "reading" THEN effective \union {EffectiveIn(overrides')}
                                              ELSE effective
  /\ moves' = IF resolving.at = "reading" /\ moves < 2 THEN moves + 1 ELSE moves

resolution == <<resolving, effective, moves>>
-----------------------------------------------------------------------------
(* The old override is read first; the level is not compared with what the *)
(* module permits.                                                         *)
UpdateBegins(u) ==
  /\ updating[u] = NoUpdate
  /\ updates < MaxUpdates
  /\ updates' = updates + 1
  /\ \E l \in LevelSet, v \in Values :
       /\ updating' = [updating EXCEPT ![u] =
                         [at |-> "persist", level |-> l, value |-> v, old |-> overrides[l]]]
       /\ contended' = IF \E w \in Updates : updating[w].level = l
                         THEN contended \union {l} ELSE contended
  /\ UNCHANGED <<overrides, accepted, resolution>>

UpdatePersists(u) ==
  /\ updating[u].at = "persist"
  /\ Persist(updating[u].level, updating[u].value)
  /\ updating' = [updating EXCEPT ![u].at = "reload"]
  /\ UNCHANGED <<updates, resolving, accepted, contended>>

ReloadSucceeds(u) ==
  /\ updating[u].at = "reload"
  /\ accepted' = [accepted EXCEPT ![updating[u].level] = updating[u].value]
  /\ updating' = [updating EXCEPT ![u] = NoUpdate]
  /\ UNCHANGED <<overrides, updates, contended, resolution>>

(* Mutant: the rollback deletes the new override and forgets the one       *)
(* before it.                                                              *)
ReloadFailsDeleting(u) ==
  /\ updating[u].at = "reload"
  /\ Persist(updating[u].level, Unset)
  /\ updating' = [updating EXCEPT ![u] = NoUpdate]
  /\ UNCHANGED <<updates, resolving, accepted, contended>>

(* The handler throws: the old override is set again, or the new deleted.  *)
ReloadFails(u) ==
  /\ updating[u].at = "reload"
  /\ Persist(updating[u].level, updating[u].old)
  /\ updating' = [updating EXCEPT ![u] = NoUpdate]
  /\ UNCHANGED <<updates, resolving, accepted, contended>>

(* revert deletes the override and reloads nothing. *)
RevertSetting(l) ==
  /\ overrides[l] # Unset
  /\ Persist(l, Unset)
  /\ accepted' = [accepted EXCEPT ![l] = Unset]
  /\ contended' = IF \E w \in Updates : updating[w].level = l
                    THEN contended \union {l} ELSE contended
  /\ UNCHANGED <<updating, updates, resolving>>
-----------------------------------------------------------------------------
ResolveBegins ==
  /\ resolving.at # "reading"
  /\ resolving' = [NotResolving EXCEPT !.at = "reading"]
  /\ effective' = {EffectiveIn(overrides)}
  /\ moves' = 0
  /\ UNCHANGED <<overrides, updating, updates, accepted, contended>>

(* The first permitted level with an override answers, the default after   *)
(* the last.                                                               *)
LevelsLeft == {i \in DOMAIN Levels : i >= resolving.next /\ CanOverride(Levels[i])}

ResolveReads ==
  /\ resolving.at = "reading"
  /\ \E i \in LevelsLeft :
       /\ \A j \in LevelsLeft : i <= j
       /\ resolving' = IF overrides[Levels[i]] = Unset
                         THEN [resolving EXCEPT !.next = i + 1]
                         ELSE [resolving EXCEPT !.at = "done", !.answer = overrides[Levels[i]]]
  /\ UNCHANGED <<overrides, updating, updates, accepted, contended, effective, moves>>

ResolveDefaults ==
  /\ resolving.at = "reading"
  /\ LevelsLeft = {}
  /\ resolving' = [resolving EXCEPT !.at = "done"]
  /\ UNCHANGED <<overrides, updating, updates, accepted, contended, effective, moves>>

SettingsNext ==
  \/ \E u \in Updates :
       UpdateBegins(u) \/ UpdatePersists(u) \/ ReloadSucceeds(u) \/ ReloadFails(u)
  \/ \E l \in LevelSet : RevertSetting(l)
  \/ ResolveBegins \/ ResolveReads \/ ResolveDefaults

SettingsSpec == SettingsInit /\ [][SettingsNext]_settingVars
-----------------------------------------------------------------------------
SettingsTypeOK ==
  /\ overrides \in [LevelSet -> Values \union {Unset}]
  /\ accepted \in [LevelSet -> Values \union {Unset}]
  /\ updating \in [Updates -> [at : {"idle", "persist", "reload"}, level : LevelSet \union {"none"},
                               value : Values \union {Unset}, old : Values \union {Unset}]]
  /\ \A u \in Updates : updating[u].at = "idle" => updating[u] = NoUpdate
  /\ resolving \in [at : {"idle", "reading", "done"}, next : Nat, answer : Values \union {Unset}]
  /\ contended \subseteq LevelSet
  /\ moves \in 0 .. 2

(* An update whose hot reload failed leaves no trace: where no call is in  *)
(* progress, a level holds what the last call that succeeded left there,   *)
(* whatever failed since; unless calls for that very level overlapped, and *)
(* one rolled back over another.                                           *)
FailedReloadLeavesNoTrace ==
  \A l \in LevelSet \ contended :
    (\A u \in Updates : updating[u].level # l) => overrides[l] = accepted[l]

(* A resolution that awaits at each level answers with a value that was in *)
(* effect at one moment while it ran, if no more than one override changed *)
(* meanwhile; two changes can lead it past both.                           *)
ResolvesWhatWasInEffect ==
  (resolving.at = "done" /\ moves <= 1) => resolving.answer \in effective

(* A setting is what the calls that succeeded made it, at rest and to a    *)
(* resolution that reads it level by level.                                *)
SettingsRestored ==
  /\ SettingsTypeOK
  /\ FailedReloadLeavesNoTrace
  /\ ResolvesWhatWasInEffect
=============================================================================

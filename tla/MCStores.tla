------------------------------- MODULE MCStores -------------------------------
(***************************************************************************)
(* What several processes or calls write to at once.  A behaviour is one   *)
(* of SyncEngine, of MemoryStore, of Federation, of Workspaces alone, of   *)
(* LinkedScopes or of SettingsRegistry.  The two runs, engines, processes, *)
(* writers and updates are the same two values, so that one permutation is *)
(* a symmetry of all of them.                                              *)
(***************************************************************************)
EXTENDS SyncEngine, MemoryStore, Federation, LinkedScopes, SettingsRegistry, TLC

CONSTANTS a1, here, there

OneAgent == <<a1>>

ThreeLevels == <<"session", "project", "system">>

Symmetry == Permutations(Runs)

VARIABLE focus

MCInit ==
  /\ Init /\ StoreInit /\ FedInit /\ WsInit /\ LinkInit /\ SettingsInit
  /\ focus \in {"sync", "memory", "federation", "workspaces", "scopes", "settings"}
  /\ focus # "federation" => approvalsFile = {}

Rest(x) ==
  /\ focus = x /\ UNCHANGED focus
  /\ x # "sync" => UNCHANGED vars
  /\ x # "memory" => UNCHANGED storeVars
  /\ x # "federation" => UNCHANGED fedVars
  /\ x \notin {"workspaces", "scopes"} => UNCHANGED wsVars
  /\ x # "scopes" => UNCHANGED linkVars
  /\ x # "settings" => UNCHANGED settingVars

(* Bounds of the scopes' links: a workspace is created only, and beside no *)
(* more than two links; a query runs with no update or detachment beside   *)
(* it, and only one remote links back.                                     *)
FewLinks ==
  /\ writes' <= 1 /\ \A p \in Writers : writer'[p] = NoChange
  /\ writes' = 1 => Len(links') <= 2
  /\ \/ query' = NoQuery
     \/ detaching' = NotDetaching /\ writes' = 0 /\ \A p \in Writers : linking'[p] = NotLinking
  /\ \A i \in DOMAIN links' :
       links'[i].direction = "inbound" => links'[i].remote = there /\ links'[i].status # "pending"

MCNext ==
  \/ Rest("sync") /\ Next
  \/ Rest("memory") /\ StoreNext
  \/ Rest("federation") /\ FedNext
  \/ Rest("workspaces") /\ WsNext
  \/ Rest("scopes") /\ ScopesNext /\ FewLinks
  \/ Rest("settings") /\ SettingsNext

MCSpec == MCInit /\ [][MCNext]_<<vars, storeVars, fedVars, scopeVars, settingVars, focus>>
=============================================================================

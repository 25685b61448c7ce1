--------------------------- MODULE PluginLifecycle ---------------------------
(***************************************************************************)
(* The life of one plugin: PluginLifecycle                                 *)
(* (packages/plugin-core/src/lifecycle.ts) over PluginRegistry             *)
(* (plugin-registry.ts) and the table it is flushed to                     *)
(* (apps/workbench/lib/stores/plugin-persistence.ts).                      *)
(*                                                                         *)
(* A call is the sequence of the steps it has still to take; between two   *)
(* of them it awaits, and other calls run.  A step that throws ends the    *)
(* call.  A flush writes the table before it first awaits, so that it is   *)
(* part of the step that changes the entry.  The audit events are left     *)
(* out: they change nothing here.                                          *)
(***************************************************************************)
EXTENDS Integers, Sequences

CONSTANTS
  PluginCalls,
  Versions,
  MaxRestarts  (* bound of the model                                       *)

ASSUME PluginParameters == MaxRestarts \in Nat

VARIABLES
  plugin,   (* the entry in the registry, or NoPlugin                      *)
  stored,   (* the row a restart loads, or NoPlugin                        *)
  running,  (* the version whose onActivate is in effect, or "none"        *)
  doing,    (* doing[c]: the steps left to c, and what it has read         *)
  restarts,
  mixed,    (* history: two calls have been in progress at once            *)
  unhooked  (* history: what may set the state and the hooks apart         *)

pluginVars == <<plugin, stored, running, doing, restarts, mixed, unhooked>>

NoPlugin == [state |-> "none", version |-> "none"]
PluginStates == {"installed", "configured", "active", "inactive"}
Entries == [state : PluginStates, version : Versions]

Registered == plugin # NoPlugin
Resting == [steps |-> << >>, version |-> "none"]
Quiet == \A c \in PluginCalls : doing[c] = Resting

PluginInit ==
  /\ plugin = NoPlugin
  /\ stored = NoPlugin
  /\ running = "none"
  /\ doing = [c \in PluginCalls |-> Resting]
  /\ restarts = 0
  /\ mixed = FALSE
  /\ unhooked = {}
-----------------------------------------------------------------------------
Calls(c, steps) ==
  /\ doing[c] = Resting
  /\ doing' = [doing EXCEPT ![c].steps = steps]
  /\ mixed' = (mixed \/ ~ Quiet)
  /\ UNCHANGED <<plugin, stored, running, restarts, unhooked>>

InstallPlugin(c)    == Calls(c, <<"load", "onInstall", "register">>)
ActivatePlugin(c)   == Calls(c, <<"get", "onActivate", "active">>)
DeactivatePlugin(c) == Calls(c, <<"get", "onDeactivate", "inactive">>)

(* Mutant: uninstall of an active plugin without deactivating it.          *)
UninstallPluginAtOnce(c) == Registered /\ Calls(c, <<"unregister">>)

(* find() is idempotent for a plugin that is gone; only an active plugin   *)
(* is deactivated first.                                                   *)
UninstallPlugin(c) ==
  /\ Registered
  /\ Calls(c, IF plugin.state = "active" THEN <<"get", "onDeactivate", "inactive", "unregister">>
                                        ELSE <<"unregister">>)

UpdatePlugin(c) ==
  /\ Registered
  /\ Calls(c, IF plugin.state = "active"
                THEN <<"get", "onDeactivate", "inactive", "load", "replace", "get", "onActivate", "active">>
                ELSE <<"load", "replace">>)

(* Every change of an entry flushes the whole registry. *)
Flushed(entry) == plugin' = entry /\ stored' = entry

(* configure asks nothing of the state, not even that onActivate is over.  *)
ConfigurePlugin ==
  /\ Registered
  /\ Flushed([plugin EXCEPT !.state = "configured"])
  /\ unhooked' = IF plugin.state = "active" THEN unhooked \union {"configured"} ELSE unhooked
  /\ mixed' = (mixed \/ ~ Quiet)
  /\ UNCHANGED <<running, doing, restarts>>
-----------------------------------------------------------------------------
At(c, step) == doing[c].steps # << >> /\ Head(doing[c].steps) = step

(* The next step of c, or none when it was the last. *)
Proceeds(c, version) ==
  doing' = [doing EXCEPT ![c] =
              IF Len(@.steps) = 1 THEN Resting ELSE [steps |-> Tail(@.steps), version |-> version]]

Throws(c) == doing' = [doing EXCEPT ![c] = Resting]

(* The package is read; it may be missing, or its manifest invalid. *)
LoadsPackage(c) ==
  /\ At(c, "load")
  /\ \/ Throws(c)
     \/ \E v \in Versions : Proceeds(c, v)
  /\ UNCHANGED <<plugin, stored, running, unhooked>>

InstallHookRuns(c) ==
  /\ At(c, "onInstall")
  /\ Throws(c) \/ Proceeds(c, doing[c].version)
  /\ UNCHANGED <<plugin, stored, running, unhooked>>

Registers(c) ==
  /\ At(c, "register")
  /\ Proceeds(c, "none")
  /\ IF Registered THEN UNCHANGED <<plugin, stored>>
                   ELSE Flushed([state |-> "installed", version |-> doing[c].version])
  /\ UNCHANGED <<running, unhooked>>

(* registry.get hands the entry to the hook, which runs on its manifest.   *)
GetsPlugin(c) ==
  /\ At(c, "get")
  /\ IF Registered THEN Proceeds(c, plugin.version) ELSE Throws(c)
  /\ UNCHANGED <<plugin, stored, running, unhooked>>

ActivateHookRuns(c) ==
  /\ At(c, "onActivate")
  /\ \/ Throws(c) /\ UNCHANGED running
     \/ Proceeds(c, doing[c].version) /\ running' = doing[c].version
  /\ UNCHANGED <<plugin, stored, unhooked>>

(* A failing onDeactivate is reported and the transition goes on. *)
DeactivateHookRuns(c) ==
  /\ At(c, "onDeactivate")
  /\ Proceeds(c, doing[c].version)
  /\ \/ running' = "none" /\ unhooked' = unhooked \ {"failed", "configured"}
     \/ /\ unhooked' = IF running = "none" THEN unhooked ELSE unhooked \union {"failed"}
        /\ UNCHANGED running
  /\ UNCHANGED <<plugin, stored>>

SetsState(c) ==
  \E state \in {"active", "inactive"} :
    /\ At(c, state)
    /\ IF Registered
         THEN Proceeds(c, "none") /\ Flushed([plugin EXCEPT !.state = state])
         ELSE Throws(c) /\ UNCHANGED <<plugin, stored>>
    /\ unhooked' = IF Registered THEN unhooked \ {"restored"} ELSE unhooked
    /\ UNCHANGED running

ReplacesVersion(c) ==
  /\ At(c, "replace")
  /\ IF Registered
       THEN /\ Proceeds(c, "none")
            /\ Flushed([state |-> "installed", version |-> doing[c].version])
       ELSE Throws(c) /\ UNCHANGED <<plugin, stored>>
  /\ UNCHANGED <<running, unhooked>>

(* save writes the plugins that are left: the row of this one stays.       *)
Unregisters(c) ==
  /\ At(c, "unregister")
  /\ plugin' = NoPlugin
  /\ Proceeds(c, "none")
  /\ UNCHANGED <<stored, running, unhooked>>

PluginStep(c) ==
  /\ \/ LoadsPackage(c) \/ InstallHookRuns(c) \/ Registers(c)
     \/ GetsPlugin(c) \/ ActivateHookRuns(c) \/ DeactivateHookRuns(c)
     \/ SetsState(c) \/ ReplacesVersion(c) \/ Unregisters(c)
  /\ UNCHANGED <<restarts, mixed>>

(* The process starts again: registry.init loads the rows, and no hook of  *)
(* a plugin they call active is run (engine-init.ts).                      *)
PluginRestart ==
  /\ restarts < MaxRestarts
  /\ restarts' = restarts + 1
  /\ plugin' = stored
  /\ running' = "none"
  /\ doing' = [c \in PluginCalls |-> Resting]
  /\ unhooked' = IF stored.state = "active" THEN {"restored"} ELSE {}
  /\ mixed' = FALSE
  /\ UNCHANGED stored

PluginNext ==
  \/ \E c \in PluginCalls :
       \/ InstallPlugin(c) \/ ActivatePlugin(c) \/ DeactivatePlugin(c)
       \/ UninstallPlugin(c) \/ UpdatePlugin(c) \/ PluginStep(c)
  \/ ConfigurePlugin
  \/ PluginRestart

PluginSpec == PluginInit /\ [][PluginNext]_pluginVars
-----------------------------------------------------------------------------
PluginTypeOK ==
  /\ plugin \in Entries \union {NoPlugin}
  /\ stored \in Entries \union {NoPlugin}
  /\ running \in Versions \union {"none"}
  /\ \A c \in PluginCalls : doing[c].version \in Versions \union {"none"}
  /\ restarts \in 0 .. MaxRestarts
  /\ mixed \in BOOLEAN
  /\ unhooked \subseteq {"failed", "configured", "restored"}

(* A plugin the registry calls active, while no call is in progress, has   *)
(* the onActivate of the very version that is registered in effect, unless *)
(* calls overlapped or the state was only restored after a restart.        *)
ActiveMeansActivated ==
  (Quiet /\ ~ mixed /\ plugin.state = "active" /\ "restored" \notin unhooked)
     => running = plugin.version

(* What a plugin set up is in effect only while the registry calls it      *)
(* active, and is torn down before it is replaced or removed, unless calls *)
(* overlapped, its own onDeactivate failed, or configure relabelled an     *)
(* active plugin (which uninstall and update then do not deactivate).      *)
SetUpOnlyWhileActive ==
  (Quiet /\ ~ mixed /\ running # "none" /\ unhooked = {}) => plugin.state = "active"

(* Whatever steps of however many calls: a restart would load exactly the  *)
(* entry the registry lists; only an entry that was removed comes back.    *)
StoredAsListed == Registered => stored = plugin

(* The registry, the hooks of the plugin and the stored rows agree at      *)
(* rest, in both directions.                                               *)
PluginsAccounted ==
  /\ PluginTypeOK
  /\ ActiveMeansActivated
  /\ SetUpOnlyWhileActive
  /\ StoredAsListed
=============================================================================

--------------------------- MODULE SandboxManager ---------------------------
(***************************************************************************)
(* Activating, invoking and deactivating a plugin                          *)
(* (packages/plugin-core/src/sandbox/sandbox-manager.ts), with its crashes *)
(* (crash-handler.ts) and its processes (ProcessSandbox).  The manager     *)
(* keeps one entry per plugin name and the names do not interact: this is  *)
(* the manager seen by one plugin.  Calls overlap at every await: the      *)
(* handshake, the invocation, the end of the process and the audit log.    *)
(***************************************************************************)
EXTENDS ProcessSandbox

CONSTANTS
  Boxes,        (* sandbox objects that matter at a time (bound of the model) *)
  NoBox,
  MaxCrashes,   (* maxCrashesBeforeDisable                                 *)
  CrashBound    (* bound of the model on the crashes within the window     *)

ASSUME ManagerParameters ==
  /\ NoBox \notin Boxes
  /\ MaxCrashes \in Nat \ {0}
  /\ CrashBound \in Nat

VARIABLES
  active,      (* the manager's entry for the plugin                       *)
  box,         (* box[b]: the sandbox object b                             *)
  call,        (* call[c]: an invocation of activate, invoke or deactivate *)
  crashes,     (* crashes in the window counted since the last reset       *)
  crashing,    (* crashing[b]: handleCrash awaits the audit of b's crash   *)
  disabled,    (* history: onAutoDisable has been called                   *)
  died,        (* history: all crashes in the window                       *)
  abandoned,   (* history: the sandboxes whose handshake timed out         *)
  interfered   (* history: activate, deactivate or a crash began while one *)
               (* of them was in progress on another sandbox               *)

vars == <<active, box, call, crashes, crashing, disabled, died, abandoned, interfered>>

Waits == {"handshake", "invoking", "terminating", "audited", "failing"}

Call == [pc : {"idle", "returned", "threw"} \union Waits, box : Boxes \union {NoBox}]

Init ==
  /\ active = NoBox
  /\ box = [b \in Boxes |-> NoSandbox]
  /\ call = [c \in Callers |-> [pc |-> "idle", box |-> NoBox]]
  /\ crashes = 0
  /\ crashing = [b \in Boxes |-> "no"]
  /\ disabled = FALSE
  /\ died = 0
  /\ abandoned = {}
  /\ interfered = FALSE

Busy(c) == call[c].pc \in Waits

Goes(c, pc, b) == call' = [call EXCEPT ![c] = [pc |-> pc, box |-> b]]

(* x, after the calls of b's pending map have been rejected. *)
Rejected(x, b) == IF x \in box[b].pending THEN [call[x] EXCEPT !.pc = "failing"] ELSE call[x]

Unused(b) ==
  /\ box[b].process # "running" /\ crashing[b] = "no" /\ active # b
  /\ \A c \in Callers : Busy(c) => call[c].box # b

Changing(c) == call[c].pc \in {"handshake", "terminating"}

NoteInterference ==
  interfered' = (interfered \/ (\E c \in Callers : Changing(c)) \/ \E b \in Boxes : crashing[b] # "no")

CountsCrash(b, counted) ==
  /\ crashes' = crashes + 1
  /\ died' = died + 1
  /\ crashing' = [crashing EXCEPT ![b] = IF counted >= MaxCrashes THEN "disabling" ELSE "noted"]
  /\ interfered' = (interfered \/ active \notin {NoBox, b}
                              \/ \E c \in Callers : Changing(c) /\ call[c].box # b)

(* activate: the entry there is, or a new process to shake hands with.     *)
ActivateKnown(c) ==
  /\ ~ Busy(c)
  /\ active # NoBox
  /\ Goes(c, "returned", NoBox)
  /\ UNCHANGED <<active, box, crashes, crashing, disabled, died, abandoned, interfered>>

(* A forbidden sandbox mode, or no process could be spawned. *)
ActivateRefused(c) ==
  /\ ~ Busy(c)
  /\ active = NoBox
  /\ Goes(c, "failing", NoBox)
  /\ UNCHANGED <<active, box, crashes, crashing, disabled, died, abandoned, interfered>>

ActivateSpawns(c, b) ==
  /\ ~ Busy(c)
  /\ active = NoBox
  /\ Unused(b)
  /\ box' = [box EXCEPT ![b] = Spawned(c)]
  /\ abandoned' = abandoned \ {b}
  /\ Goes(c, "handshake", b)
  /\ NoteInterference
  /\ UNCHANGED <<active, crashes, crashing, disabled, died>>

HandshakeAckedUnset(c) ==               \* mutant: the manager forgets to enter the sandbox
  LET b == call[c].box
  IN  /\ call[c].pc = "handshake" /\ c \in box[b].pending
      /\ box' = [box EXCEPT ![b] = Unpend(@, c)]
      /\ crashes' = 0
      /\ Goes(c, "audited", b)
      /\ UNCHANGED <<active, crashing, disabled, died, abandoned, interfered>>

HandshakeAcked(c) ==
  LET b == call[c].box
  IN  /\ call[c].pc = "handshake" /\ c \in box[b].pending
      /\ box' = [box EXCEPT ![b] = Unpend(@, c)]
      /\ active' = b
      /\ crashes' = 0
      /\ Goes(c, "audited", b)
      /\ UNCHANGED <<crashing, disabled, died, abandoned, interfered>>

(* The process is left running. *)
HandshakeTimesOut(c) ==
  LET b == call[c].box
  IN  /\ call[c].pc = "handshake" /\ c \in box[b].pending
      /\ box' = [box EXCEPT ![b] = Unpend(@, c)]
      /\ abandoned' = abandoned \union {b}
      /\ Goes(c, "failing", b)
      /\ UNCHANGED <<active, crashes, crashing, disabled, died, interfered>>

(* invoke: not active, a dead sandbox, or the request is sent.             *)
InvokeRefused(c) ==
  /\ ~ Busy(c)
  /\ \/ active = NoBox /\ Goes(c, "threw", NoBox)
     \/ active # NoBox /\ ~ Usable(box[active]) /\ Goes(c, "failing", active)
  /\ UNCHANGED <<active, box, crashes, crashing, disabled, died, abandoned, interfered>>

InvokeSends(c) ==
  /\ ~ Busy(c)
  /\ active # NoBox
  /\ Usable(box[active])
  /\ box' = [box EXCEPT ![active] = Pend(@, c)]
  /\ Goes(c, "invoking", active)
  /\ UNCHANGED <<active, crashes, crashing, disabled, died, abandoned, interfered>>

(* The plugin's result, its error, or the timer. *)
InvokeSettles(c, pc) ==
  LET b == call[c].box
  IN  /\ call[c].pc = "invoking" /\ c \in box[b].pending
      /\ pc \in {"audited", "failing"}
      /\ box' = [box EXCEPT ![b] = Unpend(@, c)]
      /\ Goes(c, pc, b)
      /\ UNCHANGED <<active, crashes, crashing, disabled, died, abandoned, interfered>>

Ended(c) == Goes(c, "audited", active) /\ active' = NoBox

(* deactivate: nothing to do; a sandbox that is terminated already, whose  *)
(* terminate returns at once; or one to terminate.                         *)
DeactivateIgnored(c) ==
  /\ ~ Busy(c)
  /\ active = NoBox
  /\ Goes(c, "returned", NoBox)
  /\ UNCHANGED <<active, box, crashes, crashing, disabled, died, abandoned, interfered>>

DeactivateDead(c) ==
  /\ ~ Busy(c)
  /\ active # NoBox
  /\ ~ Usable(box[active])
  /\ Ended(c)
  /\ NoteInterference
  /\ UNCHANGED <<box, crashes, crashing, disabled, died, abandoned>>

DeactivateTerminates(c) ==
  /\ ~ Busy(c)
  /\ active # NoBox
  /\ Usable(box[active])
  /\ box' = [box EXCEPT ![active] = Terminate(@)]
  /\ call' = [x \in Callers |->
                IF x = c THEN [pc |-> "terminating", box |-> active] ELSE Rejected(x, active)]
  /\ NoteInterference
  /\ UNCHANGED <<active, crashes, crashing, disabled, died, abandoned>>

(* The process has exited or the grace period is over; the plugin's entry  *)
(* is deleted by name.                                                     *)
TerminateEnds(c) ==
  LET b == call[c].box
  IN  /\ call[c].pc = "terminating"
      /\ box' = [box EXCEPT ![b] = Reap(@)]
      /\ active' = NoBox
      /\ Goes(c, "audited", b)
      /\ UNCHANGED <<crashes, crashing, disabled, died, abandoned, interfered>>

AuditSettlesRetries(c, ok) ==           \* mutant: a rejected append is tried again
  /\ call[c].pc \in {"audited", "failing"}
  /\ IF ok THEN Goes(c, "returned", NoBox)
     ELSE Goes(c, IF call[c].pc = "audited" THEN "failing" ELSE "audited", call[c].box)
  /\ UNCHANGED <<active, box, crashes, crashing, disabled, died, abandoned, interfered>>

(* audit.append has resolved or rejected: the call returns, or throws (an  *)
(* invocation whose audit was rejected after one more append).             *)
AuditSettles(c, ok) ==
  /\ call[c].pc \in {"audited", "failing"}
  /\ Goes(c, IF ok /\ call[c].pc = "audited" THEN "returned" ELSE "threw", NoBox)
  /\ UNCHANGED <<active, box, crashes, crashing, disabled, died, abandoned, interfered>>

CrashesTooEarly(b) ==                   \* mutant: disabled one crash too early
  /\ box[b].process = "running" /\ ~ box[b].terminated
  /\ died < CrashBound
  /\ CountsCrash(b, crashes + 2)
  /\ box' = [box EXCEPT ![b] = Crash(@)]
  /\ call' = [x \in Callers |-> Rejected(x, b)]
  /\ UNCHANGED <<active, disabled, abandoned>>

(* A process that nobody terminated exits: its pending calls are rejected, *)
(* handleCrash counts it and awaits the audit, whatever that answers.      *)
Crashes(b) ==
  /\ box[b].process = "running" /\ ~ box[b].terminated
  /\ died < CrashBound
  /\ CountsCrash(b, crashes + 1)
  /\ box' = [box EXCEPT ![b] = Crash(@)]
  /\ call' = [x \in Callers |-> Rejected(x, b)]
  /\ UNCHANGED <<active, disabled, abandoned>>

CrashAudited(b) ==
  /\ crashing[b] # "no"
  /\ crashing' = [crashing EXCEPT ![b] = "no"]
  /\ IF crashing[b] = "disabling"
       THEN active' = NoBox /\ disabled' = TRUE
       ELSE UNCHANGED <<active, disabled>>
  /\ UNCHANGED <<box, call, crashes, died, abandoned, interfered>>

(* The oldest crash leaves the window. *)
CrashForgotten ==
  /\ died > 0
  /\ died' = died - 1
  /\ crashes' = IF crashes > died' THEN died' ELSE crashes
  /\ UNCHANGED <<active, box, call, crashing, disabled, abandoned, interfered>>

Activate(c) == ActivateKnown(c) \/ ActivateRefused(c) \/ \E b \in Boxes : ActivateSpawns(c, b)
Invoke(c) == InvokeRefused(c) \/ InvokeSends(c)
Deactivate(c) == DeactivateIgnored(c) \/ DeactivateDead(c) \/ DeactivateTerminates(c)

Handshake(c) == HandshakeAcked(c) \/ HandshakeTimesOut(c)

Resume(c) ==
  \/ Handshake(c)
  \/ \E pc \in {"audited", "failing"} : InvokeSettles(c, pc)
  \/ TerminateEnds(c)
  \/ \E ok \in BOOLEAN : AuditSettles(c, ok)

Next ==
  \/ \E c \in Callers : Activate(c) \/ Invoke(c) \/ Deactivate(c)
  \/ \E c \in Callers : Resume(c)
  \/ \E b \in Boxes : Crashes(b)
  \/ \E b \in Boxes : CrashAudited(b)
  \/ CrashForgotten

(* Handshakes, invocations and terminations have timers; the audit settles. *)
Fairness ==
  /\ \A c \in Callers : WF_vars(Resume(c))
  /\ \A b \in Boxes : WF_vars(CrashAudited(b))

Spec == Init /\ [][Next]_vars
FairSpec == Spec /\ Fairness
-----------------------------------------------------------------------------
TypeOK ==
  /\ active \in Boxes \union {NoBox}
  /\ box \in [Boxes -> Sandbox]
  /\ call \in [Callers -> Call]
  /\ \A c \in Callers : Busy(c) => call[c].box \in Boxes \/ call[c].pc = "failing"
  /\ crashes \in 0..died
  /\ crashing \in [Boxes -> {"no", "noted", "disabling"}]
  /\ disabled \in BOOLEAN
  /\ died \in 0..CrashBound
  /\ abandoned \subseteq Boxes
  /\ interfered \in BOOLEAN

(* A call waits for its plugin exactly while the sandbox it was sent to    *)
(* still holds it and can be expected to settle it: whatever order answers,*)
(* timers, crashes and terminations come in, no promise is left behind in  *)
(* a dead sandbox and none is settled twice (process-sandbox.ts:129-400).  *)
PendingExact ==
  /\ \A c \in Callers, b \in Boxes :
       c \in box[b].pending <=> call[c].pc \in {"handshake", "invoking"} /\ call[c].box = b
  /\ \A b \in Boxes : box[b].pending # {} => Usable(box[b]) /\ box[b].process = "running"

(* A process whose sandbox is terminated has exited, or a deactivate is    *)
(* still seeing to it, also when deactivates and activates overlap         *)
(* (process-sandbox.ts:178-213).                                           *)
KillsWhatItTerminates ==
  \A b \in Boxes :
    box[b].process = "running" /\ box[b].terminated =>
      \E c \in Callers : call[c].pc = "terminating" /\ call[c].box = b

(* A process that runs although the manager does not know it. *)
Lost(b) ==
  /\ box[b].process = "running" /\ active # b
  /\ \A c \in Callers : Changing(c) => call[c].box # b

(* As long as activations, deactivations and crashes do not interfere, the *)
(* manager loses only the processes whose handshake timed out              *)
(* (sandbox-manager.ts:73-185).                                            *)
CleanWithoutInterference == ~ interfered => \A b \in Boxes : Lost(b) => b \in abandoned

(* A plugin is disabled only when it really crashed MaxCrashes times       *)
(* within the window, however crashes, resets and the window interleave    *)
(* (crash-handler.ts:57-104).                                              *)
DisablesOnlyOffenders ==
  [][\A b \in Boxes :
       crashing[b] = "no" /\ crashing'[b] = "disabling" => died' >= MaxCrashes]_vars

(* Once the count has reached the limit the plugin is disabled, even when  *)
(* the audit of the crash is rejected (crash-handler.ts:69-96).            *)
OffendersAreDisabled == crashes >= MaxCrashes ~> disabled

(* Every call returns or throws: handshakes, invocations and terminations  *)
(* have timers and a crash rejects them (process-sandbox.ts:129-317).      *)
CallsReturn == \A c \in Callers : Busy(c) ~> ~ Busy(c)

(* No call is left in a dead sandbox and no terminated process is left     *)
(* running, whatever overlaps.                                             *)
ProcessesAccounted == TypeOK /\ PendingExact /\ KillsWhatItTerminates

(* Calls end, and so does the life of a plugin that crashes too often.     *)
CallsEnd == CallsReturn /\ OffendersAreDisabled
-----------------------------------------------------------------------------
(* What the comments of the source say and the code does not do.           *)

(* "Each active plugin has exactly one ProcessSandbox": no other one that  *)
(* once was the plugin's runs (sandbox-manager.ts:35).                     *)
OneSandboxPerPlugin == active # NoBox => \A b \in Boxes : Lost(b) => b \in abandoned

(* "Clean up the dead sandbox reference": what the manager forgets is a    *)
(* terminated sandbox (sandbox-manager.ts:58).                             *)
ForgetsOnlyTheDead == [][active # NoBox /\ active' = NoBox => box'[active].terminated]_vars

(* "Returns whether a plugin is currently active": the entry's sandbox can *)
(* be invoked, or its end is being handled (sandbox-manager.ts:187).       *)
ActiveMeansUsable ==
  active # NoBox =>
    \/ Usable(box[active])
    \/ crashing[active] # "no"
    \/ \E c \in Callers : call[c].pc = "terminating" /\ call[c].box = active

(* "auto-disable after repeated failures" (sandbox-manager.ts:38).         *)
RepeatedCrashesDisable ==
  died >= MaxCrashes => disabled \/ \E b \in Boxes : crashing[b] = "disabling"

(* "Terminates all sandboxes": when no plugin is active and no call is in  *)
(* progress, no plugin process runs (sandbox-manager.ts:207).              *)
InactiveMeansStopped ==
  active = NoBox /\ (\A c \in Callers : ~ Busy(c)) =>
    \A b \in Boxes : box[b].process # "running"
=============================================================================

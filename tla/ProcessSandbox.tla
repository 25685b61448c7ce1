--------------------------- MODULE ProcessSandbox ---------------------------
(***************************************************************************)
(* One plugin process and the host's record of it                          *)
(* (packages/plugin-core/src/sandbox/process-sandbox.ts).  The pending map *)
(* is the set of the calls whose promise it can still settle.  The methods *)
(* run to an await without yielding: each is an operator on the record.    *)
(***************************************************************************)
EXTENDS Integers, FiniteSets

CONSTANT Callers    (* the calls in progress at a time (bound of the model) *)

Sandbox ==
  [process : {"none", "running", "exited"},
   terminated : BOOLEAN,
   child : BOOLEAN,            (* this.child is not null *)
   pending : SUBSET Callers]

NoSandbox == [process |-> "none", terminated |-> FALSE, child |-> FALSE, pending |-> {}]

(* spawn, with the handshake sent for caller c. *)
Spawned(c) == [process |-> "running", terminated |-> FALSE, child |-> TRUE, pending |-> {c}]

Usable(b) == ~ b.terminated /\ b.child

Pend(b, c) == [b EXCEPT !.pending = @ \union {c}]

(* An answer with c's correlation id, or the timer of c. *)
Unpend(b, c) == [b EXCEPT !.pending = @ \ {c}]

(* terminate, up to its await: every pending call is rejected. *)
Terminate(b) == [b EXCEPT !.terminated = TRUE, !.pending = {}]

(* The process has exited, or has been killed after the grace period.      *)
Reap(b) == [b EXCEPT !.process = "exited", !.child = FALSE]

CrashKeepsPending(b) ==                 \* mutant: a crash does not reject the pending calls
  [b EXCEPT !.process = "exited", !.terminated = TRUE]

(* handleUnexpectedExit: child keeps pointing to the dead process. *)
Crash(b) == [b EXCEPT !.process = "exited", !.terminated = TRUE, !.pending = {}]
=============================================================================

------------------------ MODULE SandboxManagerProofs ------------------------
(***************************************************************************)
(* Proofs about SandboxManager for any number of overlapping calls and     *)
(* processes and any crash limit: its type invariant, that no call is left *)
(* in a dead sandbox, that every terminated process is seen to, and that   *)
(* only real repeated crashes disable a plugin.                            *)
(***************************************************************************)
EXTENDS SandboxManager, TLAPS

(* A call that terminates a sandbox has marked it; with PendingExact this  *)
(* keeps the calls that terminate apart from those that a crash rejects.   *)
TerminatingMarked ==
  \A c \in Callers : call[c].pc = "terminating" => box[call[c].box].terminated

(* A sandbox that takes requests has a process. *)
UsableRuns == \A b \in Boxes : Usable(box[b]) => box[b].process = "running"

IInv == TypeOK /\ UsableRuns /\ PendingExact /\ TerminatingMarked /\ KillsWhatItTerminates

(* What a call may wait for, spelled out. *)
LEMMA BusyWaits ==
  ASSUME NEW c \in Callers, TypeOK
  PROVE  Busy(c) <=> call[c].pc \in {"handshake", "invoking", "terminating", "audited", "failing"}
  BY DEF Busy, Waits

LEMMA InitEstablishes == Init => IInv
<1> SUFFICES ASSUME Init PROVE IInv
  OBVIOUS
<1> USE ManagerParameters DEF Init
<1>0. NoSandbox \in Sandbox
  BY DEF Sandbox, NoSandbox
<1>1. TypeOK
  <2>1. box \in [Boxes -> Sandbox]
    BY <1>0
  <2>2. call \in [Callers -> Call]
    BY DEF Call
  <2>3. \A c \in Callers : ~ Busy(c)
    BY DEF Busy, Waits
  <2>4. crashes \in 0..died /\ died \in 0..CrashBound
    BY DEF ManagerParameters
  <2>5. crashing \in [Boxes -> {"no", "noted", "disabling"}]
    OBVIOUS
  <2>6. active \in Boxes \union {NoBox} /\ abandoned \subseteq Boxes /\ disabled \in BOOLEAN /\ interfered \in BOOLEAN
    OBVIOUS
  <2> QED BY <2>1, <2>2, <2>3, <2>4, <2>5, <2>6 DEF TypeOK
<1>2. UsableRuns /\ PendingExact /\ TerminatingMarked /\ KillsWhatItTerminates
  BY DEF UsableRuns, Usable, PendingExact, TerminatingMarked, KillsWhatItTerminates, NoSandbox
<1> QED BY <1>1, <1>2 DEF IInv

(* The operators on a sandbox keep its type. *)
LEMMA SandboxOperators ==
  ASSUME NEW s \in Sandbox, NEW c \in Callers
  PROVE  /\ Spawned(c) \in Sandbox
         /\ Pend(s, c) \in Sandbox
         /\ Unpend(s, c) \in Sandbox
         /\ Terminate(s) \in Sandbox
         /\ Reap(s) \in Sandbox
         /\ Crash(s) \in Sandbox
  BY DEF Sandbox, Spawned, Pend, Unpend, Terminate, Reap, Crash

(* Only activations, invocations, terminations and crashes touch a sandbox *)
(* or what a call waits for; the other steps are one lemma.                *)
LEMMA TypeStep == TypeOK /\ [Next]_vars => TypeOK'
<1> SUFFICES ASSUME TypeOK, [Next]_vars PROVE TypeOK'
  OBVIOUS
<1> USE ManagerParameters
<1>0. NoBox \notin Boxes
  OBVIOUS
<1>a. \A b \in Boxes : box[b] \in Sandbox
  BY DEF TypeOK
<1>b. \A c \in Callers : call[c] \in Call
  BY DEF TypeOK
<1>1. ASSUME NEW c \in Callers, ActivateKnown(c) PROVE TypeOK'
  BY <1>1 DEF TypeOK, ActivateKnown, Goes, Call, Waits, Busy
<1>2. ASSUME NEW c \in Callers, ActivateRefused(c) PROVE TypeOK'
  BY <1>2 DEF TypeOK, ActivateRefused, Goes, Call, Waits, Busy
<1>3. ASSUME NEW c \in Callers, NEW b \in Boxes, ActivateSpawns(c, b) PROVE TypeOK'
  <2>1. Spawned(c) \in Sandbox
    BY <1>a, SandboxOperators
  <2> QED BY <1>3, <2>1 DEF TypeOK, ActivateSpawns, Goes, Call, Waits, Busy, NoteInterference
<1>4. ASSUME NEW c \in Callers, HandshakeAcked(c) PROVE TypeOK'
  <2>1. call[c].box \in Boxes
    BY <1>4 DEF TypeOK, HandshakeAcked, Busy, Waits
  <2>2. Unpend(box[call[c].box], c) \in Sandbox
    BY <1>a, <2>1, SandboxOperators
  <2> QED BY <1>4, <2>1, <2>2 DEF TypeOK, HandshakeAcked, Goes, Call, Waits, Busy
<1>5. ASSUME NEW c \in Callers, HandshakeTimesOut(c) PROVE TypeOK'
  <2>1. call[c].box \in Boxes
    BY <1>5 DEF TypeOK, HandshakeTimesOut, Busy, Waits
  <2>2. Unpend(box[call[c].box], c) \in Sandbox
    BY <1>a, <2>1, SandboxOperators
  <2> QED BY <1>5, <2>1, <2>2 DEF TypeOK, HandshakeTimesOut, Goes, Call, Waits, Busy
<1>6. ASSUME NEW c \in Callers, InvokeRefused(c) PROVE TypeOK'
  BY <1>6 DEF TypeOK, InvokeRefused, Goes, Call, Waits, Busy
<1>7. ASSUME NEW c \in Callers, InvokeSends(c) PROVE TypeOK'
  <2>1. active \in Boxes
    BY <1>7 DEF TypeOK, InvokeSends
  <2>2. Pend(box[active], c) \in Sandbox
    BY <1>a, <2>1, SandboxOperators
  <2> QED BY <1>7, <2>1, <2>2 DEF TypeOK, InvokeSends, Goes, Call, Waits, Busy
<1>8. ASSUME NEW c \in Callers, NEW pc \in {"audited", "failing"}, InvokeSettles(c, pc) PROVE TypeOK'
  <2>1. call[c].box \in Boxes
    BY <1>8 DEF TypeOK, InvokeSettles, Busy, Waits
  <2>2. Unpend(box[call[c].box], c) \in Sandbox
    BY <1>a, <2>1, SandboxOperators
  <2> QED BY <1>8, <2>1, <2>2 DEF TypeOK, InvokeSettles, Goes, Call, Waits, Busy
<1>9. ASSUME NEW c \in Callers, DeactivateIgnored(c) PROVE TypeOK'
  BY <1>9 DEF TypeOK, DeactivateIgnored, Goes, Call, Waits, Busy
<1>10. ASSUME NEW c \in Callers, DeactivateDead(c) PROVE TypeOK'
  BY <1>10 DEF TypeOK, DeactivateDead, Ended, Goes, Call, Waits, Busy, NoteInterference
<1>11. ASSUME NEW c \in Callers, DeactivateTerminates(c) PROVE TypeOK'
  <2>1. active \in Boxes
    BY <1>11 DEF TypeOK, DeactivateTerminates
  <2>2. Terminate(box[active]) \in Sandbox
    BY <1>a, <2>1, SandboxOperators
  <2>3. box' \in [Boxes -> Sandbox]
    BY <1>11, <2>1, <2>2 DEF TypeOK, DeactivateTerminates
  <2>4. call' \in [Callers -> Call]
    BY <1>11, <1>b, <2>1 DEF DeactivateTerminates, Rejected, Call, Waits
  <2>5. ASSUME NEW x \in Callers, Busy(x)' PROVE call'[x].box \in Boxes \/ call'[x].pc = "failing"
    BY <1>11, <1>b, <2>1, <2>5 DEF TypeOK, DeactivateTerminates, Rejected, Busy, Waits, Call
  <2> QED BY <1>11, <2>3, <2>4, <2>5 DEF TypeOK, DeactivateTerminates, NoteInterference
<1>12. ASSUME NEW c \in Callers, TerminateEnds(c) PROVE TypeOK'
  <2>1. call[c].box \in Boxes
    BY <1>12 DEF TypeOK, TerminateEnds, Busy, Waits
  <2>2. Reap(box[call[c].box]) \in Sandbox
    BY <1>a, <2>1, SandboxOperators
  <2> QED BY <1>12, <2>1, <2>2 DEF TypeOK, TerminateEnds, Goes, Call, Waits, Busy
<1>13. ASSUME NEW c \in Callers, NEW ok \in BOOLEAN, AuditSettles(c, ok) PROVE TypeOK'
  BY <1>13 DEF TypeOK, AuditSettles, Goes, Call, Waits, Busy
<1>14. ASSUME NEW b \in Boxes, Crashes(b) PROVE TypeOK'
  <2>1. Crash(box[b]) \in Sandbox
    BY <1>a DEF Sandbox, Crash
  <2>2. box' \in [Boxes -> Sandbox]
    BY <1>14, <2>1 DEF TypeOK, Crashes
  <2>3. call' \in [Callers -> Call]
    BY <1>14, <1>b DEF Crashes, Rejected, Call, Waits
  <2>4. ASSUME NEW x \in Callers, Busy(x)' PROVE call'[x].box \in Boxes \/ call'[x].pc = "failing"
    BY <1>14, <1>b, <2>4 DEF TypeOK, Crashes, Rejected, Busy, Waits, Call
  <2> QED BY <1>14, <2>2, <2>3, <2>4 DEF TypeOK, Crashes, CountsCrash
<1>15. ASSUME NEW b \in Boxes, CrashAudited(b) PROVE TypeOK'
  BY <1>15 DEF TypeOK, CrashAudited, Busy
<1>16. CASE CrashForgotten
  BY <1>16 DEF TypeOK, CrashForgotten, Busy
<1>17. CASE UNCHANGED vars
  BY <1>17 DEF TypeOK, vars, Busy
<1> QED
  BY <1>1, <1>2, <1>3, <1>4, <1>5, <1>6, <1>7, <1>8, <1>9, <1>10, <1>11, <1>12, <1>13, <1>14, <1>15,
     <1>16, <1>17 DEF Next, Activate, Invoke, Deactivate, Resume, Handshake

(* Type correctness of the manager, its processes and its calls            *)
(* (sandbox-manager.ts:41-212).                                            *)
THEOREM TypeCorrect == Spec => []TypeOK
<1>1. Init => TypeOK
  BY InitEstablishes DEF IInv
<1> QED BY <1>1, TypeStep, PTL DEF Spec

(* Every operator on a sandbox keeps what takes requests running.          *)
LEMMA UsableStep == TypeOK /\ UsableRuns /\ [Next]_vars => UsableRuns'
<1> SUFFICES ASSUME TypeOK, UsableRuns, [Next]_vars, NEW y \in Boxes, Usable(box'[y])
             PROVE  box'[y].process = "running"
  BY DEF UsableRuns
<1> DEFINE Held == box'[y].process = "running"
<1>a. box \in [Boxes -> Sandbox] /\ (Usable(box[y]) => box[y].process = "running")
  BY DEF TypeOK, UsableRuns
<1>b. box' = box => Held
  BY <1>a
<1>1. ASSUME NEW c \in Callers, Activate(c) PROVE Held
  BY <1>a, <1>b, <1>1 DEF Activate, ActivateKnown, ActivateRefused, ActivateSpawns, Spawned
<1>2. ASSUME NEW c \in Callers, Invoke(c) PROVE Held
  BY <1>a, <1>b, <1>2 DEF Invoke, InvokeRefused, InvokeSends, Pend, Usable, Sandbox
<1>3. ASSUME NEW c \in Callers, Deactivate(c) PROVE Held
  BY <1>a, <1>b, <1>3 DEF Deactivate, DeactivateIgnored, DeactivateDead, DeactivateTerminates,
     Terminate, Usable, Sandbox
<1>4. ASSUME NEW c \in Callers, Handshake(c) PROVE Held
  BY <1>a, <1>4 DEF Handshake, HandshakeAcked, HandshakeTimesOut, Unpend, Usable, Sandbox
<1>5. ASSUME NEW c \in Callers, NEW pc \in {"audited", "failing"}, InvokeSettles(c, pc) PROVE Held
  BY <1>a, <1>5 DEF InvokeSettles, Unpend, Usable, Sandbox
<1>6. ASSUME NEW c \in Callers, TerminateEnds(c) PROVE Held
  BY <1>a, <1>6 DEF TerminateEnds, Reap, Usable, Sandbox
<1>7. ASSUME NEW c \in Callers, NEW ok \in BOOLEAN, AuditSettles(c, ok) PROVE Held
  BY <1>b, <1>7 DEF AuditSettles
<1>8. ASSUME NEW b \in Boxes, Crashes(b) PROVE Held
  BY <1>a, <1>8 DEF Crashes, Crash, Usable, Sandbox
<1>9. ASSUME NEW b \in Boxes, CrashAudited(b) PROVE Held
  BY <1>b, <1>9 DEF CrashAudited
<1>10. CASE CrashForgotten \/ UNCHANGED vars
  BY <1>b, <1>10 DEF CrashForgotten, vars
<1> QED
  BY <1>1, <1>2, <1>3, <1>4, <1>5, <1>6, <1>7, <1>8, <1>9, <1>10 DEF Next, Resume

(* A call that starts or ends without touching a sandbox.                  *)
LEMMA CallOnly ==
  ASSUME IInv, NEW c \in Callers, UNCHANGED box, NEW pc \in {"idle", "returned", "threw", "audited", "failing"},
         NEW b \in Boxes \union {NoBox}, Goes(c, pc, b),
         ~ Busy(c) \/ call[c].pc \in {"audited", "failing"}
  PROVE  (PendingExact /\ TerminatingMarked /\ KillsWhatItTerminates)'
<1>1. call \in [Callers -> Call] /\ call' \in [Callers -> Call]
  BY DEF IInv, TypeOK, Goes, Call, Waits
<1>2. call'[c].pc = pc /\ call'[c].box = b /\ \A x \in Callers : x # c => call'[x] = call[x]
  BY <1>1 DEF Goes
<1>3. call[c].pc \notin {"handshake", "invoking", "terminating"}
  BY DEF Busy, Waits
<1>4. PendingExact'
  BY <1>2, <1>3 DEF IInv, PendingExact, Usable
<1>5. TerminatingMarked'
  BY <1>2, <1>3 DEF IInv, TerminatingMarked
<1>6. KillsWhatItTerminates'
  BY <1>2, <1>3 DEF IInv, KillsWhatItTerminates
<1> QED BY <1>4, <1>5, <1>6

(* Rejecting b's pending calls ends exactly the waits for b.               *)
LEMMA Rejecting ==
  ASSUME TypeOK, PendingExact, NEW x \in Callers, NEW b \in Boxes
  PROVE  /\ Rejected(x, b).box = call[x].box
         /\ Rejected(x, b).pc = "terminating" <=> call[x].pc = "terminating"
         /\ Rejected(x, b).pc \in {"handshake", "invoking"} => Rejected(x, b) = call[x] /\ call[x].box # b
         /\ call[x].box # b => Rejected(x, b) = call[x]
<1>1. call[x] \in [pc : {"idle", "returned", "threw"} \union Waits, box : Boxes \union {NoBox}]
  BY DEF TypeOK, Call
<1>2. x \in box[b].pending <=> call[x].pc \in {"handshake", "invoking"} /\ call[x].box = b
  BY DEF PendingExact
<1>3. CASE x \in box[b].pending
  <2>1. Rejected(x, b) = [call[x] EXCEPT !.pc = "failing"]
    BY <1>3 DEF Rejected
  <2>2. Rejected(x, b).pc = "failing" /\ Rejected(x, b).box = call[x].box
    BY <1>1, <2>1
  <2> QED BY <1>2, <1>3, <2>2
<1>4. CASE x \notin box[b].pending
  BY <1>2, <1>4 DEF Rejected
<1> QED BY <1>3, <1>4

(* A call that leaves the pending map of its sandbox because it is settled. *)
LEMMA Settling ==
  ASSUME IInv, NEW c \in Callers, NEW b \in Boxes, NEW pc \in {"audited", "failing"},
         b = call[c].box, call[c].pc \in {"handshake", "invoking"},
         box' = [box EXCEPT ![b] = Unpend(@, c)], Goes(c, pc, b)
  PROVE  (PendingExact /\ TerminatingMarked /\ KillsWhatItTerminates)'
<1>1. call \in [Callers -> Call] /\ box \in [Boxes -> Sandbox]
  BY DEF IInv, TypeOK
<1>2. call'[c].pc = pc /\ call'[c].box = b /\ \A x \in Callers : x # c => call'[x] = call[x]
  BY <1>1 DEF Goes
<1>3. \A y \in Boxes : y # b => box'[y] = box[y]
  BY <1>1
<1>4. /\ box'[b].pending = box[b].pending \ {c}
      /\ box'[b].terminated = box[b].terminated
      /\ box'[b].child = box[b].child
      /\ box'[b].process = box[b].process
  BY <1>1 DEF Unpend, Sandbox
<1>5. PendingExact'
  <2>1. ASSUME NEW x \in Callers, NEW y \in Boxes
        PROVE  x \in box'[y].pending <=> call'[x].pc \in {"handshake", "invoking"} /\ call'[x].box = y
    BY <1>2, <1>3, <1>4 DEF IInv, PendingExact
  <2>2. ASSUME NEW y \in Boxes, box'[y].pending # {}
        PROVE  ~ box'[y].terminated /\ box'[y].child /\ box'[y].process = "running"
    BY <1>3, <1>4, <2>2 DEF IInv, PendingExact, Usable
  <2> QED BY <2>1, <2>2 DEF PendingExact, Usable
<1>6. TerminatingMarked'
  <2>1. ASSUME NEW x \in Callers, call'[x].pc = "terminating" PROVE box'[call'[x].box].terminated
    <3>1. x # c /\ call'[x] = call[x]
      BY <1>2, <2>1
    <3>2. box[call[x].box].terminated /\ call[x].box \in Boxes
      BY <2>1, <3>1 DEF IInv, TerminatingMarked, TypeOK, Busy, Waits
    <3> QED BY <1>3, <1>4, <3>1, <3>2
  <2> QED BY <2>1 DEF TerminatingMarked
<1>7. KillsWhatItTerminates'
  BY <1>2, <1>3, <1>4 DEF IInv, KillsWhatItTerminates
<1> QED BY <1>5, <1>6, <1>7

LEMMA StepHeld == IInv /\ [Next]_vars => (PendingExact /\ TerminatingMarked /\ KillsWhatItTerminates)'
<1> SUFFICES ASSUME IInv, [Next]_vars PROVE (PendingExact /\ TerminatingMarked /\ KillsWhatItTerminates)'
  OBVIOUS
<1> DEFINE Held == PendingExact /\ TerminatingMarked /\ KillsWhatItTerminates
<1>a. call \in [Callers -> Call] /\ box \in [Boxes -> Sandbox] /\ active \in Boxes \union {NoBox}
  BY DEF IInv, TypeOK
<1>b. \A c \in Callers : call[c].box \in Boxes \union {NoBox}
  BY <1>a DEF Call
<1>1. ASSUME NEW c \in Callers, ActivateKnown(c) PROVE Held'
  BY <1>1, CallOnly DEF ActivateKnown
<1>2. ASSUME NEW c \in Callers, ActivateRefused(c) PROVE Held'
  BY <1>2, CallOnly DEF ActivateRefused
<1>3. ASSUME NEW c \in Callers, NEW b \in Boxes, ActivateSpawns(c, b) PROVE Held'
  <2>1. /\ call'[c].pc = "handshake" /\ call'[c].box = b
        /\ \A x \in Callers : x # c => call'[x] = call[x]
    BY <1>a, <1>3 DEF ActivateSpawns, Goes
  <2>2. /\ \A y \in Boxes : y # b => box'[y] = box[y]
        /\ box'[b].process = "running" /\ ~ box'[b].terminated /\ box'[b].child /\ box'[b].pending = {c}
    BY <1>a, <1>3 DEF ActivateSpawns, Spawned
  <2>3. box[b].pending = {} /\ call[c].pc \notin {"handshake", "invoking", "terminating"}
    BY <1>3 DEF ActivateSpawns, Unused, IInv, PendingExact, Busy, Waits
  <2>4. \A x \in Callers : call[x].pc \in {"handshake", "invoking", "terminating"} => call[x].box # b
    BY <1>3 DEF ActivateSpawns, Unused, Busy, Waits
  <2>5. PendingExact'
    <3>1. ASSUME NEW x \in Callers, NEW y \in Boxes
          PROVE  x \in box'[y].pending <=> call'[x].pc \in {"handshake", "invoking"} /\ call'[x].box = y
      BY <2>1, <2>2, <2>3, <2>4 DEF IInv, PendingExact
    <3>2. ASSUME NEW y \in Boxes, box'[y].pending # {}
          PROVE  ~ box'[y].terminated /\ box'[y].child /\ box'[y].process = "running"
      BY <2>2, <3>2 DEF IInv, PendingExact, Usable
    <3> QED BY <3>1, <3>2 DEF PendingExact, Usable
  <2>6. TerminatingMarked'
    <3>1. ASSUME NEW x \in Callers, call'[x].pc = "terminating" PROVE box'[call'[x].box].terminated
      <4>1. x # c /\ call'[x] = call[x]
        BY <2>1, <3>1
      <4>2. box[call[x].box].terminated /\ call[x].box \in Boxes /\ call[x].box # b
        BY <2>4, <3>1, <4>1 DEF IInv, TerminatingMarked, TypeOK, Busy, Waits
      <4> QED BY <2>2, <4>1, <4>2
    <3> QED BY <3>1 DEF TerminatingMarked
  <2>7. KillsWhatItTerminates'
    BY <2>1, <2>2, <2>3 DEF IInv, KillsWhatItTerminates
  <2> QED BY <2>5, <2>6, <2>7
<1>4. ASSUME NEW c \in Callers, HandshakeAcked(c) PROVE Held'
  <2>1. call[c].box \in Boxes /\ call[c].pc = "handshake"
    BY <1>4 DEF HandshakeAcked, IInv, TypeOK, Busy, Waits
  <2> QED BY <1>4, <2>1, Settling DEF HandshakeAcked
<1>5. ASSUME NEW c \in Callers, HandshakeTimesOut(c) PROVE Held'
  <2>1. call[c].box \in Boxes /\ call[c].pc = "handshake"
    BY <1>5 DEF HandshakeTimesOut, IInv, TypeOK, Busy, Waits
  <2> QED BY <1>5, <2>1, Settling DEF HandshakeTimesOut
<1>6. ASSUME NEW c \in Callers, InvokeRefused(c) PROVE Held'
  <2>1. PICK pc \in {"threw", "failing"}, b \in Boxes \union {NoBox} : Goes(c, pc, b)
    BY <1>a, <1>6 DEF InvokeRefused
  <2> QED BY <1>6, <2>1, CallOnly DEF InvokeRefused
<1>7. ASSUME NEW c \in Callers, InvokeSends(c) PROVE Held'
  <2>0. active \in Boxes
    BY <1>a, <1>7 DEF InvokeSends
  <2>1. /\ call'[c].pc = "invoking" /\ call'[c].box = active
        /\ \A x \in Callers : x # c => call'[x] = call[x]
    BY <1>a, <1>7 DEF InvokeSends, Goes
  <2>2. /\ \A y \in Boxes : y # active => box'[y] = box[y]
        /\ box'[active].process = box[active].process
        /\ box'[active].terminated = box[active].terminated
        /\ box'[active].child = box[active].child
        /\ box'[active].pending = box[active].pending \union {c}
    BY <1>a, <1>7, <2>0 DEF InvokeSends, Pend, Sandbox
  <2>3. call[c].pc \notin {"handshake", "invoking", "terminating"}
    BY <1>7 DEF InvokeSends, Busy, Waits
  <2>4. box[active].process = "running" /\ ~ box[active].terminated /\ box[active].child
    BY <1>7, <2>0 DEF InvokeSends, Usable, IInv, UsableRuns
  <2>5. PendingExact'
    <3>1. ASSUME NEW x \in Callers, NEW y \in Boxes
          PROVE  x \in box'[y].pending <=> call'[x].pc \in {"handshake", "invoking"} /\ call'[x].box = y
      BY <2>0, <2>1, <2>2, <2>3 DEF IInv, PendingExact
    <3>2. ASSUME NEW y \in Boxes, box'[y].pending # {}
          PROVE  ~ box'[y].terminated /\ box'[y].child /\ box'[y].process = "running"
      BY <2>2, <2>4, <3>2 DEF IInv, PendingExact, Usable
    <3> QED BY <3>1, <3>2 DEF PendingExact, Usable
  <2>6. TerminatingMarked'
    <3>1. ASSUME NEW x \in Callers, call'[x].pc = "terminating" PROVE box'[call'[x].box].terminated
      <4>1. x # c /\ call'[x] = call[x]
        BY <2>1, <3>1
      <4>2. box[call[x].box].terminated /\ call[x].box \in Boxes
        BY <3>1, <4>1 DEF IInv, TerminatingMarked, TypeOK, Busy, Waits
      <4> QED BY <2>2, <4>1, <4>2
    <3> QED BY <3>1 DEF TerminatingMarked
  <2>7. KillsWhatItTerminates'
    BY <2>1, <2>2, <2>3 DEF IInv, KillsWhatItTerminates
  <2> QED BY <2>5, <2>6, <2>7
<1>8. ASSUME NEW c \in Callers, NEW pc \in {"audited", "failing"}, InvokeSettles(c, pc) PROVE Held'
  <2>1. call[c].box \in Boxes /\ call[c].pc = "invoking"
    BY <1>8 DEF InvokeSettles, IInv, TypeOK, Busy, Waits
  <2> QED BY <1>8, <2>1, Settling DEF InvokeSettles
<1>9. ASSUME NEW c \in Callers, DeactivateIgnored(c) PROVE Held'
  BY <1>9, CallOnly DEF DeactivateIgnored
<1>10. ASSUME NEW c \in Callers, DeactivateDead(c) PROVE Held'
  BY <1>a, <1>10, CallOnly DEF DeactivateDead, Ended
<1>11. ASSUME NEW c \in Callers, DeactivateTerminates(c) PROVE Held'
  <2>0. active \in Boxes
    BY <1>a, <1>11 DEF DeactivateTerminates
  <2>1. /\ call'[c].pc = "terminating" /\ call'[c].box = active
        /\ \A x \in Callers : x # c => call'[x] = Rejected(x, active)
    BY <1>a, <1>11 DEF DeactivateTerminates
  <2>2. /\ \A y \in Boxes : y # active => box'[y] = box[y]
        /\ box'[active].terminated /\ box'[active].pending = {}
    BY <1>a, <1>11, <2>0 DEF DeactivateTerminates, Terminate, Sandbox
  <2>3. call[c].pc \notin {"handshake", "invoking", "terminating"}
    BY <1>11 DEF DeactivateTerminates, Busy, Waits
  <2>4. \A x \in Callers : x # c /\ call'[x].pc \in {"handshake", "invoking"} =>
          call'[x] = call[x] /\ call[x].box # active
    BY <2>0, <2>1, Rejecting DEF IInv
  <2>5. \A x \in Callers : x # c => call'[x].box = call[x].box
    BY <2>0, <2>1, Rejecting DEF IInv
  <2>6. \A x \in Callers : x # c => (call'[x].pc = "terminating" <=> call[x].pc = "terminating")
    BY <2>0, <2>1, Rejecting DEF IInv
  <2>7. \A x \in Callers : \A y \in Boxes : y # active /\ x \in box[y].pending => x # c /\ call'[x] = call[x]
    <3>1. ASSUME NEW x \in Callers, NEW y \in Boxes, y # active, x \in box[y].pending
          PROVE  x # c /\ call'[x] = call[x]
      <4>1. call[x].pc \in {"handshake", "invoking"} /\ call[x].box = y
        BY <3>1 DEF IInv, PendingExact
      <4>2. x # c
        BY <2>3, <4>1
      <4> QED BY <2>0, <2>1, <3>1, <4>1, <4>2, Rejecting DEF IInv
    <3> QED BY <3>1
  <2>8. PendingExact'
    <3>1. ASSUME NEW x \in Callers, NEW y \in Boxes
          PROVE  x \in box'[y].pending <=> call'[x].pc \in {"handshake", "invoking"} /\ call'[x].box = y
      <4>1. CASE y = active
        BY <2>1, <2>2, <2>4, <4>1
      <4>2. CASE y # active
        <5>1. x \in box[y].pending => call'[x].pc \in {"handshake", "invoking"} /\ call'[x].box = y
          BY <2>7, <4>2 DEF IInv, PendingExact
        <5>2. call'[x].pc \in {"handshake", "invoking"} /\ call'[x].box = y => x \in box[y].pending
          BY <2>1, <2>4 DEF IInv, PendingExact
        <5> QED BY <2>2, <4>2, <5>1, <5>2
      <4> QED BY <4>1, <4>2
    <3>2. ASSUME NEW y \in Boxes, box'[y].pending # {}
          PROVE  ~ box'[y].terminated /\ box'[y].child /\ box'[y].process = "running"
      BY <2>2, <3>2 DEF IInv, PendingExact, Usable
    <3> QED BY <3>1, <3>2 DEF PendingExact, Usable
  <2>9. TerminatingMarked'
    <3>1. ASSUME NEW x \in Callers, call'[x].pc = "terminating" PROVE box'[call'[x].box].terminated
      <4>1. CASE x = c
        BY <2>1, <2>2, <4>1
      <4>2. CASE x # c
        <5>1. box[call[x].box].terminated /\ call[x].box \in Boxes
          BY <2>6, <3>1, <4>2 DEF IInv, TerminatingMarked, TypeOK, Busy, Waits
        <5> QED BY <2>2, <2>5, <4>2, <5>1
      <4> QED BY <4>1, <4>2
    <3> QED BY <3>1 DEF TerminatingMarked
  <2>10. KillsWhatItTerminates'
    <3>1. ASSUME NEW y \in Boxes, box'[y].process = "running", box'[y].terminated
          PROVE  \E x \in Callers : call'[x].pc = "terminating" /\ call'[x].box = y
      <4>1. CASE y = active
        BY <2>1, <4>1
      <4>2. CASE y # active
        <5>1. PICK x \in Callers : call[x].pc = "terminating" /\ call[x].box = y
          BY <2>2, <3>1, <4>2 DEF IInv, KillsWhatItTerminates
        <5>2. x # c
          BY <2>3, <5>1
        <5> QED BY <2>5, <2>6, <5>1, <5>2
      <4> QED BY <4>1, <4>2
    <3> QED BY <3>1 DEF KillsWhatItTerminates
  <2> QED BY <2>8, <2>9, <2>10
<1>12. ASSUME NEW c \in Callers, TerminateEnds(c) PROVE Held'
  <2> DEFINE b == call[c].box
  <2>0. b \in Boxes /\ call[c].pc = "terminating"
    BY <1>12 DEF TerminateEnds, IInv, TypeOK, Busy, Waits
  <2>1. /\ call'[c].pc = "audited"
        /\ \A x \in Callers : x # c => call'[x] = call[x]
    BY <1>a, <1>12 DEF TerminateEnds, Goes
  <2>2. /\ \A y \in Boxes : y # b => box'[y] = box[y]
        /\ box'[b].process = "exited" /\ box'[b].terminated = box[b].terminated
        /\ box'[b].pending = box[b].pending
    BY <1>a, <1>12, <2>0 DEF TerminateEnds, Reap, Sandbox
  <2>3. box[b].pending = {}
    BY <2>0 DEF IInv, PendingExact, TerminatingMarked, Usable
  <2> HIDE DEF b
  <2>4. PendingExact'
    <3>1. ASSUME NEW x \in Callers, NEW y \in Boxes
          PROVE  x \in box'[y].pending <=> call'[x].pc \in {"handshake", "invoking"} /\ call'[x].box = y
      BY <2>0, <2>1, <2>2 DEF IInv, PendingExact
    <3>2. ASSUME NEW y \in Boxes, box'[y].pending # {}
          PROVE  ~ box'[y].terminated /\ box'[y].child /\ box'[y].process = "running"
      BY <2>2, <2>3, <3>2 DEF IInv, PendingExact, Usable
    <3> QED BY <3>1, <3>2 DEF PendingExact, Usable
  <2>5. TerminatingMarked'
    <3>1. ASSUME NEW x \in Callers, call'[x].pc = "terminating" PROVE box'[call'[x].box].terminated
      <4>1. x # c /\ call'[x] = call[x]
        BY <2>1, <3>1
      <4>2. box[call[x].box].terminated /\ call[x].box \in Boxes
        BY <3>1, <4>1 DEF IInv, TerminatingMarked, TypeOK, Busy, Waits
      <4> QED BY <2>2, <4>1, <4>2
    <3> QED BY <3>1 DEF TerminatingMarked
  <2>6. KillsWhatItTerminates'
    <3>1. ASSUME NEW y \in Boxes, box'[y].process = "running", box'[y].terminated
          PROVE  \E x \in Callers : call'[x].pc = "terminating" /\ call'[x].box = y
      <4>1. y # b /\ box'[y] = box[y]
        BY <2>2, <3>1
      <4>2. PICK x \in Callers : call[x].pc = "terminating" /\ call[x].box = y
        BY <3>1, <4>1 DEF IInv, KillsWhatItTerminates
      <4>3. x # c
        BY <4>1, <4>2 DEF b
      <4> QED BY <2>1, <4>2, <4>3
    <3> QED BY <3>1 DEF KillsWhatItTerminates
  <2> QED BY <2>4, <2>5, <2>6
<1>13. ASSUME NEW c \in Callers, NEW ok \in BOOLEAN, AuditSettles(c, ok) PROVE Held'
  <2>1. PICK pc \in {"returned", "threw"} : Goes(c, pc, NoBox)
    BY <1>13 DEF AuditSettles
  <2> QED BY <1>13, <2>1, CallOnly DEF AuditSettles
<1>14. ASSUME NEW b \in Boxes, Crashes(b) PROVE Held'
  <2>1. \A x \in Callers : call'[x] = Rejected(x, b)
    BY <1>14 DEF Crashes
  <2>2. /\ \A y \in Boxes : y # b => box'[y] = box[y]
        /\ box'[b].process = "exited" /\ box'[b].terminated /\ box'[b].pending = {}
    BY <1>a, <1>14 DEF Crashes, Crash, Sandbox
  <2>3. \A x \in Callers : call'[x].box = call[x].box
    BY <2>1, Rejecting DEF IInv
  <2>4. \A x \in Callers : call'[x].pc = "terminating" <=> call[x].pc = "terminating"
    BY <2>1, Rejecting DEF IInv
  <2>5. \A x \in Callers : call'[x].pc \in {"handshake", "invoking"} <=>
                            call[x].pc \in {"handshake", "invoking"} /\ call[x].box # b
    BY <2>1, Rejecting DEF IInv
  <2>6. PendingExact'
    <3>1. ASSUME NEW x \in Callers, NEW y \in Boxes
          PROVE  x \in box'[y].pending <=> call'[x].pc \in {"handshake", "invoking"} /\ call'[x].box = y
      BY <2>2, <2>3, <2>5 DEF IInv, PendingExact
    <3>2. ASSUME NEW y \in Boxes, box'[y].pending # {}
          PROVE  ~ box'[y].terminated /\ box'[y].child /\ box'[y].process = "running"
      BY <2>2, <3>2 DEF IInv, PendingExact, Usable
    <3> QED BY <3>1, <3>2 DEF PendingExact, Usable
  <2>7. TerminatingMarked'
    <3>1. ASSUME NEW x \in Callers, call'[x].pc = "terminating" PROVE box'[call'[x].box].terminated
      <4>1. box[call[x].box].terminated /\ call[x].box \in Boxes
        BY <2>4, <3>1 DEF IInv, TerminatingMarked, TypeOK, Busy, Waits
      <4> QED BY <2>2, <2>3, <4>1
    <3> QED BY <3>1 DEF TerminatingMarked
  <2>8. KillsWhatItTerminates'
    BY <2>2, <2>3, <2>4 DEF IInv, KillsWhatItTerminates
  <2> QED BY <2>6, <2>7, <2>8
<1>15. ASSUME NEW b \in Boxes, CrashAudited(b) PROVE Held'
  BY <1>15 DEF IInv, CrashAudited, PendingExact, TerminatingMarked, KillsWhatItTerminates
<1>16. CASE CrashForgotten
  BY <1>16 DEF IInv, CrashForgotten, PendingExact, TerminatingMarked, KillsWhatItTerminates
<1>17. CASE UNCHANGED vars
  BY <1>17 DEF IInv, vars, PendingExact, TerminatingMarked, KillsWhatItTerminates
<1> QED
  BY <1>1, <1>2, <1>3, <1>4, <1>5, <1>6, <1>7, <1>8, <1>9, <1>10, <1>11, <1>12, <1>13, <1>14, <1>15,
     <1>16, <1>17 DEF Next, Activate, Invoke, Deactivate, Resume, Handshake

LEMMA Inductive == Spec => []IInv
<1>1. IInv /\ [Next]_vars => IInv'
  BY TypeStep, UsableStep, StepHeld DEF IInv
<1> QED BY <1>1, InitEstablishes, PTL DEF Spec

(* No call is left waiting in a dead sandbox, and none is settled twice    *)
(* (process-sandbox.ts:129-400).                                           *)
THEOREM NoCallIsForgotten == Spec => []PendingExact
<1>1. IInv => PendingExact
  BY DEF IInv
<1> QED BY <1>1, Inductive, PTL

(* Every process the manager terminated is gone or being seen to           *)
(* (process-sandbox.ts:178-213).                                           *)
THEOREM TerminatedIsSeenTo == Spec => []KillsWhatItTerminates
<1>1. IInv => KillsWhatItTerminates
  BY DEF IInv
<1> QED BY <1>1, Inductive, PTL

(* Only a plugin that crashed MaxCrashes times within the window is        *)
(* disabled (crash-handler.ts:57-104).                                     *)
THEOREM OnlyOffendersAreDisabled == Spec => DisablesOnlyOffenders
<1>1. ASSUME TypeOK, Next, NEW b \in Boxes, crashing[b] = "no", crashing'[b] = "disabling"
      PROVE  died' >= MaxCrashes
  <2>1. PICK x \in Boxes : Crashes(x) \/ CrashAudited(x)
    BY <1>1 DEF Next, Activate, ActivateKnown, ActivateRefused, ActivateSpawns, Invoke, InvokeRefused,
       InvokeSends, Deactivate, DeactivateIgnored, DeactivateDead, DeactivateTerminates, Resume,
       Handshake, HandshakeAcked, HandshakeTimesOut, InvokeSettles, TerminateEnds, AuditSettles,
       CrashForgotten
  <2>2. CASE Crashes(x)
    <3>1. crashes + 1 >= MaxCrashes
      BY <1>1, <2>2 DEF Crashes, CountsCrash, TypeOK
    <3>2. crashes \in 0..died /\ died \in Nat /\ died' = died + 1
      BY <1>1, <2>2 DEF TypeOK, Crashes, CountsCrash
    <3> QED BY <3>1, <3>2, ManagerParameters DEF ManagerParameters
  <2>3. CASE CrashAudited(x)
    BY <1>1, <2>3 DEF CrashAudited, TypeOK
  <2> QED BY <2>1, <2>2, <2>3
<1>2. TypeOK /\ [Next]_vars =>
        [\A b \in Boxes :
           crashing[b] = "no" /\ crashing'[b] = "disabling" => died' >= MaxCrashes]_vars
  BY <1>1
<1> QED BY <1>2, TypeCorrect, PTL DEF Spec, DisablesOnlyOffenders

(* ProcessSandbox and its manager: every call that waits is held by a live *)
(* sandbox, and what is terminated is killed or being ended.               *)
THEOREM ProcessesAreAccounted == Spec => []ProcessesAccounted
<1>1. TypeOK /\ PendingExact /\ KillsWhatItTerminates => ProcessesAccounted
  BY DEF ProcessesAccounted
<1> QED BY <1>1, TypeCorrect, NoCallIsForgotten, TerminatedIsSeenTo, PTL

-----------------------------------------------------------------------------
(* A process that runs can be reached, and what has crashed does not run.  *)
RunningReached ==
  \A b \in Boxes : box[b].process = "running" => box[b].child /\ crashing[b] = "no"

(* As long as nothing has interfered one call at most changes the entry,   *)
(* and none while a crash is being handled.                                *)
OneChange ==
  /\ \A b \in Boxes : Lost(b) => b \in abandoned
  /\ \A c, d \in Callers : Changing(c) /\ Changing(d) => c = d
  /\ \A c \in Callers : call[c].pc = "handshake" => active = NoBox
  /\ \A c \in Callers : call[c].pc = "terminating" => active \in {NoBox, call[c].box}
  /\ \A b \in Boxes : crashing[b] # "no" => active \in {NoBox, b} /\ \A c \in Callers : ~ Changing(c)

CleanInv == RunningReached /\ (interfered \/ OneChange)

(* A step that changes no process, no entry and no call that changes them. *)
LEMMA SteadyStep ==
  ASSUME CleanInv, UNCHANGED <<active, crashing, abandoned, interfered>>,
         \A b \in Boxes : box'[b].process = box[b].process /\ box'[b].child = box[b].child,
         \A c \in Callers : Changing(c) \/ Changing(c)' => call'[c] = call[c]
  PROVE  CleanInv'
<1>1. RunningReached'
  BY DEF CleanInv, RunningReached
<1>2. \A c \in Callers : /\ Changing(c)' <=> Changing(c)
                         /\ call'[c].pc \in {"handshake", "terminating"} <=> call[c].pc \in {"handshake", "terminating"}
                         /\ Changing(c) => call'[c] = call[c]
  BY DEF Changing
<1>3. ASSUME OneChange PROVE OneChange'
  <2>1. \A b \in Boxes : Lost(b)' => Lost(b)
    BY <1>2 DEF Lost
  <2>2. \A c \in Callers : /\ call'[c].pc = "handshake" => call[c].pc = "handshake"
                           /\ call'[c].pc = "terminating" => call[c].pc = "terminating" /\ call'[c].box = call[c].box
    BY <1>2 DEF Changing
  <2> QED BY <1>2, <1>3, <2>1, <2>2 DEF OneChange
<1> QED BY <1>1, <1>3 DEF CleanInv

(* A call that waits for nothing that changes the entry goes on to such a  *)
(* wait, or to none.                                                       *)
LEMMA PlainCall ==
  ASSUME TypeOK, NEW c \in Callers, ~ Changing(c), NEW pc, pc \notin {"handshake", "terminating"},
         NEW b, Goes(c, pc, b)
  PROVE  \A d \in Callers : Changing(d) \/ Changing(d)' => call'[d] = call[d]
<1>1. call'[c].pc = pc /\ \A d \in Callers \ {c} : call'[d] = call[d]
  BY DEF Goes, TypeOK
<1> QED BY <1>1 DEF Changing

LEMMA InitClean == Init => CleanInv
<1>1. NoSandbox.process = "none"
  BY DEF NoSandbox
<1>2. ASSUME Init PROVE RunningReached /\ OneChange
  <2>1. \A b \in Boxes : box[b].process = "none" /\ crashing[b] = "no"
    BY <1>1, <1>2 DEF Init
  <2>2. \A c \in Callers : call[c].pc = "idle"
    BY <1>2 DEF Init
  <2> QED BY <2>1, <2>2 DEF RunningReached, OneChange, Lost, Changing
<1> QED BY <1>2 DEF CleanInv

LEMMA SpawnClean ==
  ASSUME IInv, CleanInv, NEW c \in Callers, NEW b \in Boxes, ActivateSpawns(c, b)
  PROVE  CleanInv'
<1>1. /\ active = NoBox /\ Unused(b) /\ ~ Busy(c)
      /\ box' = [box EXCEPT ![b] = Spawned(c)] /\ abandoned' = abandoned \ {b}
      /\ call' = [call EXCEPT ![c] = [pc |-> "handshake", box |-> b]]
      /\ NoteInterference /\ UNCHANGED <<active, crashing>>
  BY DEF ActivateSpawns, Goes
<1>2. /\ box'[b] = Spawned(c) /\ \A y \in Boxes \ {b} : box'[y] = box[y]
      /\ call'[c] = [pc |-> "handshake", box |-> b] /\ \A d \in Callers \ {c} : call'[d] = call[d]
  BY <1>1 DEF IInv, TypeOK
<1>3. RunningReached'
  BY <1>1, <1>2 DEF CleanInv, RunningReached, Spawned, Unused
<1>4. ASSUME ~ interfered' PROVE OneChange'
  <2>1. /\ OneChange /\ \A d \in Callers : ~ Changing(d)
        /\ \A y \in Boxes : crashing[y] = "no"
    BY <1>1, <1>4 DEF CleanInv, NoteInterference
  <2>2. Changing(c)' /\ \A d \in Callers \ {c} : ~ Changing(d)'
    BY <1>2, <2>1 DEF Changing
  <2>3. \A y \in Boxes : Lost(y)' => y \in abandoned'
    BY <1>1, <1>2, <2>1, <2>2 DEF OneChange, Lost
  <2> QED BY <1>1, <1>2, <2>1, <2>2, <2>3 DEF OneChange, Changing
<1> QED BY <1>3, <1>4 DEF CleanInv

LEMMA HandshakeClean ==
  ASSUME IInv, CleanInv, NEW c \in Callers, Handshake(c)
  PROVE  CleanInv'
<1> DEFINE b == call[c].box
<1>1. /\ call[c].pc = "handshake" /\ b \in Boxes
      /\ box' = [box EXCEPT ![b] = Unpend(@, c)] /\ UNCHANGED <<crashing, interfered>>
      /\ abandoned \subseteq abandoned'
  BY DEF Handshake, HandshakeAcked, HandshakeTimesOut, IInv, TypeOK, Busy, Waits
<1>2. PICK pc \in {"audited", "failing"} : call' = [call EXCEPT ![c] = [pc |-> pc, box |-> b]]
  BY DEF Handshake, HandshakeAcked, HandshakeTimesOut, Goes
<1>3. active' = b \/ (active' = active /\ b \in abandoned')
  BY DEF Handshake, HandshakeAcked, HandshakeTimesOut
<1>4. \A y \in Boxes : box'[y].process = box[y].process /\ box'[y].child = box[y].child
  BY <1>1 DEF IInv, TypeOK, Unpend, Sandbox
<1>5. /\ call'[c].pc \in {"audited", "failing"} /\ \A d \in Callers \ {c} : call'[d] = call[d]
  BY <1>2 DEF IInv, TypeOK
<1>6. RunningReached'
  BY <1>1, <1>4 DEF CleanInv, RunningReached
<1>7. ASSUME OneChange PROVE OneChange'
  <2>1. Changing(c) /\ active = NoBox /\ \A d \in Callers : ~ Changing(d)'
    BY <1>1, <1>5, <1>7 DEF OneChange, Changing
  <2>2. \A y \in Boxes : crashing'[y] = "no"
    BY <1>1, <1>7, <2>1 DEF OneChange
  <2>3. \A y \in Boxes \ {b} : Lost(y)' => Lost(y)
    BY <1>4, <1>7, <2>1, ManagerParameters DEF Lost, OneChange
  <2>4. \A y \in Boxes : Lost(y)' => y \in abandoned'
    BY <1>1, <1>3, <1>7, <2>3 DEF Lost, OneChange
  <2> QED BY <2>1, <2>2, <2>4 DEF OneChange, Changing
<1> QED BY <1>1, <1>6, <1>7 DEF CleanInv

LEMMA DeactivateClean ==
  ASSUME IInv, CleanInv, NEW c \in Callers, DeactivateDead(c) \/ DeactivateTerminates(c)
  PROVE  CleanInv'
<1>1. /\ active \in Boxes /\ ~ Busy(c) /\ NoteInterference
      /\ UNCHANGED <<crashing, abandoned>>
  BY DEF DeactivateDead, DeactivateTerminates, IInv, TypeOK
<1>2. \A y \in Boxes : box'[y].process = box[y].process /\ box'[y].child = box[y].child
  <2>1. CASE DeactivateDead(c)
    BY <2>1 DEF DeactivateDead
  <2>2. CASE DeactivateTerminates(c)
    <3>1. box' = [box EXCEPT ![active] = Terminate(box[active])] /\ box[active] \in Sandbox
      BY <1>1, <2>2 DEF DeactivateTerminates, IInv, TypeOK
    <3>2. /\ Terminate(box[active]).process = box[active].process
          /\ Terminate(box[active]).child = box[active].child
      BY <3>1 DEF Terminate, Sandbox
    <3> QED BY <1>1, <3>1, <3>2 DEF IInv, TypeOK
  <2> QED BY <2>1, <2>2
<1>3. RunningReached'
  BY <1>1, <1>2 DEF CleanInv, RunningReached
<1>4. ASSUME ~ interfered' PROVE OneChange'
  <2>1. /\ OneChange /\ \A d \in Callers : ~ Changing(d)
        /\ \A y \in Boxes : crashing[y] = "no"
    BY <1>1, <1>4 DEF CleanInv, NoteInterference
  <2>2. CASE DeactivateDead(c)
    <3>1. ~ Usable(box[active]) /\ active' = NoBox /\ Goes(c, "audited", active)
      BY <2>2 DEF DeactivateDead, Ended
    <3>2. call'[c].pc = "audited" /\ \A d \in Callers \ {c} : call'[d] = call[d]
      BY <3>1 DEF Goes, IInv, TypeOK
    <3>3. \A d \in Callers : ~ Changing(d)'
      BY <2>1, <3>2 DEF Changing
    <3>4. box[active].process # "running"
      <4> SUFFICES ASSUME box[active].process = "running" PROVE FALSE
        OBVIOUS
      <4>1. box[active].terminated
        BY <1>1, <3>1 DEF CleanInv, RunningReached, Usable
      <4>2. \E d \in Callers : Changing(d)
        BY <1>1, <4>1 DEF IInv, KillsWhatItTerminates, Changing
      <4> QED BY <2>1, <4>2
    <3>5. \A y \in Boxes : Lost(y)' => y \in abandoned'
      BY <1>1, <1>2, <2>1, <3>4 DEF Lost, OneChange
    <3> QED BY <1>1, <2>1, <3>1, <3>3, <3>5 DEF OneChange, Changing
  <2>3. CASE DeactivateTerminates(c)
    <3>1. /\ active' = active
          /\ call' = [x \in Callers |->
                IF x = c THEN [pc |-> "terminating", box |-> active] ELSE Rejected(x, active)]
      BY <2>3 DEF DeactivateTerminates
    <3>2. call'[c] = [pc |-> "terminating", box |-> active]
      BY <3>1
    <3>3. \A d \in Callers \ {c} : ~ Changing(d)' /\ call'[d].pc \notin {"handshake", "terminating"}
      <4> SUFFICES ASSUME NEW d \in Callers \ {c}, Changing(d)' PROVE FALSE
        BY DEF Changing
      <4>1. call'[d] = Rejected(d, active)
        BY <3>1
      <4>2. Rejected(d, active).pc \in {"handshake", "terminating"}
        BY <4>1 DEF Changing
      <4>3. call[d].pc \in {"handshake", "terminating"}
        BY <1>1, <4>2, Rejecting DEF IInv
      <4> QED BY <2>1, <4>3 DEF Changing
    <3>4. \A y \in Boxes : Lost(y)' => y \in abandoned'
      BY <1>1, <1>2, <2>1, <3>1 DEF Lost, OneChange
    <3>5. \A y \in Boxes : crashing'[y] = "no"
      BY <1>1, <2>1
    <3> QED BY <3>1, <3>2, <3>3, <3>4, <3>5 DEF OneChange, Changing
  <2> QED BY <2>2, <2>3
<1> QED BY <1>3, <1>4 DEF CleanInv

LEMMA TerminateEndsClean ==
  ASSUME IInv, CleanInv, NEW c \in Callers, TerminateEnds(c)
  PROVE  CleanInv'
<1> DEFINE b == call[c].box
<1>1. /\ call[c].pc = "terminating" /\ b \in Boxes /\ Changing(c)
      /\ box' = [box EXCEPT ![b] = Reap(@)] /\ active' = NoBox
      /\ call' = [call EXCEPT ![c] = [pc |-> "audited", box |-> b]]
      /\ UNCHANGED <<crashing, abandoned, interfered>>
  BY DEF TerminateEnds, Goes, IInv, TypeOK, Busy, Waits, Changing
<1>2. /\ box'[b].process = "exited" /\ \A y \in Boxes \ {b} : box'[y] = box[y]
      /\ call'[c].pc = "audited" /\ \A d \in Callers \ {c} : call'[d] = call[d]
  BY <1>1 DEF IInv, TypeOK, Reap, Sandbox
<1>3. RunningReached'
  BY <1>1, <1>2 DEF CleanInv, RunningReached
<1>4. ASSUME OneChange PROVE OneChange'
  <2>1. \A d \in Callers : ~ Changing(d)'
    BY <1>1, <1>2, <1>4 DEF OneChange, Changing
  <2>2. active \in {NoBox, b} /\ \A y \in Boxes : crashing'[y] = "no"
    BY <1>1, <1>4 DEF OneChange
  <2>3. \A d \in Callers : Changing(d) => call[d].box = b
    BY <1>1, <1>4 DEF OneChange
  <2>4. \A y \in Boxes : Lost(y)' => y \in abandoned'
    BY <1>1, <1>2, <1>4, <2>2, <2>3, ManagerParameters DEF OneChange, Lost
  <2> QED BY <1>1, <2>1, <2>2, <2>4 DEF OneChange, Changing
<1> QED BY <1>1, <1>3, <1>4 DEF CleanInv

LEMMA CrashesClean ==
  ASSUME IInv, CleanInv, NEW b \in Boxes, Crashes(b)
  PROVE  CleanInv'
<1>1. /\ box[b].process = "running" /\ ~ box[b].terminated
      /\ box' = [box EXCEPT ![b] = Crash(@)]
      /\ call' = [x \in Callers |-> Rejected(x, b)]
      /\ UNCHANGED <<active, abandoned>>
  BY DEF Crashes
<1>2. /\ \A y \in Boxes \ {b} : box'[y] = box[y] /\ crashing'[y] = crashing[y]
      /\ box'[b].process = "exited"
  BY DEF Crashes, CountsCrash, IInv, TypeOK, Crash, Sandbox
<1>3. interfered' = (interfered \/ active \notin {NoBox, b}
                              \/ \E c \in Callers : Changing(c) /\ call[c].box # b)
  BY DEF Crashes, CountsCrash
<1>4. RunningReached'
  BY <1>2 DEF CleanInv, RunningReached
<1>5. ASSUME ~ interfered' PROVE OneChange'
  <2>1. /\ OneChange /\ active \in {NoBox, b} /\ \A c \in Callers : Changing(c) => call[c].box = b
    BY <1>3, <1>5 DEF CleanInv
  <2>2. \A c \in Callers : call'[c].pc \notin {"handshake", "terminating"}
    <3> SUFFICES ASSUME NEW c \in Callers, call'[c].pc \in {"handshake", "terminating"} PROVE FALSE
      OBVIOUS
    <3>1. call'[c] = Rejected(c, b)
      BY <1>1
    <3>2. /\ Rejected(c, b).pc = "handshake" => call[c].pc = "handshake" /\ call[c].box # b
          /\ Rejected(c, b).pc = "terminating" => call[c].pc = "terminating"
      BY Rejecting DEF IInv
    <3>3. call[c].pc = "terminating" => call[c].box # b
      BY <1>1 DEF IInv, TerminatingMarked
    <3> QED BY <2>1, <3>1, <3>2, <3>3 DEF Changing
  <2>3. \A c \in Callers : ~ Changing(c)'
    BY <2>2 DEF Changing
  <2>4. \A y \in Boxes : Lost(y)' => y \in abandoned'
    BY <1>1, <1>2, <2>1 DEF Lost, OneChange
  <2>5. \A y \in Boxes \ {b} : crashing[y] # "no" => active \in {NoBox, y}
    BY <2>1 DEF OneChange
  <2> QED BY <1>1, <1>2, <2>1, <2>2, <2>3, <2>4, <2>5 DEF OneChange
<1> QED BY <1>4, <1>5 DEF CleanInv

LEMMA CrashAuditedClean ==
  ASSUME IInv, CleanInv, NEW b \in Boxes, CrashAudited(b)
  PROVE  CleanInv'
<1>1. /\ crashing[b] # "no" /\ crashing' = [crashing EXCEPT ![b] = "no"]
      /\ active' \in {active, NoBox} /\ UNCHANGED <<box, call, abandoned, interfered>>
  BY DEF CrashAudited
<1>2. \A y \in Boxes : crashing'[y] # "no" => crashing[y] # "no"
  BY <1>1 DEF IInv, TypeOK
<1>3. RunningReached'
  BY <1>1, <1>2 DEF CleanInv, RunningReached
<1>4. ASSUME OneChange PROVE OneChange'
  <2>1. active \in {NoBox, b} /\ box[b].process # "running" /\ \A c \in Callers : ~ Changing(c)
    BY <1>1, <1>4 DEF OneChange, CleanInv, RunningReached
  <2>2. \A y \in Boxes : Lost(y)' => y \in abandoned'
    BY <1>1, <1>4, <2>1, ManagerParameters DEF OneChange, Lost, Changing
  <2>3. \A c \in Callers : ~ Changing(c)' /\ call'[c].pc \notin {"handshake", "terminating"}
    BY <1>1, <2>1 DEF Changing
  <2>4. \A y \in Boxes : crashing'[y] # "no" => active' \in {NoBox, y}
    BY <1>1, <1>2, <1>4 DEF OneChange
  <2> QED BY <2>2, <2>3, <2>4 DEF OneChange
<1> QED BY <1>1, <1>3, <1>4 DEF CleanInv

LEMMA CleanStep ==
  ASSUME IInv, CleanInv, [Next]_vars
  PROVE  CleanInv'
<1>0. TypeOK
  BY DEF IInv
<1>1. ASSUME NEW c \in Callers, ActivateKnown(c) \/ ActivateRefused(c) \/ DeactivateIgnored(c)
      PROVE  CleanInv'
  <2>1. /\ UNCHANGED <<active, crashing, abandoned, interfered, box>> /\ ~ Changing(c)
        /\ \E pc \in {"returned", "failing"} : Goes(c, pc, NoBox)
    BY <1>1 DEF ActivateKnown, ActivateRefused, DeactivateIgnored, Busy, Waits, Changing
  <2> QED BY <1>0, <2>1, PlainCall, SteadyStep
<1>2. ASSUME NEW c \in Callers, Invoke(c) PROVE CleanInv'
  <2>1. /\ UNCHANGED <<active, crashing, abandoned, interfered>> /\ ~ Changing(c)
        /\ \E pc \in {"threw", "failing", "invoking"}, b \in {active, NoBox} : Goes(c, pc, b)
    BY <1>2 DEF Invoke, InvokeRefused, InvokeSends, Busy, Waits, Changing
  <2>2. \A y \in Boxes : box'[y].process = box[y].process /\ box'[y].child = box[y].child
    BY <1>0, <1>2 DEF Invoke, InvokeRefused, InvokeSends, Pend, Sandbox, TypeOK
  <2> QED BY <1>0, <2>1, <2>2, PlainCall, SteadyStep
<1>3. ASSUME NEW c \in Callers, NEW pc \in {"audited", "failing"}, InvokeSettles(c, pc) PROVE CleanInv'
  <2>1. /\ UNCHANGED <<active, crashing, abandoned, interfered>> /\ ~ Changing(c)
        /\ Goes(c, pc, call[c].box)
    BY <1>3 DEF InvokeSettles, Changing
  <2>2. \A y \in Boxes : box'[y].process = box[y].process /\ box'[y].child = box[y].child
    BY <1>0, <1>3 DEF InvokeSettles, Unpend, Sandbox, TypeOK
  <2> QED BY <1>0, <2>1, <2>2, PlainCall, SteadyStep
<1>4. ASSUME NEW c \in Callers, NEW ok \in BOOLEAN, AuditSettles(c, ok) PROVE CleanInv'
  <2>1. /\ UNCHANGED <<active, crashing, abandoned, interfered, box>> /\ ~ Changing(c)
        /\ \E pc \in {"returned", "threw"} : Goes(c, pc, NoBox)
    BY <1>4 DEF AuditSettles, Changing
  <2> QED BY <1>0, <2>1, PlainCall, SteadyStep
<1>5. CASE CrashForgotten
  BY <1>5, SteadyStep DEF CrashForgotten
<1>6. CASE UNCHANGED vars
  BY <1>6, SteadyStep DEF vars
<1>7. ASSUME NEW c \in Callers, Activate(c) PROVE CleanInv'
  BY <1>1, <1>7, SpawnClean DEF Activate
<1>8. ASSUME NEW c \in Callers, Deactivate(c) PROVE CleanInv'
  BY <1>1, <1>8, DeactivateClean DEF Deactivate
<1>9. ASSUME NEW c \in Callers, Resume(c) PROVE CleanInv'
  BY <1>3, <1>4, <1>9, HandshakeClean, TerminateEndsClean DEF Resume
<1> QED BY <1>2, <1>5, <1>6, <1>7, <1>8, <1>9, CrashesClean, CrashAuditedClean DEF Next

(* For any calls, processes and crashes: while nothing interferes with a   *)
(* change of the entry, the manager loses no process but those whose       *)
(* handshake timed out.                                                    *)
THEOREM CleanUnlessInterfered == Spec => []CleanWithoutInterference
<1>1. IInv /\ CleanInv /\ [Next]_vars => CleanInv'
  BY CleanStep
<1>2. CleanInv => CleanWithoutInterference
  BY DEF CleanInv, OneChange, CleanWithoutInterference
<1> QED BY <1>1, <1>2, InitClean, Inductive, PTL DEF Spec
=============================================================================

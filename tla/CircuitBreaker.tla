--------------------------- MODULE CircuitBreaker ---------------------------
(***************************************************************************)
(* The per-transport circuit breaker of packages/mesh-router/src/          *)
(* circuit-breaker.ts.  The class keeps one PerTransport record per        *)
(* transport kind; its methods are synchronous, so each is an operator     *)
(* from a record (and the clock) to a record, and the module that owns the *)
(* records, MeshRouter, applies them inside its actions.                   *)
(***************************************************************************)
EXTENDS Integers

CONSTANTS
  FailureThreshold,   (* consecutive failures that open a breaker          *)
  CooldownMs          (* time an open breaker refuses attempts             *)

ASSUME BreakerOptions ==
  /\ FailureThreshold \in Nat \ {0}
  /\ CooldownMs \in Nat

BreakerState == {"Closed", "Open", "HalfOpen"}

PerTransport ==
  [state : BreakerState,
   consecutiveFailures : Nat,
   openedAt : Nat,
   inFlightProbes : Nat]

(* The record `ensure` creates the first time a kind is mentioned. *)
Fresh ==
  [state |-> "Closed", consecutiveFailures |-> 0, openedAt |-> 0,
   inFlightProbes |-> 0]

(* Entering a state: Open stamps the clock and forgets the count, HalfOpen *)
(* forgets the probes, Closed forgets the count.                           *)
Transition(b, next, now) ==
  CASE b.state = next    -> b
    [] b.state # next /\ next = "Open" ->
         [b EXCEPT !.state = "Open", !.openedAt = now, !.consecutiveFailures = 0]
    [] b.state # next /\ next = "HalfOpen" ->
         [b EXCEPT !.state = "HalfOpen", !.inFlightProbes = 0]
    [] b.state # next /\ next = "Closed" ->
         [b EXCEPT !.state = "Closed", !.consecutiveFailures = 0]

CooledDown(b, now) == now - b.openedAt >= CooldownMs

(* The answer of canAttempt ... *)
Admits(b, now) ==
  \/ b.state = "Closed"
  \/ b.state = "Open" /\ CooledDown(b, now)
  \/ b.state = "HalfOpen" /\ b.inFlightProbes < 1

TakeProbe(b) == [b EXCEPT !.inFlightProbes = @ + 1]

(* ... and its effect: every admission through an open or half-open        *)
(* breaker takes a probe.                                                  *)
CanAttempt(b, now) ==
  CASE b.state = "Open" /\ CooledDown(b, now) ->
         TakeProbe(Transition(b, "HalfOpen", now))
    [] b.state = "HalfOpen" /\ b.inFlightProbes < 1 -> TakeProbe(b)
    [] OTHER -> b

ReleaseProbe(b) ==
  [b EXCEPT !.inFlightProbes = IF @ - 1 > 0 THEN @ - 1 ELSE 0]

(* A success closes a half-open breaker and always resets the count; an    *)
(* open breaker stays open.                                                *)
RecordSuccess(b, now) ==
  LET r == IF b.state = "HalfOpen"
             THEN Transition(ReleaseProbe(b), "Closed", now)
             ELSE b
  IN  [r EXCEPT !.consecutiveFailures = 0]

RecordFailureKeepsStamp(b, now) ==      \* mutant: reopening does not restart the cooldown
  CASE b.state = "HalfOpen" -> [ReleaseProbe(b) EXCEPT !.state = "Open"]
    [] b.state = "Closed" ->
         LET n == [b EXCEPT !.consecutiveFailures = @ + 1]
         IN  IF n.consecutiveFailures >= FailureThreshold
               THEN Transition(n, "Open", now)
               ELSE n
    [] b.state = "Open" -> b

RecordFailureKeepsProbe(b, now) ==      \* mutant: a failed probe stays counted
  CASE b.state = "HalfOpen" -> Transition(b, "Open", now)
    [] b.state = "Closed" ->
         LET n == [b EXCEPT !.consecutiveFailures = @ + 1]
         IN  IF n.consecutiveFailures >= FailureThreshold
               THEN Transition(n, "Open", now)
               ELSE n
    [] b.state = "Open" -> b

(* A failure reopens a half-open breaker, counts towards the threshold of  *)
(* a closed one and is ignored by an open one.                             *)
RecordFailure(b, now) ==
  CASE b.state = "HalfOpen" -> Transition(ReleaseProbe(b), "Open", now)
    [] b.state = "Closed" ->
         LET n == [b EXCEPT !.consecutiveFailures = @ + 1]
         IN  IF n.consecutiveFailures >= FailureThreshold
               THEN Transition(n, "Open", now)
               ELSE n
    [] b.state = "Open" -> b
=============================================================================

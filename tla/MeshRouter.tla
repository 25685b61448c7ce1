----------------------------- MODULE MeshRouter -----------------------------
(***************************************************************************)
(* Outbound half of packages/mesh-router/src/router.ts: concurrent calls   *)
(* of MeshRouter.send, each failing over sequentially across the           *)
(* transports its breaker check admitted, all sharing one CircuitBreaker.  *)
(*                                                                         *)
(* JavaScript runs to completion between awaits and the only await of      *)
(* `send` is the transport's own send, so a call is two kinds of step:     *)
(* Send, from the call to the first await (or to the return), and Settle,  *)
(* from the answer of one attempt to the next await (or to the return).    *)
(* Calls interleave at those awaits.  One step reads the clock once.       *)
(***************************************************************************)
EXTENDS CircuitBreaker, FiniteSets

CONSTANTS
  Kinds,     (* transport kinds in the registry, all reachable             *)
  Rank,      (* position of a kind in sortByPriority's order               *)
  Patience,  (* what bounds an attempt of a kind, see SettleBy             *)
  Senders,   (* concurrent calls of send; a finished caller may call again *)
  Budgets,   (* deadlineMs - now of the requests, 0 for one already late   *)
  MaxTime,   (* bound of the model on the clock                            *)
  NoKind

ASSUME RouterParameters ==
  /\ IsFiniteSet(Kinds)
  /\ NoKind \notin Kinds
  /\ Rank \in [Kinds -> Nat]
  /\ \A j, k \in Kinds : Rank[j] = Rank[k] => j = k
  /\ Patience \in [Kinds -> {"attempt", "request", "unbounded"}]
  /\ Budgets \subseteq Nat
  /\ MaxTime \in Nat

VARIABLES
  now,       (* Date.now()                                                 *)
  breaker,   (* breaker[k]: the PerTransport record of kind k              *)
  send,      (* send[s]: locals of the call made by s                      *)
  streak,    (* history: failures of k since its last success, capped at   *)
             (* FailureThreshold                                           *)
  probedAt   (* history: when k last went from Open to HalfOpen            *)

vars == <<now, breaker, send, streak, probedAt>>

Answer == {"ok", "denied", "timeout", "error"}
Final  == {"ok", "denied"}       (* answers that end a send                *)

(* at: the kind being awaited; left: admitted candidates after it; addr:   *)
(* the kinds addressResolver knows the target on; probes: the candidates   *)
(* whose admission took a half-open probe; last: lastResponse's status.    *)
Call ==
  [phase : {"idle", "awaiting", "done"},
   at : Kinds \union {NoKind},
   left : SUBSET Kinds,
   addr : SUBSET Kinds,
   probes : SUBSET Kinds,
   budget : Nat,
   deadline : Nat,
   settleBy : Nat,
   last : Answer \union {"none"}]

NoCall ==
  [phase |-> "idle", at |-> NoKind, left |-> {}, addr |-> {}, probes |-> {},
   budget |-> 0, deadline |-> 0, settleBy |-> 0, last |-> "none"]

Init ==
  /\ now = 0
  /\ breaker = [k \in Kinds |-> Fresh]
  /\ send = [s \in Senders |-> NoCall]
  /\ streak = [k \in Kinds |-> 0]
  /\ probedAt = [k \in Kinds |-> 0]

PerAttemptOver(remaining, candidatesLeft) ==           \* mutant: one too much
  remaining \div candidatesLeft + 1

(* The share of the remaining budget one of the candidates left is given.  *)
PerAttempt(remaining, candidatesLeft) ==
  IF remaining \div candidatesLeft > 1 THEN remaining \div candidatesLeft ELSE 1

(* When the attempt over k settles at the latest.  "attempt": the          *)
(* transport races its work with timeoutMs (loopback).  "request": it      *)
(* applies timeoutMs to each of its own retries and only the deadline of   *)
(* the request bounds their sum (http).  "unbounded": it has awaits that   *)
(* no timer guards (libp2p, whose dial is bounded by the deadline and      *)
(* whose handshake by nothing); the bound is then never consulted.         *)
SettleBy(k, deadline, perAttempt) ==
  IF Patience[k] = "attempt" THEN now + perAttempt ELSE deadline

(* k is the next candidate in priority order that has an address.          *)
Upcoming(k, candidates, addr) ==
  /\ k \in candidates \intersect addr
  /\ \A j \in candidates \intersect addr : Rank[k] <= Rank[j]

(* Records a failure of every kind in F and a success of every kind in S.  *)
Record(b, F, S) ==
  /\ breaker' = [k \in Kinds |->
       CASE k \in F -> RecordFailure(b[k], now)
         [] k \in S -> RecordSuccess(b[k], now)
         [] OTHER   -> b[k]]
  /\ streak' = [k \in Kinds |->
       CASE k \in S -> 0
         [] k \in F /\ streak[k] < FailureThreshold -> streak[k] + 1
         [] OTHER   -> streak[k]]

Return(s, c, status, left) ==
  send' = [send EXCEPT ![s] =
    [NoCall EXCEPT !.phase = "done", !.left = left, !.budget = c.budget, !.last = status]]

(* The loop of send from its head, for the call c of s with these          *)
(* candidates left: a candidate without an address counts as a failure and *)
(* is skipped, the first one with an address is awaited.  F holds the      *)
(* failure already recorded in this step, b the breakers before it.        *)
Loop(s, c, b, F, candidates) ==
  \/ /\ now >= c.deadline
     /\ Return(s, c, IF c.last = "none" THEN "timeout" ELSE c.last, candidates)
     /\ Record(b, F, {})
  \/ /\ now < c.deadline
     /\ candidates \intersect c.addr = {}
     /\ Return(s, c, IF c.last = "none" THEN "timeout" ELSE c.last, {})
     /\ Record(b, F \union candidates, {})
  \/ /\ now < c.deadline
     /\ \E k \in candidates :
          LET skipped == {j \in candidates \ c.addr : Rank[j] < Rank[k]}
              rest    == candidates \ skipped
              share   == PerAttempt(c.deadline - now, Cardinality(rest))
          IN  /\ Upcoming(k, candidates, c.addr)
              /\ send' = [send EXCEPT ![s] =
                   [c EXCEPT !.phase = "awaiting", !.at = k, !.left = rest \ {k},
                             !.settleBy = SettleBy(k, c.deadline, share)]]
              /\ Record(b, F \union skipped, {})

(* send up to its first await: every reachable transport is asked for      *)
(* admission before any is attempted, then the loop is entered.            *)
Send(s, budget, addr) ==
  LET admitted == {k \in Kinds : Admits(breaker[k], now)}
      b        == [k \in Kinds |-> CanAttempt(breaker[k], now)]
      c        == [NoCall EXCEPT !.budget = budget, !.deadline = now + budget,
                     !.addr = addr,
                     !.probes = {k \in admitted : breaker[k].state # "Closed"}]
  IN  /\ send[s].phase # "awaiting"
      /\ probedAt' = [k \in Kinds |->
           IF breaker[k].state = "Open" /\ k \in admitted THEN now ELSE probedAt[k]]
      /\ IF admitted = {}
           THEN Return(s, c, "error", {}) /\ Record(b, {}, {})
           ELSE Loop(s, c, b, {}, admitted)
      /\ UNCHANGED now

(* The attempt a call awaits settles; sendOne turns a rejection into an    *)
(* error answer.                                                           *)
SettleFinal(s, status) ==
  /\ send[s].phase = "awaiting"
  /\ status \in Final
  /\ Return(s, send[s], status, send[s].left)
  /\ Record(breaker, {}, {send[s].at})
  /\ UNCHANGED <<now, probedAt>>

SettleFailedGivesUp(s, status) ==       \* mutant: no failover
  /\ send[s].phase = "awaiting"
  /\ status \in Answer \ Final
  /\ Return(s, send[s], status, send[s].left)
  /\ Record(breaker, {send[s].at}, {})
  /\ UNCHANGED <<now, probedAt>>

SettleFailed(s, status) ==
  LET c == [send[s] EXCEPT !.last = status]
  IN  /\ send[s].phase = "awaiting"
      /\ status \in Answer \ Final
      /\ IF c.left # {} /\ now < c.deadline
           THEN Loop(s, c, breaker, {c.at}, c.left)
           ELSE Return(s, c, status, c.left) /\ Record(breaker, {c.at}, {})
      /\ UNCHANGED <<now, probedAt>>

Settle(s) == \E status \in Answer : SettleFinal(s, status) \/ SettleFailed(s, status)

(* Timers are prompt: the clock does not pass the time at which a timer    *)
(* settles an attempt.                                                     *)
Tick ==
  /\ now < MaxTime
  /\ \A s \in Senders :
       /\ send[s].phase = "awaiting"
       /\ Patience[send[s].at] # "unbounded"
       => now < send[s].settleBy
  /\ now' = now + 1
  /\ UNCHANGED <<breaker, send, streak, probedAt>>

Next ==
  \/ \E s \in Senders, budget \in Budgets, addr \in SUBSET Kinds : Send(s, budget, addr)
  \/ \E s \in Senders, status \in Answer : SettleFinal(s, status)
  \/ \E s \in Senders, status \in Answer : SettleFailed(s, status)
  \/ Tick

(* A transport whose awaits are all guarded by a timer answers.            *)
Fairness == \A s \in Senders : WF_vars(Settle(s))

Spec == Init /\ [][Next]_vars
FairSpec == Spec /\ Fairness
-----------------------------------------------------------------------------
TypeOK ==
  /\ now \in Nat
  /\ breaker \in [Kinds -> PerTransport]
  /\ send \in [Senders -> Call]
  /\ \A s \in Senders : send[s].phase = "awaiting" => send[s].at \in Kinds
  /\ streak \in [Kinds -> Nat]
  /\ probedAt \in [Kinds -> Nat]

(* A breaker counts exactly one probe while it is half-open and none       *)
(* otherwise, whatever stragglers, admitted while it was still closed,     *)
(* report in between (circuit-breaker.ts canAttempt, recordSuccess and     *)
(* recordFailure, each of which touches the counter in its own branch).    *)
ProbeAccounting ==
  \A k \in Kinds :
    breaker[k].inFlightProbes = IF breaker[k].state = "HalfOpen" THEN 1 ELSE 0

(* A closed breaker opens only when the last FailureThreshold results      *)
(* recorded for its transport, by whichever calls, were all failures: no   *)
(* success in between is forgotten.                                        *)
OpensAfterStreak ==
  [][\A k \in Kinds :
       (breaker[k].state = "Closed" /\ breaker'[k].state = "Open")
         => streak'[k] >= FailureThreshold]_vars

(* A transport that is down is probed at most once per cooldown, whatever  *)
(* closes and reopens its breaker between two probes.                      *)
ProbeSpacing ==
  [][\A k \in Kinds :
       probedAt'[k] # probedAt[k] => probedAt'[k] - probedAt[k] >= CooldownMs]_vars

(* A call gives up on a candidate it never tried only at its deadline:     *)
(* until then every failure moves on to the next candidate.                *)
FailoverExhausts ==
  [][\A s \in Senders :
       (send[s].phase = "awaiting" /\ send'[s].phase = "done" /\ send'[s].last \notin Final)
         => send'[s].left = {} \/ now >= send[s].deadline]_vars

(* A call whose transports guard their awaits has returned by the deadline *)
(* of its request: the shares handed out never add up to more.             *)
ReturnsByDeadline ==
  \A s \in Senders :
    (send[s].phase = "awaiting" /\ \A k \in Kinds : Patience[k] # "unbounded")
      => now <= send[s].deadline

(* README.md:32 "splitting remaining budget evenly per attempt": a request *)
(* with at least a tick for every transport tries all its candidates       *)
(* before it fails.  Transports that outstay timeoutMs break it.           *)
EveryCandidateTried ==
  \A s \in Senders :
    (send[s].phase = "done" /\ send[s].last \notin Final
       /\ send[s].budget >= Cardinality(Kinds))
      => send[s].left = {}

(* Every call returns.                                                     *)
SendReturns ==
  \A s \in Senders : send[s].phase = "awaiting" ~> send[s].phase = "done"

(* What the splitting of a budget must give, whoever else sends at the     *)
(* same time and whatever breakers open: every call has returned by its    *)
(* deadline and none has left out a candidate it had the time for          *)
(* (router.ts:79-127).                                                     *)
SendsKeepTheirBudget == TypeOK /\ ReturnsByDeadline /\ EveryCandidateTried

(* A breaker that concurrent calls share opens for consecutive failures    *)
(* only, and lets a probe pass only once a cooldown (canAttempt,           *)
(* recordSuccess and recordFailure of circuit-breaker.ts).                 *)
BreakerTurns == OpensAfterStreak /\ ProbeSpacing
-----------------------------------------------------------------------------
InFlight(s, k) == send[s].phase = "awaiting" /\ send[s].at = k

(* circuit-breaker.test.ts:35 "allows one probe": a half-open breaker is   *)
(* waiting for a probe some call still holds, being sent or still to be    *)
(* sent.  A call that returns before it reaches the candidate drops it.    *)
HalfOpenHasItsProbe ==
  \A k \in Kinds :
    breaker[k].state = "HalfOpen" =>
      \E s \in Senders :
        /\ send[s].phase = "awaiting"
        /\ k \in send[s].probes
        /\ InFlight(s, k) \/ k \in send[s].left

(* The same test read the other way: never two probes at once.  A          *)
(* straggler reopens the breaker under the first probe and the next        *)
(* cooldown admits another.                                                *)
OneProbeInFlight ==
  \A k \in Kinds :
    Cardinality({s \in Senders : InFlight(s, k) /\ k \in send[s].probes}) <= 1

(* README.md:23 "[circuit breaker check] --> open? --> skip": no attempt   *)
(* starts over a transport whose breaker is open.  The check is made for   *)
(* all candidates when the call starts and is stale when a later one is    *)
(* attempted.                                                              *)
NoAttemptWhileOpen ==
  [][\A s \in Senders, k \in Kinds :
       (~ InFlight(s, k) /\ send'[s].phase = "awaiting" /\ send'[s].at = k)
         => breaker'[k].state # "Open"]_vars
=============================================================================

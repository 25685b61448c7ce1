-------------------------- MODULE MeshRouterProofs --------------------------
(***************************************************************************)
(* Theorems of MeshRouter for any registry, any number of concurrent calls *)
(* and any threshold, cooldown and budgets; of the capability tokens that  *)
(* requests carry, for any capabilities and any delegations; and of the    *)
(* globs of methods, for any glob and any method.                          *)
(***************************************************************************)
EXTENDS MeshRouter, CapabilityTokens, SequenceTheorems, FiniteSetTheorems,
        WellFoundedInduction, TLAPS

-----------------------------------------------------------------------------
(* The operators of CircuitBreaker stay within PerTransport.               *)

LEMMA TransitionType ==
  ASSUME NEW b \in PerTransport, NEW t \in Nat, NEW next \in BreakerState
  PROVE  Transition(b, next, t) \in PerTransport
<1>1. CASE b.state = next
  BY <1>1 DEF Transition
<1>2. CASE b.state # next /\ next = "Open"
  BY <1>2 DEF Transition, PerTransport, BreakerState
<1>3. CASE b.state # next /\ next = "HalfOpen"
  BY <1>3 DEF Transition, PerTransport, BreakerState
<1>4. CASE b.state # next /\ next = "Closed"
  BY <1>4 DEF Transition, PerTransport, BreakerState
<1> QED BY <1>1, <1>2, <1>3, <1>4 DEF BreakerState

LEMMA ProbeTypes ==
  ASSUME NEW b \in PerTransport
  PROVE  TakeProbe(b) \in PerTransport /\ ReleaseProbe(b) \in PerTransport
<1>1. TakeProbe(b) \in PerTransport
  BY DEF TakeProbe, PerTransport, BreakerState
<1>2. ReleaseProbe(b) \in PerTransport
  BY DEF ReleaseProbe, PerTransport, BreakerState
<1> QED BY <1>1, <1>2

LEMMA CanAttemptType ==
  ASSUME NEW b \in PerTransport, NEW t \in Nat
  PROVE  CanAttempt(b, t) \in PerTransport
<1>0. "HalfOpen" \in BreakerState
  BY DEF BreakerState
<1>1. CASE b.state = "Open" /\ CooledDown(b, t)
  BY <1>0, <1>1, TransitionType, ProbeTypes DEF CanAttempt
<1>2. CASE b.state = "HalfOpen" /\ b.inFlightProbes < 1
  BY <1>2, ProbeTypes DEF CanAttempt
<1>3. CASE /\ ~(b.state = "Open" /\ CooledDown(b, t))
           /\ ~(b.state = "HalfOpen" /\ b.inFlightProbes < 1)
  BY <1>3 DEF CanAttempt
<1> QED BY <1>1, <1>2, <1>3

LEMMA RecordSuccessType ==
  ASSUME NEW b \in PerTransport, NEW t \in Nat
  PROVE  RecordSuccess(b, t) \in PerTransport
<1> DEFINE r == IF b.state = "HalfOpen"
                  THEN Transition(ReleaseProbe(b), "Closed", t) ELSE b
<1>1. r \in PerTransport
  BY TransitionType, ProbeTypes DEF BreakerState
<1>2. [r EXCEPT !.consecutiveFailures = 0] \in PerTransport
  <2> HIDE DEF r
  <2> QED BY <1>1 DEF PerTransport
<1> QED BY <1>2 DEF RecordSuccess

LEMMA RecordFailureType ==
  ASSUME NEW b \in PerTransport, NEW t \in Nat
  PROVE  RecordFailure(b, t) \in PerTransport
<1>0. "Open" \in BreakerState /\ b.state \in BreakerState
  BY DEF BreakerState, PerTransport
<1>1. CASE b.state = "HalfOpen"
  BY <1>0, <1>1, TransitionType, ProbeTypes DEF RecordFailure
<1>2. CASE b.state = "Closed"
  <2> DEFINE n == [b EXCEPT !.consecutiveFailures = @ + 1]
  <2>1. n \in PerTransport
    BY DEF PerTransport
  <2>2. RecordFailure(b, t) = IF n.consecutiveFailures >= FailureThreshold
                                THEN Transition(n, "Open", t) ELSE n
    BY <1>2 DEF RecordFailure
  <2> HIDE DEF n
  <2> QED BY <1>0, <2>1, <2>2, TransitionType
<1>3. CASE b.state = "Open"
  BY <1>3 DEF RecordFailure
<1> QED BY <1>0, <1>1, <1>2, <1>3 DEF BreakerState

-----------------------------------------------------------------------------
(* What the breaker of one kind keeps, together with its history: the      *)
(* probe count is determined by the state, a closed breaker has counted no *)
(* more failures than were recorded since the last success, an open one    *)
(* was opened after its last probe.                                        *)
BreakerInv(b, st, pr, t) ==
  /\ b.inFlightProbes = IF b.state = "HalfOpen" THEN 1 ELSE 0
  /\ b.state = "Closed" => b.consecutiveFailures <= st
  /\ b.state = "Open" => pr <= b.openedAt
  /\ pr <= t

CountFailure(st) == IF st < FailureThreshold THEN st + 1 ELSE st

LEMMA CanAttemptInv ==
  ASSUME NEW b \in PerTransport, NEW st \in Nat, NEW pr \in Nat, NEW t \in Nat,
         BreakerInv(b, st, pr, t)
  PROVE  LET c == CanAttempt(b, t)
             q == IF b.state = "Open" /\ Admits(b, t) THEN t ELSE pr
         IN  /\ BreakerInv(c, st, q, t)
             /\ q # pr => q - pr >= CooldownMs
             /\ q # pr => c.state = "HalfOpen"
             /\ b.state = "Closed" => c = b
<1>1. CASE b.state = "Closed"
  BY <1>1 DEF CanAttempt, BreakerInv
<1>2. CASE b.state = "HalfOpen"
  BY <1>2 DEF CanAttempt, BreakerInv
<1>3. CASE b.state = "Open" /\ ~ CooledDown(b, t)
  BY <1>3 DEF CanAttempt, BreakerInv, Admits
<1>4. CASE b.state = "Open" /\ CooledDown(b, t)
  <2> DEFINE h == Transition(b, "HalfOpen", t)
  <2>1. h \in PerTransport /\ h.state = "HalfOpen" /\ h.inFlightProbes = 0
    BY <1>4, TransitionType DEF Transition, PerTransport, BreakerState
  <2>2. CanAttempt(b, t) = TakeProbe(h)
    BY <1>4 DEF CanAttempt
  <2>3. TakeProbe(h).state = "HalfOpen" /\ TakeProbe(h).inFlightProbes = 1
    <3> HIDE DEF h
    <3> QED BY <2>1 DEF TakeProbe, PerTransport
  <2>4. t - pr >= CooldownMs
    BY <1>4, BreakerOptions DEF BreakerInv, CooledDown, PerTransport
  <2> HIDE DEF h
  <2> QED BY <1>4, <2>2, <2>3, <2>4 DEF BreakerInv, Admits, PerTransport
<1> QED BY <1>1, <1>2, <1>3, <1>4 DEF PerTransport, BreakerState

LEMMA ReleaseHalfOpen ==
  ASSUME NEW b \in PerTransport, NEW st \in Nat, NEW pr \in Nat, NEW t \in Nat,
         BreakerInv(b, st, pr, t), b.state = "HalfOpen"
  PROVE  /\ ReleaseProbe(b) \in PerTransport
         /\ ReleaseProbe(b).state = "HalfOpen"
         /\ ReleaseProbe(b).inFlightProbes = 0
BY ProbeTypes DEF ReleaseProbe, BreakerInv, PerTransport

LEMMA RecordSuccessInv ==
  ASSUME NEW b \in PerTransport, NEW st \in Nat, NEW pr \in Nat, NEW t \in Nat,
         BreakerInv(b, st, pr, t)
  PROVE  /\ BreakerInv(RecordSuccess(b, t), 0, pr, t)
         /\ b.state = "Closed" => RecordSuccess(b, t).state = "Closed"
<1>1. CASE b.state = "HalfOpen"
  <2> DEFINE r == Transition(ReleaseProbe(b), "Closed", t)
  <2>0. /\ ReleaseProbe(b) \in PerTransport
        /\ ReleaseProbe(b).state = "HalfOpen"
        /\ ReleaseProbe(b).inFlightProbes = 0
    BY <1>1, ReleaseHalfOpen
  <2>1. r \in PerTransport /\ r.state = "Closed" /\ r.inFlightProbes = 0
    <3>1. r \in PerTransport
      BY <2>0, TransitionType DEF BreakerState
    <3>2. r = [ReleaseProbe(b) EXCEPT !.state = "Closed", !.consecutiveFailures = 0]
      BY <2>0 DEF Transition
    <3> QED BY <2>0, <3>1, <3>2 DEF PerTransport
  <2>2. RecordSuccess(b, t) = [r EXCEPT !.consecutiveFailures = 0]
    BY <1>1 DEF RecordSuccess
  <2> HIDE DEF r
  <2> QED BY <1>1, <2>1, <2>2 DEF BreakerInv, PerTransport
<1>2. CASE b.state # "HalfOpen"
  BY <1>2 DEF RecordSuccess, BreakerInv, PerTransport
<1> QED BY <1>1, <1>2

LEMMA RecordFailureInv ==
  ASSUME NEW b \in PerTransport, NEW st \in Nat, NEW pr \in Nat, NEW t \in Nat,
         BreakerInv(b, st, pr, t)
  PROVE  /\ BreakerInv(RecordFailure(b, t), CountFailure(st), pr, t)
         /\ (b.state = "Closed" /\ RecordFailure(b, t).state # "Closed")
              => CountFailure(st) >= FailureThreshold
<1>1. CASE b.state = "HalfOpen"
  <2> DEFINE r == Transition(ReleaseProbe(b), "Open", t)
  <2>1. r.state = "Open" /\ r.inFlightProbes = 0 /\ r.openedAt = t
    BY <1>1, ReleaseHalfOpen DEF Transition, PerTransport, BreakerState, BreakerInv
  <2>2. RecordFailure(b, t) = r
    BY <1>1 DEF RecordFailure
  <2> HIDE DEF r
  <2> QED BY <1>1, <2>1, <2>2 DEF BreakerInv
<1>2. CASE b.state = "Closed" /\ b.consecutiveFailures + 1 >= FailureThreshold
  <2> DEFINE n == [b EXCEPT !.consecutiveFailures = @ + 1]
             r == Transition(n, "Open", t)
  <2>1. n \in PerTransport /\ n.state = "Closed" /\ n.inFlightProbes = 0
    BY <1>2 DEF PerTransport, BreakerInv
  <2>2. r.state = "Open" /\ r.inFlightProbes = 0 /\ r.openedAt = t
    <3> HIDE DEF n
    <3> QED BY <2>1 DEF Transition, PerTransport
  <2>3. RecordFailure(b, t) = r
    BY <1>2 DEF RecordFailure, PerTransport
  <2>4. CountFailure(st) >= FailureThreshold
    BY <1>2, BreakerOptions DEF BreakerInv, CountFailure, PerTransport
  <2> HIDE DEF r
  <2> QED BY <1>2, <2>2, <2>3, <2>4 DEF BreakerInv
<1>3. CASE b.state = "Closed" /\ ~ (b.consecutiveFailures + 1 >= FailureThreshold)
  <2>1. RecordFailure(b, t) = [b EXCEPT !.consecutiveFailures = @ + 1]
    BY <1>3 DEF RecordFailure, PerTransport
  <2> QED BY <1>3, <2>1, BreakerOptions DEF BreakerInv, CountFailure, PerTransport
<1>4. CASE b.state = "Open"
  BY <1>4 DEF RecordFailure, BreakerInv
<1> QED BY <1>1, <1>2, <1>3, <1>4 DEF PerTransport, BreakerState

-----------------------------------------------------------------------------
(* What one step of the router does to one breaker.                        *)

(* Recorded(b, k): the record b[k] with at most one result recorded. *)
Recorded(b, k) ==
  \/ breaker'[k] = b[k] /\ streak'[k] = streak[k]
  \/ breaker'[k] = RecordFailure(b[k], now) /\ streak'[k] = CountFailure(streak[k])
  \/ breaker'[k] = RecordSuccess(b[k], now) /\ streak'[k] = 0

LEMMA RecordStep ==
  ASSUME NEW b, NEW F, NEW S, Record(b, F, S), F \intersect S = {}, NEW k \in Kinds
  PROVE  Recorded(b, k)
<1>1. CASE k \in F
  BY <1>1 DEF Record, Recorded, CountFailure
<1>2. CASE k \in S
  BY <1>2 DEF Record, Recorded
<1>3. CASE k \notin F /\ k \notin S
  BY <1>3 DEF Record, Recorded
<1> QED BY <1>1, <1>2, <1>3

LEMMA RecordType ==
  ASSUME NEW b \in [Kinds -> PerTransport], NEW F, NEW S, Record(b, F, S),
         F \intersect S = {}, now \in Nat, streak \in [Kinds -> Nat]
  PROVE  breaker' \in [Kinds -> PerTransport] /\ streak' \in [Kinds -> Nat]
<1>1. ASSUME NEW k \in Kinds
      PROVE  breaker'[k] \in PerTransport /\ streak'[k] \in Nat
  <2>1. Recorded(b, k)
    BY RecordStep
  <2>2. b[k] \in PerTransport /\ streak[k] \in Nat
    OBVIOUS
  <2>3. RecordFailure(b[k], now) \in PerTransport /\ RecordSuccess(b[k], now) \in PerTransport
    BY <2>2, RecordFailureType, RecordSuccessType
  <2>4. CountFailure(streak[k]) \in Nat
    BY <2>2 DEF CountFailure
  <2> QED BY <2>1, <2>2, <2>3, <2>4 DEF Recorded
<1>2. breaker' = [k \in Kinds |-> breaker'[k]] /\ streak' = [k \in Kinds |-> streak'[k]]
  BY DEF Record
<1> QED BY <1>1, <1>2

LEMMA LoopRecords ==
  ASSUME NEW s, NEW c, NEW b, NEW F, NEW C, Loop(s, c, b, F, C)
  PROVE  \E G : Record(b, G, {})
BY DEF Loop

(* Send admits, the other steps of a call take the breakers as they are.   *)
LEMMA BreakerStep ==
  ASSUME Next, NEW k \in Kinds
  PROVE  \/ /\ UNCHANGED now
            /\ \/ /\ Recorded([j \in Kinds |-> CanAttempt(breaker[j], now)], k)
                  /\ probedAt'[k] =
                       IF breaker[k].state = "Open" /\ Admits(breaker[k], now)
                         THEN now ELSE probedAt[k]
               \/ Recorded(breaker, k) /\ UNCHANGED probedAt
         \/ now' = now + 1 /\ UNCHANGED <<breaker, streak, probedAt>>
<1>1. ASSUME NEW s \in Senders, NEW budget \in Budgets, NEW addr \in SUBSET Kinds,
             Send(s, budget, addr)
      PROVE  /\ UNCHANGED now
             /\ Recorded([j \in Kinds |-> CanAttempt(breaker[j], now)], k)
             /\ probedAt'[k] =
                  IF breaker[k].state = "Open" /\ Admits(breaker[k], now)
                    THEN now ELSE probedAt[k]
  <2> DEFINE b == [j \in Kinds |-> CanAttempt(breaker[j], now)]
  <2>1. \E G : Record(b, G, {})
    BY <1>1, LoopRecords DEF Send
  <2>2. Recorded(b, k)
    BY <2>1, RecordStep
  <2>3. /\ UNCHANGED now
        /\ probedAt'[k] = IF breaker[k].state = "Open" /\ Admits(breaker[k], now)
                            THEN now ELSE probedAt[k]
    BY <1>1 DEF Send
  <2> QED BY <2>2, <2>3
<1>2. ASSUME NEW s \in Senders, NEW status \in Answer, SettleFinal(s, status)
      PROVE  UNCHANGED <<now, probedAt>> /\ Recorded(breaker, k)
  BY <1>2, RecordStep DEF SettleFinal
<1>3. ASSUME NEW s \in Senders, NEW status \in Answer, SettleFailed(s, status)
      PROVE  UNCHANGED <<now, probedAt>> /\ Recorded(breaker, k)
  <2>1. \E G : Record(breaker, G, {})
    BY <1>3, LoopRecords DEF SettleFailed
  <2> QED BY <1>3, <2>1, RecordStep DEF SettleFailed
<1>4. ASSUME Tick
      PROVE  now' = now + 1 /\ UNCHANGED <<breaker, streak, probedAt>>
  BY <1>4 DEF Tick
<1> QED BY <1>1, <1>2, <1>3, <1>4 DEF Next

-----------------------------------------------------------------------------
(* Type correctness.                                                       *)

SendType ==
  /\ send \in [Senders -> Call]
  /\ \A s \in Senders : send[s].phase = "awaiting" => send[s].at \in Kinds

LEMMA NoCallType == NoCall \in Call
BY DEF NoCall, Call

LEMMA ReturnType ==
  ASSUME SendType, NEW s \in Senders, NEW c \in Call,
         NEW status \in Answer, NEW left \in SUBSET Kinds, Return(s, c, status, left)
  PROVE  SendType'
<1> DEFINE r == [NoCall EXCEPT !.phase = "done", !.left = left,
                               !.budget = c.budget, !.last = status]
<1>1. r \in Call /\ r.phase = "done"
  BY NoCallType DEF Call
<1>2. send' = [send EXCEPT ![s] = r]
  BY DEF Return
<1> HIDE DEF r
<1> QED BY <1>1, <1>2 DEF SendType

LEMMA ShareType ==
  ASSUME NEW C \in SUBSET Kinds, NEW k \in C, NEW d \in Nat, now \in Nat, now < d
  PROVE  /\ IsFiniteSet(C) /\ Cardinality(C) \in Nat \ {0}
         /\ PerAttempt(d - now, Cardinality(C)) \in Nat \ {0}
         /\ SettleBy(k, d, PerAttempt(d - now, Cardinality(C))) \in Nat
<1>1. IsFiniteSet(C) /\ Cardinality(C) \in Nat \ {0}
  BY RouterParameters, FS_Subset, FS_CardinalityType, FS_EmptySet
<1>2. PerAttempt(d - now, Cardinality(C)) \in Nat \ {0}
  BY <1>1 DEF PerAttempt
<1>3. SettleBy(k, d, PerAttempt(d - now, Cardinality(C))) \in Nat
  BY <1>2 DEF SettleBy
<1> QED BY <1>1, <1>2, <1>3

LEMMA LoopType ==
  ASSUME SendType, now \in Nat, NEW s \in Senders, NEW c \in Call, NEW b, NEW F,
         NEW C \in SUBSET Kinds, Loop(s, c, b, F, C)
  PROVE  SendType'
<1> DEFINE status == IF c.last = "none" THEN "timeout" ELSE c.last
<1>0. status \in Answer
  BY DEF Call, Answer
<1>1. CASE Return(s, c, status, C) \/ Return(s, c, status, {})
  <2> HIDE DEF status
  <2> QED BY <1>0, <1>1, ReturnType
<1>2. ASSUME NEW k \in C, now < c.deadline,
             LET skipped == {j \in C \ c.addr : Rank[j] < Rank[k]}
                 rest    == C \ skipped
                 share   == PerAttempt(c.deadline - now, Cardinality(rest))
             IN  /\ Upcoming(k, C, c.addr)
                 /\ send' = [send EXCEPT ![s] =
                      [c EXCEPT !.phase = "awaiting", !.at = k, !.left = rest \ {k},
                                !.settleBy = SettleBy(k, c.deadline, share)]]
      PROVE  SendType'
  <2> DEFINE skipped == {j \in C \ c.addr : Rank[j] < Rank[k]}
             rest    == C \ skipped
             t       == SettleBy(k, c.deadline, PerAttempt(c.deadline - now, Cardinality(rest)))
             r       == [c EXCEPT !.phase = "awaiting", !.at = k, !.left = rest \ {k},
                                  !.settleBy = t]
  <2>1. k \in rest /\ rest \in SUBSET Kinds /\ c.deadline \in Nat
    BY <1>2 DEF Upcoming, Call
  <2>2. t \in Nat
    <3> HIDE DEF rest
    <3> QED BY <1>2, <2>1, ShareType
  <2>3. r \in Call /\ r.at \in Kinds
    <3> HIDE DEF rest, t
    <3> QED BY <1>2, <2>1, <2>2 DEF Call
  <2>4. send' = [send EXCEPT ![s] = r]
    BY <1>2
  <2> HIDE DEF r
  <2> QED BY <2>3, <2>4 DEF SendType
<1> QED BY <1>1, <1>2 DEF Loop

(* A call of send enters the loop with the kinds admitted, or returns.     *)
LEMMA SendCall ==
  ASSUME now \in Nat, NEW s \in Senders, NEW budget \in Budgets, NEW addr \in SUBSET Kinds,
         Send(s, budget, addr)
  PROVE  \E c \in Call, C \in SUBSET Kinds :
           /\ \/ Return(s, c, "error", {})
              \/ C # {} /\ \E b : Loop(s, c, b, {}, C)
           /\ c.deadline = now + c.budget
           /\ UNCHANGED now
<1> DEFINE admitted == {k \in Kinds : Admits(breaker[k], now)}
           b == [k \in Kinds |-> CanAttempt(breaker[k], now)]
           c == [NoCall EXCEPT !.budget = budget, !.deadline = now + budget, !.addr = addr,
                   !.probes = {k \in admitted : breaker[k].state # "Closed"}]
<1>1. admitted \in SUBSET Kinds /\ {k \in admitted : breaker[k].state # "Closed"} \in SUBSET Kinds
  OBVIOUS
<1>2. budget \in Nat /\ now + budget \in Nat
  BY RouterParameters
<1>3. c \in Call /\ c.deadline = now + c.budget
  <2> HIDE DEF admitted
  <2> QED BY <1>1, <1>2, NoCallType DEF Call
<1>4. /\ Return(s, c, "error", {}) \/ (Loop(s, c, b, {}, admitted) /\ admitted # {})
      /\ UNCHANGED now
  BY DEF Send
<1> HIDE DEF b, c, admitted
<1> QED BY <1>1, <1>3, <1>4

LEMMA SendStepType ==
  ASSUME SendType, now \in Nat, Next
  PROVE  SendType'
<1>1. ASSUME NEW s \in Senders, NEW budget \in Budgets, NEW addr \in SUBSET Kinds,
             Send(s, budget, addr)
      PROVE  SendType'
  BY <1>1, SendCall, ReturnType, LoopType DEF Answer
<1>2. ASSUME NEW s \in Senders, NEW status \in Answer, SettleFinal(s, status)
      PROVE  SendType'
  <2>1. send[s] \in Call /\ send[s].left \in SUBSET Kinds
    BY DEF SendType, Call
  <2> QED BY <1>2, <2>1, ReturnType DEF SettleFinal
<1>3. ASSUME NEW s \in Senders, NEW status \in Answer, SettleFailed(s, status)
      PROVE  SendType'
  <2> DEFINE c == [send[s] EXCEPT !.last = status]
  <2>1. c \in Call /\ c.left \in SUBSET Kinds
    BY DEF SendType, Call
  <2>2. Return(s, c, status, c.left) \/ Loop(s, c, breaker, {c.at}, c.left)
    BY <1>3 DEF SettleFailed
  <2> HIDE DEF c
  <2> QED BY <2>1, <2>2, ReturnType, LoopType
<1>4. CASE Tick
  BY <1>4 DEF Tick, SendType
<1> QED BY <1>1, <1>2, <1>3, <1>4 DEF Next

(* Every reachable state is well-typed. *)
THEOREM TypeCorrect == Spec => []TypeOK
<1>1. Init => TypeOK
  <2>1. Fresh \in PerTransport
    BY DEF Fresh, PerTransport, BreakerState
  <2>2. NoCall \in Call /\ NoCall.phase # "awaiting"
    BY NoCallType DEF NoCall
  <2> QED BY <2>1, <2>2 DEF Init, TypeOK
<1>2. TypeOK /\ [Next]_vars => TypeOK'
  <2> SUFFICES ASSUME TypeOK, Next PROVE TypeOK'
    BY DEF TypeOK, vars
  <2>1. SendType /\ now \in Nat
    BY DEF TypeOK, SendType
  <2>2. SendType'
    BY <2>1, SendStepType
  <2>3. ASSUME NEW k \in Kinds
        PROVE  probedAt'[k] \in Nat
    BY BreakerStep DEF TypeOK
  <2>4. now' \in Nat /\ probedAt' \in [Kinds -> Nat]
    <3>1. now' \in Nat
      <4>1. now' = now \/ now' = now + 1
        BY DEF Next, Send, SettleFinal, SettleFailed, Tick
      <4> QED BY <4>1 DEF TypeOK
    <3>2. probedAt' = [k \in Kinds |-> probedAt'[k]]
      <4>1. probedAt = [k \in Kinds |-> probedAt[k]]
        BY DEF TypeOK
      <4>2. ASSUME NEW s \in Senders, NEW budget \in Budgets, NEW addr \in SUBSET Kinds,
                   Send(s, budget, addr)
            PROVE  probedAt' = [k \in Kinds |-> probedAt'[k]]
        BY <4>2 DEF Send
      <4>3. CASE UNCHANGED probedAt
        BY <4>1, <4>3
      <4> QED BY <4>2, <4>3 DEF Next, SettleFinal, SettleFailed, Tick
    <3> QED BY <2>3, <3>1, <3>2
  <2>5. breaker' \in [Kinds -> PerTransport] /\ streak' \in [Kinds -> Nat]
    <3> DEFINE b == [k \in Kinds |-> CanAttempt(breaker[k], now)]
    <3>1. b \in [Kinds -> PerTransport]
      BY CanAttemptType DEF TypeOK
    <3>2. \/ \E G : Record(b, G, {})
          \/ \E G : Record(breaker, G, {})
          \/ \E S : Record(breaker, {}, S)
          \/ UNCHANGED <<breaker, streak>>
      <4> HIDE DEF b
      <4>1. ASSUME NEW s \in Senders, NEW budget \in Budgets, NEW addr \in SUBSET Kinds,
                   Send(s, budget, addr)
            PROVE  \E G : Record(b, G, {})
        BY <4>1, LoopRecords DEF Send, b
      <4>2. ASSUME NEW s \in Senders, NEW status \in Answer, SettleFinal(s, status)
            PROVE  \E S : Record(breaker, {}, S)
        BY <4>2 DEF SettleFinal
      <4>3. ASSUME NEW s \in Senders, NEW status \in Answer, SettleFailed(s, status)
            PROVE  \E G : Record(breaker, G, {})
        BY <4>3, LoopRecords DEF SettleFailed
      <4> QED BY <4>1, <4>2, <4>3 DEF Next, Tick
    <3> HIDE DEF b
    <3> QED BY <3>1, <3>2, RecordType DEF TypeOK
  <2> QED BY <2>2, <2>4, <2>5 DEF TypeOK, SendType
<1> QED BY <1>1, <1>2, PTL DEF Spec

-----------------------------------------------------------------------------
(* The breakers of a router and their histories keep BreakerInv.           *)

BreakersInv ==
  \A k \in Kinds : BreakerInv(breaker[k], streak[k], probedAt[k], now)

(* What one step does to a breaker that satisfies the invariant: it keeps  *)
(* it, opens only after a full streak and probes only after a cooldown.    *)
LEMMA BreakerStepInv ==
  ASSUME TypeOK, BreakersInv, Next, NEW k \in Kinds
  PROVE  /\ BreakerInv(breaker'[k], streak'[k], probedAt'[k], now')
         /\ (breaker[k].state = "Closed" /\ breaker'[k].state = "Open")
              => streak'[k] >= FailureThreshold
         /\ probedAt'[k] # probedAt[k] => probedAt'[k] - probedAt[k] >= CooldownMs
<1>0. /\ breaker[k] \in PerTransport /\ streak[k] \in Nat
      /\ probedAt[k] \in Nat /\ now \in Nat
      /\ BreakerInv(breaker[k], streak[k], probedAt[k], now)
  BY DEF TypeOK, BreakersInv
<1>1. ASSUME NEW f \in [Kinds -> PerTransport], NEW q \in Nat, Recorded(f, k),
             BreakerInv(f[k], streak[k], q, now)
      PROVE  /\ BreakerInv(breaker'[k], streak'[k], q, now)
             /\ (f[k].state = "Closed" /\ breaker'[k].state = "Open")
                  => streak'[k] >= FailureThreshold
  <2>1. f[k] \in PerTransport
    OBVIOUS
  <2>2. CASE breaker'[k] = f[k] /\ streak'[k] = streak[k]
    BY <1>1, <2>2
  <2>3. CASE breaker'[k] = RecordFailure(f[k], now) /\ streak'[k] = CountFailure(streak[k])
    BY <1>0, <1>1, <2>1, <2>3, RecordFailureInv
  <2>4. CASE breaker'[k] = RecordSuccess(f[k], now) /\ streak'[k] = 0
    BY <1>0, <1>1, <2>1, <2>4, RecordSuccessInv
  <2> QED BY <1>1, <2>2, <2>3, <2>4 DEF Recorded
<1>2. CASE /\ UNCHANGED now
           /\ Recorded([j \in Kinds |-> CanAttempt(breaker[j], now)], k)
           /\ probedAt'[k] = IF breaker[k].state = "Open" /\ Admits(breaker[k], now)
                               THEN now ELSE probedAt[k]
  <2> DEFINE f == [j \in Kinds |-> CanAttempt(breaker[j], now)]
             q == IF breaker[k].state = "Open" /\ Admits(breaker[k], now)
                    THEN now ELSE probedAt[k]
  <2>1. f \in [Kinds -> PerTransport] /\ q \in Nat /\ f[k] = CanAttempt(breaker[k], now)
    BY <1>0, CanAttemptType DEF TypeOK
  <2>2. /\ BreakerInv(f[k], streak[k], q, now)
        /\ q # probedAt[k] => q - probedAt[k] >= CooldownMs
        /\ breaker[k].state = "Closed" => f[k].state = "Closed"
    BY <1>0, <2>1, CanAttemptInv
  <2>3. probedAt'[k] = q /\ Recorded(f, k) /\ now' = now
    BY <1>2
  <2> HIDE DEF f, q
  <2> QED BY <1>1, <2>1, <2>2, <2>3
<1>3. CASE UNCHANGED now /\ Recorded(breaker, k) /\ UNCHANGED probedAt
  <2>1. breaker \in [Kinds -> PerTransport]
    BY DEF TypeOK
  <2> QED BY <1>0, <1>1, <1>3, <2>1
<1>4. CASE now' = now + 1 /\ UNCHANGED <<breaker, streak, probedAt>>
  BY <1>0, <1>4 DEF BreakerInv
<1> QED BY <1>2, <1>3, <1>4, BreakerStep

LEMMA BreakersInvariant == Spec => []BreakersInv
<1>1. Init => BreakersInv
  BY DEF Init, BreakersInv, BreakerInv, Fresh
<1>2. TypeOK /\ BreakersInv /\ [Next]_vars => BreakersInv'
  <2>1. CASE Next
    BY <2>1, BreakerStepInv DEF BreakersInv
  <2>2. CASE UNCHANGED vars
    BY <2>2 DEF vars, BreakersInv
  <2> QED BY <2>1, <2>2
<1> QED BY <1>1, <1>2, TypeCorrect, PTL DEF Spec

(* Whatever stragglers report, a breaker counts one probe exactly while it *)
(* is half-open.                                                           *)
THEOREM ProbesAccounted == Spec => []ProbeAccounting
<1>1. BreakersInv => ProbeAccounting
  BY DEF BreakersInv, BreakerInv, ProbeAccounting
<1> QED BY <1>1, BreakersInvariant, PTL

(* A breaker opens only after FailureThreshold failures in a row.          *)
THEOREM OpensOnlyAfterStreak == Spec => OpensAfterStreak
<1>1. TypeOK /\ BreakersInv /\ [Next]_vars =>
        [\A k \in Kinds : (breaker[k].state = "Closed" /\ breaker'[k].state = "Open")
                             => streak'[k] >= FailureThreshold]_vars
  BY BreakerStepInv
<1> QED BY <1>1, TypeCorrect, BreakersInvariant, PTL DEF Spec, OpensAfterStreak

(* Probes of one transport are at least a cooldown apart.                  *)
THEOREM ProbesSpaced == Spec => ProbeSpacing
<1>1. TypeOK /\ BreakersInv /\ [Next]_vars =>
        [\A k \in Kinds : probedAt'[k] # probedAt[k]
                             => probedAt'[k] - probedAt[k] >= CooldownMs]_vars
  BY BreakerStepInv
<1> QED BY <1>1, TypeCorrect, BreakersInvariant, PTL DEF Spec, ProbeSpacing

-----------------------------------------------------------------------------
(* The time budget.                                                        *)

(* A share is never more than what remains, and leaves a tick for each of  *)
(* the other candidates when there was one for every candidate.            *)
LEMMA ShareFits ==
  ASSUME NEW r \in Nat \ {0}, NEW n \in Nat \ {0}
  PROVE  /\ PerAttempt(r, n) \in 1..r
         /\ n <= r => PerAttempt(r, n) + (n - 1) <= r
<1> DEFINE q == r \div n
<1>1. q \in Nat /\ n * q <= r
  OBVIOUS
<1>2. q <= n * q
  BY <1>1
<1>3. ASSUME q > 1 PROVE q + (n - 1) <= r
  <2>1. (n - 1) * (q - 1) >= 0
    BY <1>1, <1>3
  <2>2. (n - 1) * (q - 1) = n * q - q - n + 1
    BY <1>1
  <2> QED BY <1>1, <2>1, <2>2
<1> QED BY <1>1, <1>2, <1>3 DEF PerAttempt

(* An awaited attempt settles no later than the deadline of its request.   *)
DeadlineInv ==
  \A s \in Senders :
    send[s].phase = "awaiting" =>
      /\ send[s].settleBy <= send[s].deadline
      /\ Patience[send[s].at] # "unbounded" => now <= send[s].settleBy

(* With transports that honour timeoutMs, an awaited attempt of a request  *)
(* that had a tick for every transport settles early enough to leave one   *)
(* for each candidate left.                                                *)
BudgetInv ==
  \A s \in Senders :
    send[s].budget >= Cardinality(Kinds) =>
      /\ send[s].phase = "awaiting" =>
           send[s].settleBy + Cardinality(send[s].left) <= send[s].deadline
      /\ send[s].phase = "done" /\ send[s].last \notin Final => send[s].left = {}

LEMMA ReturnPhase ==
  ASSUME SendType, NEW s \in Senders, NEW c \in Call, NEW status, NEW left,
         Return(s, c, status, left)
  PROVE  /\ send'[s].phase = "done" /\ send'[s].left = left
         /\ send'[s].budget = c.budget /\ send'[s].last = status
         /\ \A r \in Senders \ {s} : send'[r] = send[r]
<1> DEFINE d == [NoCall EXCEPT !.phase = "done", !.left = left,
                               !.budget = c.budget, !.last = status]
<1>1. d.phase = "done" /\ d.left = left /\ d.budget = c.budget /\ d.last = status
  BY DEF NoCall
<1>2. send' = [send EXCEPT ![s] = d] /\ send \in [Senders -> Call]
  BY DEF Return, SendType
<1> HIDE DEF d
<1> QED BY <1>1, <1>2

(* One turn of the loop: it returns, at the deadline or with no candidate  *)
(* left, or awaits a candidate within its share.                           *)
LEMMA LoopBudget ==
  ASSUME SendType, now \in Nat, NEW s \in Senders, NEW c \in Call, NEW b, NEW F,
         NEW C \in SUBSET Kinds, Loop(s, c, b, F, C)
  PROVE  /\ \A r \in Senders \ {s} : send'[r] = send[r]
         /\ send'[s].budget = c.budget
         /\ \/ send'[s].phase = "done" /\ (now >= c.deadline \/ send'[s].left = {})
            \/ /\ send'[s].phase = "awaiting"
               /\ send'[s].at \in Kinds
               /\ send'[s].deadline = c.deadline
               /\ send'[s].settleBy <= c.deadline
               /\ now <= send'[s].settleBy
               /\ (Patience[send'[s].at] = "attempt" /\ now + Cardinality(C) <= c.deadline)
                    => send'[s].settleBy + Cardinality(send'[s].left) <= c.deadline
<1>1. ASSUME NEW status, NEW left, Return(s, c, status, left), now >= c.deadline \/ left = {}
      PROVE  /\ \A r \in Senders \ {s} : send'[r] = send[r]
             /\ send'[s].budget = c.budget
             /\ send'[s].phase = "done" /\ (now >= c.deadline \/ send'[s].left = {})
  BY <1>1, ReturnPhase
<1>2. ASSUME NEW k \in C, now < c.deadline,
             LET skipped == {j \in C \ c.addr : Rank[j] < Rank[k]}
                 rest    == C \ skipped
                 share   == PerAttempt(c.deadline - now, Cardinality(rest))
             IN  /\ Upcoming(k, C, c.addr)
                 /\ send' = [send EXCEPT ![s] =
                      [c EXCEPT !.phase = "awaiting", !.at = k, !.left = rest \ {k},
                                !.settleBy = SettleBy(k, c.deadline, share)]]
      PROVE  /\ \A r \in Senders \ {s} : send'[r] = send[r]
             /\ send'[s].budget = c.budget
             /\ send'[s].phase = "awaiting"
             /\ send'[s].at \in Kinds
             /\ send'[s].deadline = c.deadline
             /\ send'[s].settleBy <= c.deadline
             /\ now <= send'[s].settleBy
             /\ (Patience[send'[s].at] = "attempt" /\ now + Cardinality(C) <= c.deadline)
                  => send'[s].settleBy + Cardinality(send'[s].left) <= c.deadline
  <2> DEFINE skipped == {j \in C \ c.addr : Rank[j] < Rank[k]}
             rest    == C \ skipped
             n       == Cardinality(rest)
             share   == PerAttempt(c.deadline - now, n)
             t       == SettleBy(k, c.deadline, share)
             r       == [c EXCEPT !.phase = "awaiting", !.at = k, !.left = rest \ {k},
                                  !.settleBy = t]
  <2>1. k \in rest /\ rest \in SUBSET C /\ c.deadline \in Nat /\ k \in Kinds
    BY <1>2 DEF Upcoming, Call
  <2>2. /\ n \in Nat \ {0} /\ Cardinality(C) \in Nat /\ n <= Cardinality(C)
        /\ Cardinality(rest \ {k}) = n - 1
    <3> HIDE DEF rest
    <3>1. IsFiniteSet(C) /\ IsFiniteSet(rest)
      BY <2>1, RouterParameters, FS_Subset
    <3>2. Cardinality(rest) <= Cardinality(C)
      BY <2>1, <3>1, FS_Subset
    <3>3. Cardinality(rest \ {k}) = Cardinality(rest) - 1
      BY <2>1, <3>1, FS_RemoveElement
    <3>4. Cardinality(rest) \in Nat \ {0} /\ Cardinality(C) \in Nat
      BY <2>1, <3>1, FS_CardinalityType, FS_EmptySet
    <3> QED BY <3>2, <3>3, <3>4
  <2>3. /\ share \in 1..(c.deadline - now)
        /\ n <= c.deadline - now => share + (n - 1) <= c.deadline - now
    <3> HIDE DEF n
    <3>1. c.deadline - now \in Nat \ {0}
      BY <1>2, <2>1
    <3> QED BY <2>2, <3>1, ShareFits
  <2>4. /\ t <= c.deadline /\ now <= t
        /\ (Patience[k] = "attempt" /\ now + Cardinality(C) <= c.deadline)
             => t + (n - 1) <= c.deadline
    <3> HIDE DEF share, n
    <3> QED BY <1>2, <2>1, <2>2, <2>3 DEF SettleBy
  <2>5. /\ r.phase = "awaiting" /\ r.at = k /\ r.left = rest \ {k} /\ r.settleBy = t
        /\ r.budget = c.budget /\ r.deadline = c.deadline
    <3> HIDE DEF rest, t
    <3> QED BY DEF Call
  <2>6. send' = [send EXCEPT ![s] = r] /\ send \in [Senders -> Call]
    BY <1>2 DEF SendType
  <2> HIDE DEF r, t, rest, n
  <2>7. send'[s] = r /\ \A x \in Senders \ {s} : send'[x] = send[x]
    BY <2>6
  <2> QED BY <2>1, <2>2, <2>4, <2>5, <2>7
<1> QED BY <1>1, <1>2 DEF Loop

LEMMA DeadlineStep ==
  ASSUME TypeOK, DeadlineInv, Next
  PROVE  DeadlineInv'
<1>0. SendType /\ now \in Nat
  BY DEF TypeOK, SendType
<1>1. ASSUME NEW s \in Senders, NEW c \in Call, NEW b, NEW F, NEW C \in SUBSET Kinds,
             Loop(s, c, b, F, C), UNCHANGED now
      PROVE  DeadlineInv'
  BY <1>0, <1>1, LoopBudget DEF DeadlineInv
<1>2. ASSUME NEW s \in Senders, NEW c \in Call, NEW status, NEW left,
             Return(s, c, status, left), UNCHANGED now
      PROVE  DeadlineInv'
  BY <1>0, <1>2, ReturnPhase DEF DeadlineInv
<1>3. CASE Tick
  BY <1>0, <1>3 DEF Tick, DeadlineInv, SendType, Call
<1>4. ASSUME NEW s \in Senders, NEW budget \in Budgets, NEW addr \in SUBSET Kinds,
             Send(s, budget, addr)
      PROVE  DeadlineInv'
  <2>1. \E c \in Call, C \in SUBSET Kinds :
          /\ Return(s, c, "error", {}) \/ \E b : Loop(s, c, b, {}, C)
          /\ UNCHANGED now
    BY <1>0, <1>4, SendCall
  <2> QED BY <1>1, <1>2, <2>1
<1>5. ASSUME NEW s \in Senders, NEW status \in Answer, SettleFinal(s, status)
      PROVE  DeadlineInv'
  BY <1>0, <1>2, <1>5 DEF SettleFinal, SendType
<1>6. ASSUME NEW s \in Senders, NEW status \in Answer, SettleFailed(s, status)
      PROVE  DeadlineInv'
  <2> DEFINE c == [send[s] EXCEPT !.last = status]
  <2>1. c \in Call /\ c.left \in SUBSET Kinds
    BY <1>0 DEF SendType, Call
  <2>2. (Return(s, c, status, c.left) \/ Loop(s, c, breaker, {c.at}, c.left)) /\ UNCHANGED now
    BY <1>6 DEF SettleFailed
  <2> HIDE DEF c
  <2> QED BY <1>1, <1>2, <2>1, <2>2
<1> QED BY <1>3, <1>4, <1>5, <1>6 DEF Next

(* A call whose transports guard their awaits is never still waiting after *)
(* the deadline of its request.                                            *)
THEOREM SendsReturnByDeadline == Spec => []ReturnsByDeadline
<1>1. Init => DeadlineInv
  BY DEF Init, DeadlineInv, NoCall
<1>2. TypeOK /\ DeadlineInv /\ [Next]_vars => DeadlineInv'
  <2>1. CASE UNCHANGED vars
    BY <2>1 DEF vars, DeadlineInv
  <2> QED BY <2>1, DeadlineStep
<1>3. TypeOK /\ DeadlineInv => ReturnsByDeadline
  BY DEF TypeOK, DeadlineInv, ReturnsByDeadline, Call
<1> QED BY <1>1, <1>2, <1>3, TypeCorrect, PTL DEF Spec

LEMMA BudgetStep ==
  ASSUME TypeOK, DeadlineInv, BudgetInv, Next, \A k \in Kinds : Patience[k] = "attempt"
  PROVE  BudgetInv'
<1>0. /\ SendType /\ now \in Nat
      /\ Cardinality(Kinds) \in Nat
      /\ \A C \in SUBSET Kinds : /\ Cardinality(C) \in 0..Cardinality(Kinds)
                                 /\ C # {} => Cardinality(C) >= 1
  BY RouterParameters, FS_Subset, FS_CardinalityType, FS_EmptySet DEF TypeOK, SendType
<1>1. ASSUME NEW s \in Senders, NEW c \in Call, NEW b, NEW F, NEW C \in SUBSET Kinds,
             Loop(s, c, b, F, C), UNCHANGED now, C # {},
             c.budget >= Cardinality(Kinds) => now + Cardinality(C) <= c.deadline
      PROVE  BudgetInv'
  <2>1. c.budget >= Cardinality(Kinds) => now < c.deadline
    BY <1>0, <1>1 DEF Call
  <2> QED BY <1>0, <1>1, <2>1, LoopBudget DEF BudgetInv, Call
<1>2. ASSUME NEW s \in Senders, NEW c \in Call, NEW status, NEW left,
             Return(s, c, status, left),
             c.budget >= Cardinality(Kinds) => status \in Final \/ left = {}
      PROVE  BudgetInv'
  BY <1>0, <1>2, ReturnPhase DEF BudgetInv
<1>3. CASE Tick
  BY <1>3 DEF Tick, BudgetInv
<1>4. ASSUME NEW s \in Senders, NEW budget \in Budgets, NEW addr \in SUBSET Kinds,
             Send(s, budget, addr)
      PROVE  BudgetInv'
  <2>1. PICK c \in Call, C \in SUBSET Kinds :
          /\ \/ Return(s, c, "error", {})
             \/ C # {} /\ \E b : Loop(s, c, b, {}, C)
          /\ c.deadline = now + c.budget
          /\ UNCHANGED now
    BY <1>0, <1>4, SendCall
  <2>2. c.budget >= Cardinality(Kinds) => now + Cardinality(C) <= c.deadline
    BY <1>0, <2>1 DEF Call
  <2> QED BY <1>1, <1>2, <2>1, <2>2
<1>5. ASSUME NEW s \in Senders, NEW status \in Answer, SettleFinal(s, status)
      PROVE  BudgetInv'
  BY <1>0, <1>2, <1>5 DEF SettleFinal, SendType
<1>6. ASSUME NEW s \in Senders, NEW status \in Answer, SettleFailed(s, status)
      PROVE  BudgetInv'
  <2> DEFINE c == [send[s] EXCEPT !.last = status]
  <2>1. /\ c \in Call /\ c.left \in SUBSET Kinds /\ c.left = send[s].left
        /\ c.budget = send[s].budget /\ c.deadline = send[s].deadline
    BY <1>0 DEF SendType, Call
  <2>2. IF c.left # {} /\ now < c.deadline
          THEN Loop(s, c, breaker, {c.at}, c.left)
          ELSE Return(s, c, status, c.left)
    BY <1>6 DEF SettleFailed
  <2>3. UNCHANGED now /\ send[s].phase = "awaiting" /\ send[s].at \in Kinds
    BY <1>0, <1>6 DEF SettleFailed, SendType
  <2>4. c.budget >= Cardinality(Kinds) =>
          /\ now + Cardinality(c.left) <= c.deadline
          /\ c.left # {} => now < c.deadline
    <3>1. send[s].settleBy \in Nat /\ send[s].deadline \in Nat
      BY <1>0 DEF SendType, Call
    <3>2. now <= send[s].settleBy
      BY <2>3 DEF DeadlineInv
    <3>3. Cardinality(c.left) \in Nat /\ (c.left # {} => Cardinality(c.left) >= 1)
      BY <1>0, <2>1
    <3>4. c.budget >= Cardinality(Kinds) => send[s].settleBy + Cardinality(c.left) <= c.deadline
      BY <2>1, <2>3 DEF BudgetInv
    <3> QED BY <1>0, <2>1, <3>1, <3>2, <3>3, <3>4
  <2> HIDE DEF c
  <2>5. CASE c.left # {} /\ now < c.deadline
    BY <1>1, <2>1, <2>2, <2>3, <2>4, <2>5
  <2>6. CASE ~ (c.left # {} /\ now < c.deadline)
    BY <1>2, <2>1, <2>2, <2>4, <2>6
  <2> QED BY <2>5, <2>6
<1> QED BY <1>3, <1>4, <1>5, <1>6 DEF Next

(* README.md:32: with transports that honour timeoutMs, a request that has *)
(* a tick for every transport fails only after all its candidates failed.  *)
THEOREM AllCandidatesTried ==
  ASSUME \A k \in Kinds : Patience[k] = "attempt"
  PROVE  Spec => []EveryCandidateTried
<1>1. Init => DeadlineInv /\ BudgetInv
  BY DEF Init, DeadlineInv, BudgetInv, NoCall
<1>2. TypeOK /\ DeadlineInv /\ BudgetInv /\ [Next]_vars => DeadlineInv' /\ BudgetInv'
  <2>1. CASE UNCHANGED vars
    BY <2>1 DEF vars, DeadlineInv, BudgetInv
  <2> QED BY <2>1, DeadlineStep, BudgetStep
<1>3. BudgetInv => EveryCandidateTried
  BY DEF BudgetInv, EveryCandidateTried
<1> QED BY <1>1, <1>2, <1>3, TypeCorrect, PTL DEF Spec

(* MeshRouter.send: under transports that honour timeoutMs, everything the *)
(* run checks of a send holds together: its types, its return by the       *)
(* deadline, and that it tries every candidate before it fails.            *)
THEOREM SendsKeepBudget ==
  ASSUME \A k \in Kinds : Patience[k] = "attempt"
  PROVE  Spec => []SendsKeepTheirBudget
<1>1. TypeOK /\ ReturnsByDeadline /\ EveryCandidateTried => SendsKeepTheirBudget
  BY DEF SendsKeepTheirBudget
<1> QED BY <1>1, TypeCorrect, SendsReturnByDeadline, AllCandidatesTried, PTL

(* CircuitBreaker.transition: a breaker opens only after a full streak and *)
(* lets a probe through only a cooldown after it opened.                   *)
THEOREM BreakerTurnsInOrder == Spec => BreakerTurns
BY OpensOnlyAfterStreak, ProbesSpaced DEF BreakerTurns

LEMMA FailoverStep ==
  ASSUME TypeOK, Next, NEW s \in Senders,
         send[s].phase = "awaiting", send'[s].phase = "done", send'[s].last \notin Final
  PROVE  send'[s].left = {} \/ now >= send[s].deadline
<1>0. SendType /\ now \in Nat
  BY DEF TypeOK, SendType
<1>1. CASE Tick
  BY <1>1 DEF Tick
<1>2. ASSUME NEW r \in Senders, NEW budget \in Budgets, NEW addr \in SUBSET Kinds, Send(r, budget, addr)
      PROVE  FALSE
  <2>1. PICK c \in Call, C \in SUBSET Kinds : Return(r, c, "error", {}) \/ \E b : Loop(r, c, b, {}, C)
    BY <1>0, <1>2, SendCall
  <2>2. r # s
    BY <1>2 DEF Send
  <2>3. send'[s] = send[s]
    BY <1>0, <2>1, <2>2, ReturnPhase, LoopBudget
  <2> QED BY <2>3
<1>3. ASSUME NEW r \in Senders, NEW status \in Answer, SettleFinal(r, status)
      PROVE  FALSE
  <2>1. send[r] \in Call /\ Return(r, send[r], status, send[r].left) /\ status \in Final
    BY <1>0, <1>3 DEF SettleFinal, SendType
  <2>2. r = s => send'[s].last \in Final
    BY <1>0, <2>1, ReturnPhase
  <2>3. r # s => send'[s] = send[s]
    BY <1>0, <2>1, ReturnPhase
  <2> QED BY <2>2, <2>3
<1>4. ASSUME NEW r \in Senders, NEW status \in Answer, SettleFailed(r, status)
      PROVE  send'[s].left = {} \/ now >= send[s].deadline
  <2> DEFINE c == [send[r] EXCEPT !.last = status]
  <2>1. c \in Call /\ c.left \in SUBSET Kinds /\ c.deadline = send[r].deadline
    BY <1>0 DEF SendType, Call
  <2>2. \/ Loop(r, c, breaker, {c.at}, c.left)
        \/ Return(r, c, status, c.left) /\ (c.left = {} \/ ~ (now < c.deadline))
    BY <1>4 DEF SettleFailed
  <2>3. c.deadline \in Nat
    BY <2>1 DEF Call
  <2> HIDE DEF c
  <2>4. r = s => send'[s].left = {} \/ now >= c.deadline
    BY <1>0, <2>1, <2>2, <2>3, ReturnPhase, LoopBudget
  <2>5. r # s => send'[s] = send[s]
    BY <1>0, <2>1, <2>2, ReturnPhase, LoopBudget
  <2> QED BY <2>1, <2>4, <2>5
<1> QED BY <1>1, <1>2, <1>3, <1>4 DEF Next

(* MeshRouter.send: a call that fails before its deadline has no candidate *)
(* left that it never tried.                                               *)
THEOREM FailoversExhaust == Spec => FailoverExhausts
<1>1. TypeOK /\ [Next]_vars =>
        [\A s \in Senders :
           (send[s].phase = "awaiting" /\ send'[s].phase = "done" /\ send'[s].last \notin Final)
             => send'[s].left = {} \/ now >= send[s].deadline]_vars
  BY FailoverStep
<1> QED BY <1>1, TypeCorrect, PTL DEF Spec, FailoverExhausts
-----------------------------------------------------------------------------
(* Capability tokens: what a pattern grants, read as the text of another   *)
(* pattern, grants what that one grants.                                   *)

LEMMA MatchesCompose ==
  ASSUME NEW p \in Seq(Letters), NEW q \in Seq(Letters), NEW s \in Seq(Letters),
         TextMatches(p, q), TextMatches(q, s)
  PROVE  TextMatches(p, s)
<1>0. Len(p) \in Nat /\ Len(q) \in Nat /\ Len(s) \in Nat
  BY LenProperties
<1>1. PICK a \in [0 .. Len(p) -> 0 .. Len(q)] :
        /\ a[0] = 0 /\ a[Len(p)] = Len(q)
        /\ \A i, j \in 0 .. Len(p) : i <= j => a[i] <= a[j]
        /\ \A i \in 1 .. Len(p) : p[i] # "*" => a[i] = a[i - 1] + 1 /\ q[a[i]] = p[i]
  BY DEF TextMatches
<1>2. PICK b \in [0 .. Len(q) -> 0 .. Len(s)] :
        /\ b[0] = 0 /\ b[Len(q)] = Len(s)
        /\ \A i, j \in 0 .. Len(q) : i <= j => b[i] <= b[j]
        /\ \A i \in 1 .. Len(q) : q[i] # "*" => b[i] = b[i - 1] + 1 /\ s[b[i]] = q[i]
  BY DEF TextMatches
<1> DEFINE cut == [i \in 0 .. Len(p) |-> b[a[i]]]
<1>3. cut \in [0 .. Len(p) -> 0 .. Len(s)]
  OBVIOUS
<1>4. cut[0] = 0 /\ cut[Len(p)] = Len(s)
  BY <1>0, <1>1, <1>2
<1>5. ASSUME NEW i \in 0 .. Len(p), NEW j \in 0 .. Len(p), i <= j
      PROVE  cut[i] <= cut[j]
  <2>1. a[i] \in 0 .. Len(q) /\ a[j] \in 0 .. Len(q) /\ a[i] <= a[j]
    BY <1>1, <1>5
  <2> QED BY <1>2, <2>1
<1>6. ASSUME NEW i \in 1 .. Len(p), p[i] # "*"
      PROVE  cut[i] = cut[i - 1] + 1 /\ s[cut[i]] = p[i]
  <2>1. i - 1 \in 0 .. Len(p) /\ i \in 0 .. Len(p)
    BY <1>0
  <2>2. a[i] = a[i - 1] + 1 /\ q[a[i]] = p[i]
    BY <1>1, <1>6
  <2>3. a[i - 1] \in 0 .. Len(q) /\ a[i] \in 0 .. Len(q)
    BY <2>1
  <2>4. a[i] \in 1 .. Len(q) /\ a[i] - 1 = a[i - 1]
    BY <1>0, <2>2, <2>3
  <2>5. b[a[i]] = b[a[i] - 1] + 1 /\ s[b[a[i]]] = q[a[i]]
    BY <1>2, <1>6, <2>2, <2>4
  <2> QED BY <2>1, <2>2, <2>4, <2>5
<1> HIDE DEF cut
<1> QED BY <1>3, <1>4, <1>5, <1>6 DEF TextMatches

LEMMA StarMatches ==
  ASSUME NEW s \in Seq(Letters)
  PROVE  TextMatches(<<"*">>, s)
<1>0. Len(s) \in Nat /\ Len(<<"*">>) = 1 /\ <<"*">>[1] = "*"
  BY LenProperties
<1> DEFINE cut == [i \in 0 .. 1 |-> IF i = 0 THEN 0 ELSE Len(s)]
<1>1. cut \in [0 .. 1 -> 0 .. Len(s)] /\ cut[0] = 0 /\ cut[1] = Len(s)
  BY <1>0
<1>2. \A i, j \in 0 .. 1 : i <= j => cut[i] <= cut[j]
  BY <1>0
<1>3. \A i \in 1 .. 1 : <<"*">>[i] = "*"
  BY <1>0
<1> HIDE DEF cut
<1> QED BY <1>0, <1>1, <1>2, <1>3 DEF TextMatches

(* Requests that name a scope.                                             *)
Scoped == {r \in Capability : r.scope # << >>}

LEMMA MatchesTransitive ==
  ASSUME NEW g \in Capability, NEW c \in Capability, NEW r \in Scoped,
         MatchesCapability(g, c), MatchesCapability(c, r)
  PROVE  MatchesCapability(g, r)
<1>1. /\ g.scope \in Seq(Letters) /\ c.scope \in Seq(Letters) /\ r.scope \in Seq(Letters) /\ r.scope # << >>
  BY DEF Capability, Scoped
<1>2. g.action = r.action /\ g.resource \in {"*", r.resource}
  BY DEF MatchesCapability
<1>3. g.scope = << >> \/ TextMatches(g.scope, r.scope)
  <2>1. CASE g.scope = << >>
    BY <2>1
  <2>2. CASE g.scope # << >> /\ c.scope = << >>
    <3>1. g.scope = <<"*">>
      BY <2>2 DEF MatchesCapability
    <3> QED BY <1>1, <3>1, StarMatches
  <2>3. CASE g.scope # << >> /\ c.scope # << >>
    <3>1. TextMatches(g.scope, c.scope) /\ TextMatches(c.scope, r.scope)
      BY <1>1, <2>3 DEF MatchesCapability
    <3> QED BY <1>1, <3>1, MatchesCompose
  <2> QED BY <2>1, <2>2, <2>3
<1> QED BY <1>1, <1>2, <1>3 DEF MatchesCapability

LEMMA GrantsTransitive ==
  ASSUME NEW P \in SUBSET Capability, NEW C \in SUBSET Capability, NEW r \in Scoped,
         \A c \in C : Grants(P, c), Grants(C, r)
  PROVE  Grants(P, r)
<1>1. PICK c \in C : MatchesCapability(c, r)
  BY DEF Grants
<1>2. PICK g \in P : MatchesCapability(g, c)
  BY DEF Grants
<1> QED BY <1>1, <1>2, MatchesTransitive DEF Grants

LEMMA GrantsAnyScope ==
  ASSUME NEW C \in SUBSET Capability, NEW r \in Capability, r.scope = << >>, Grants(C, r)
  PROVE  AnyScope(r) \in Scoped /\ Grants(C, AnyScope(r))
<1>2. <<"*">> # << >> /\ <<"*">> \in Seq(Letters)
  <2>1. Len(<<"*">>) = 1 /\ Len(<< >>) = 0
    OBVIOUS
  <2>2. <<"*">> # << >>
    BY <2>1
  <2>3. "*" \in Letters
    BY GlobParameters
  <2>4. <<"*">> \in Seq(Letters)
    BY <2>3
  <2> QED BY <2>2, <2>4
<1>1. /\ AnyScope(r) \in Capability /\ AnyScope(r).action = r.action
      /\ AnyScope(r).resource = r.resource /\ AnyScope(r).scope = <<"*">>
  BY <1>2 DEF AnyScope, Capability
<1>3. PICK c \in C : MatchesCapability(c, r)
  BY DEF Grants
<1>4. c.scope = << >> \/ c.scope = <<"*">>
  BY <1>3 DEF MatchesCapability
<1>5. MatchesCapability(c, AnyScope(r))
  BY <1>1, <1>2, <1>3, <1>4, StarMatches DEF MatchesCapability
<1> QED BY <1>1, <1>2, <1>3, <1>5 DEF Grants, Scoped

Delegation == [root : TokenType, token : TokenType, length : Nat]

(* A chain adds nothing to its first token, for any request with a scope.  *)
ChainShrinks(l) ==
  /\ l.token.exp <= l.root.exp
  /\ l.length + l.token.depth <= l.root.depth
  /\ \A r \in Scoped : Grants(l.token.caps, r) => Grants(l.root.caps, r)

TokensTyped ==
  /\ TokenTypeOK
  /\ check \in [Verifications -> [phase : {"idle", "key", "revocation", "accepted", "refused"},
                                  token : TokenType \union {NoToken}, before : SUBSET TokenType, at : Nat]]
  /\ \A v \in Verifications : check[v].phase # "idle" => check[v].token \in tokens
  /\ lineage \subseteq Delegation

(* A verification that asks for the revocations was in its window.         *)
InWindow ==
  \A v \in Verifications : check[v].phase \in {"revocation", "accepted"} =>
    /\ check[v].at <= check[v].token.exp + Skew
    /\ check[v].at + Skew >= check[v].token.nbf

NotRevoked ==
  \A v \in Verifications : check[v].phase = "accepted" => check[v].token \notin check[v].before

TokenInv == TokensTyped /\ InWindow /\ NotRevoked /\ \A l \in lineage : ChainShrinks(l)
-----------------------------------------------------------------------------
LEMMA TokenParts ==
  ASSUME NEW t \in TokenType
  PROVE  /\ t.exp \in Nat /\ t.nbf \in Nat /\ t.depth \in Nat /\ t.sub \in TokenScopes
         /\ t.caps \in RootCaps /\ t.caps \in SUBSET Capability
BY TokenParameters DEF TokenType

LEMMA NewTokens ==
  ASSUME TokenTypeOK, NEW iss \in TokenScopes, NEW sub \in TokenScopes, NEW caps \in RootCaps,
         NEW ttl \in Nat, NEW depth \in Nat
  PROVE  /\ TokenOf(iss, sub, caps, ttl, depth) \in TokenType
         /\ TokenOf(iss, sub, caps, ttl, depth).exp = tokenTime + ttl
         /\ TokenOf(iss, sub, caps, ttl, depth).depth = depth
         /\ TokenOf(iss, sub, caps, ttl, depth).caps = caps
BY DEF TokenOf, TokenType, TokenTypeOK

(* Tokens and delegations are added, nothing else is touched.              *)
LEMMA GrowthKeeps ==
  ASSUME TokenInv, NEW t \in TokenType, NEW L \in SUBSET Delegation,
         \A l \in L : l.root \in tokens \union {t} /\ l.token = t /\ ChainShrinks(l),
         tokens' = tokens \union {t}, lineage' = lineage \union L,
         UNCHANGED <<tokenTime, revocations, check>>
  PROVE  TokenInv'
<1>1. TokenTypeOK'
  <2>1. \A l \in lineage' : {l.root, l.token} \subseteq tokens'
    BY DEF TokenInv, TokensTyped, TokenTypeOK
  <2>2. tokens' \subseteq TokenType /\ revocations' \subseteq tokens' /\ tokenTime' \in Nat
    BY DEF TokenInv, TokensTyped, TokenTypeOK
  <2>3. ASSUME NEW v \in Verifications
        PROVE  /\ check'[v].phase \in {"idle", "key", "revocation", "accepted", "refused"}
               /\ check'[v].token \in tokens' \union {NoToken}
               /\ check'[v].before \subseteq revocations'
    BY DEF TokenInv, TokensTyped, TokenTypeOK
  <2> QED BY <2>1, <2>2, <2>3 DEF TokenTypeOK
<1>2. TokensTyped'
  BY <1>1 DEF TokenInv, TokensTyped
<1>3. InWindow' /\ NotRevoked'
  BY DEF TokenInv, InWindow, NotRevoked
<1>4. \A l \in lineage' : ChainShrinks(l)
  BY DEF TokenInv
<1>5. \A l : ChainShrinks(l)' <=> ChainShrinks(l)
  BY DEF ChainShrinks
<1> QED BY <1>2, <1>3, <1>4, <1>5 DEF TokenInv

LEMMA IssueKeeps ==
  ASSUME TokenInv, NEW iss \in TokenScopes, NEW sub \in TokenScopes, NEW caps \in RootCaps,
         NEW ttl \in Ttls, NEW depth \in Depths, IssueToken(iss, sub, caps, ttl, depth)
  PROVE  TokenInv'
<1> DEFINE t == TokenOf(iss, sub, caps, ttl, depth)
<1> DEFINE l == [root |-> t, token |-> t, length |-> 0]
<1>1. ttl \in Nat /\ depth \in Nat
  BY TokenParameters
<1>2. t \in TokenType
  BY <1>1, NewTokens DEF TokenInv, TokensTyped
<1>3. tokens' = tokens \union {t} /\ lineage' = lineage \union {l} /\ UNCHANGED <<tokenTime, revocations, check>>
  BY DEF IssueToken
<1> HIDE DEF t
<1>4. l \in Delegation /\ l.root = t /\ l.token = t /\ l.length = 0
  BY <1>2 DEF Delegation
<1> HIDE DEF l
<1>5. ChainShrinks(l)
  BY <1>2, <1>4, TokenParts DEF ChainShrinks
<1>6. {l} \in SUBSET Delegation /\ \A x \in {l} : x.root \in tokens \union {t} /\ x.token = t /\ ChainShrinks(x)
  BY <1>4, <1>5
<1> QED BY <1>2, <1>3, <1>6, GrowthKeeps

LEMMA DelegateKeeps ==
  ASSUME TokenInv, NEW p \in tokens, NEW sub \in TokenScopes, NEW caps \in RootCaps,
         NEW ttl \in Ttls, DelegateToken(p, sub, caps, ttl)
  PROVE  TokenInv'
<1> DEFINE capped == CappedTtl(ttl, p.exp)
<1> DEFINE t == TokenOf(p.sub, sub, caps, capped, p.depth - 1)
<1> DEFINE L == {[root |-> l.root, token |-> t, length |-> l.length + 1] : l \in {m \in lineage : m.token = p}}
<1>0. TokenTypeOK /\ tokenTime \in Nat /\ lineage \subseteq Delegation
  BY DEF TokenInv, TokensTyped, TokenTypeOK
<1>1. p \in TokenType /\ p.depth \in Nat /\ p.exp \in Nat /\ p.sub \in TokenScopes /\ p.caps \in SUBSET Capability
  BY <1>0, TokenParts DEF TokenTypeOK
<1>2. ttl \in Nat /\ caps \in SUBSET Capability
  BY TokenParameters
<1>3. /\ p.depth > 0 /\ capped > 0 /\ \A c \in caps : Grants(p.caps, c)
      /\ tokens' = tokens \union {t} /\ lineage' = lineage \union L
      /\ UNCHANGED <<tokenTime, revocations, check>>
  BY DEF DelegateToken, CanDelegate
<1>4. capped \in Nat /\ tokenTime + capped <= p.exp /\ p.depth - 1 \in Nat
  <2>1. CASE ttl <= p.exp - tokenTime
    <3>1. capped = ttl
      BY <2>1 DEF CappedTtl
    <3> QED BY <1>0, <1>1, <1>2, <1>3, <2>1, <3>1
  <2>2. CASE ~ (ttl <= p.exp - tokenTime)
    <3>1. capped = p.exp - tokenTime
      BY <2>2 DEF CappedTtl
    <3> QED BY <1>0, <1>1, <1>2, <1>3, <3>1
  <2> QED BY <2>1, <2>2
<1> HIDE DEF capped
<1>5. t \in TokenType /\ t.exp = tokenTime + capped /\ t.depth = p.depth - 1 /\ t.caps = caps
  <2> DEFINE d == p.depth - 1
  <2>1. d \in Nat
    BY <1>4
  <2> HIDE DEF d
  <2>2. /\ TokenOf(p.sub, sub, caps, capped, d) \in TokenType
        /\ TokenOf(p.sub, sub, caps, capped, d).exp = tokenTime + capped
        /\ TokenOf(p.sub, sub, caps, capped, d).depth = d
        /\ TokenOf(p.sub, sub, caps, capped, d).caps = caps
    <3>1. \A i, s \in TokenScopes, C \in RootCaps, n, k \in Nat :
            /\ TokenOf(i, s, C, n, k) \in TokenType
            /\ TokenOf(i, s, C, n, k).exp = tokenTime + n
            /\ TokenOf(i, s, C, n, k).depth = k
            /\ TokenOf(i, s, C, n, k).caps = C
      BY <1>0, NewTokens
    <3> QED BY <1>1, <1>4, <2>1, <3>1
  <2> QED BY <2>2 DEF d
<1> HIDE DEF t
<1>6. ASSUME NEW x \in L
      PROVE  x \in Delegation /\ x.root \in tokens /\ x.token = t /\ ChainShrinks(x)
  <2>1. PICK l \in lineage : l.token = p /\ x = [root |-> l.root, token |-> t, length |-> l.length + 1]
    OBVIOUS
  <2>2. l \in Delegation /\ ChainShrinks(l) /\ l.root \in tokens
    BY <1>0 DEF TokenInv, TokenTypeOK
  <2>3. l.root \in TokenType /\ l.length \in Nat /\ l.token = p
    BY <2>1, <2>2 DEF Delegation
  <2>4. x \in Delegation /\ x.root = l.root /\ x.token = t /\ x.length = l.length + 1
    BY <1>5, <2>1, <2>3 DEF Delegation
  <2>5. l.root.exp \in Nat /\ l.root.depth \in Nat
    BY <2>3, TokenParts
  <2>6. p.exp <= l.root.exp /\ l.length + p.depth <= l.root.depth
        /\ \A r \in Scoped : Grants(p.caps, r) => Grants(l.root.caps, r)
    BY <2>2, <2>3 DEF ChainShrinks
  <2>7. t.exp <= l.root.exp /\ l.length + 1 + t.depth <= l.root.depth
    BY <1>0, <1>1, <1>4, <1>5, <2>3, <2>5, <2>6
  <2>8. \A r \in Scoped : Grants(t.caps, r) => Grants(l.root.caps, r)
    BY <1>1, <1>2, <1>3, <1>5, <2>6, GrantsTransitive
  <2> QED BY <2>2, <2>4, <2>7, <2>8 DEF ChainShrinks
<1> HIDE DEF L
<1> QED BY <1>3, <1>5, <1>6, GrowthKeeps

(* A verification goes on, or a token is revoked, or the clock does.       *)
LEMMA StillChains ==
  ASSUME TokenInv, UNCHANGED lineage
  PROVE  \A l \in lineage' : ChainShrinks(l)'
<1>1. \A l : ChainShrinks(l)' <=> ChainShrinks(l)
  BY DEF ChainShrinks
<1> QED BY <1>1 DEF TokenInv

LEMMA CheckKeeps ==
  ASSUME TokenInv, NEW v \in Verifications,
         NEW c \in [phase : {"key", "revocation", "accepted", "refused"},
                    token : tokens, before : SUBSET revocations, at : Nat],
         c.phase \in {"revocation", "accepted"} => c.at <= c.token.exp + Skew /\ c.at + Skew >= c.token.nbf,
         c.phase = "accepted" => c.token \notin c.before,
         check' = [check EXCEPT ![v] = c], UNCHANGED <<tokenTime, tokens, revocations, lineage>>
  PROVE  TokenInv'
<1>1. TokensTyped /\ TokenTypeOK
  BY DEF TokenInv, TokensTyped
<1>2. ASSUME NEW w \in Verifications PROVE check'[w] = c \/ check'[w] = check[w]
  BY <1>1 DEF TokensTyped
<1>3. tokens \subseteq TokenType /\ revocations \subseteq tokens
  BY <1>1 DEF TokenTypeOK
<1>4. check' \in [Verifications -> [phase : {"idle", "key", "revocation", "accepted", "refused"},
                                    token : TokenType \union {NoToken}, before : SUBSET TokenType, at : Nat]]
  <2>1. c \in [phase : {"idle", "key", "revocation", "accepted", "refused"},
               token : TokenType \union {NoToken}, before : SUBSET TokenType, at : Nat]
    BY <1>3
  <2> QED BY <1>1, <2>1 DEF TokensTyped
<1>5. TokenTypeOK'
  <2>1. ASSUME NEW w \in Verifications
        PROVE  /\ check'[w].phase \in {"idle", "key", "revocation", "accepted", "refused"}
               /\ check'[w].token \in tokens' \union {NoToken}
               /\ check'[w].before \subseteq revocations'
    BY <1>1, <1>2 DEF TokenTypeOK
  <2> QED BY <1>1, <2>1 DEF TokenTypeOK
<1>6. TokensTyped'
  <2>1. ASSUME NEW w \in Verifications, check'[w].phase # "idle" PROVE check'[w].token \in tokens'
    BY <1>1, <1>2, <2>1 DEF TokensTyped
  <2> QED BY <1>1, <1>4, <1>5, <2>1 DEF TokensTyped
<1>7. InWindow'
  BY <1>2 DEF TokenInv, InWindow
<1>8. NotRevoked'
  BY <1>2 DEF TokenInv, NotRevoked
<1> QED BY <1>6, <1>7, <1>8, StillChains DEF TokenInv

LEMMA TokenKept == TokenInv /\ [TokenNext]_tokenVars => TokenInv'
<1> SUFFICES ASSUME TokenInv, [TokenNext]_tokenVars PROVE TokenInv'
  OBVIOUS
<1>0. TokensTyped /\ TokenTypeOK /\ tokenTime \in Nat /\ Skew \in Nat
  BY TokenParameters DEF TokenInv, TokensTyped, TokenTypeOK
<1>1. ASSUME NEW v \in Verifications, check[v].phase # "idle"
      PROVE  /\ check[v] \in [phase : {"idle", "key", "revocation", "accepted", "refused"},
                              token : TokenType \union {NoToken}, before : SUBSET TokenType, at : Nat]
             /\ check[v].token \in tokens /\ check[v].before \in SUBSET revocations
             /\ check[v].token \in TokenType
  BY <1>0, <1>1 DEF TokensTyped, TokenTypeOK
<1>2. ASSUME NEW t \in tokens, Revoke(t) PROVE TokenInv'
  <2>1. revocations' = revocations \union {t} /\ UNCHANGED <<tokenTime, tokens, check, lineage>>
    BY <1>2 DEF Revoke
  <2>2. TokensTyped'
    BY <1>0, <2>1 DEF TokensTyped, TokenTypeOK
  <2>3. InWindow' /\ NotRevoked'
    BY <2>1 DEF TokenInv, InWindow, NotRevoked
  <2> QED BY <2>1, <2>2, <2>3, StillChains DEF TokenInv
<1>3. ASSUME NEW v \in Verifications, NEW t \in tokens, VerifyToken(v, t) PROVE TokenInv'
  <2> DEFINE c == [phase |-> "key", token |-> t, before |-> revocations, at |-> tokenTime]
  <2>1. c \in [phase : {"key", "revocation", "accepted", "refused"},
               token : tokens, before : SUBSET revocations, at : Nat] /\ c.phase = "key"
    BY <1>0
  <2>2. check' = [check EXCEPT ![v] = c] /\ UNCHANGED <<tokenTime, tokens, revocations, lineage>>
    BY <1>3 DEF VerifyToken
  <2> HIDE DEF c
  <2> QED BY <2>1, <2>2, CheckKeeps
<1>4. ASSUME NEW v \in Verifications, NEW phase \in {"revocation", "refused"}, check[v].phase = "key",
             phase = "revocation" => WithinWindow(check[v].token), Step(v, phase),
             UNCHANGED <<tokenTime, tokens, revocations, lineage>>
      PROVE  TokenInv'
  <2> DEFINE c == [phase |-> phase, token |-> check[v].token, before |-> check[v].before, at |-> tokenTime]
  <2>1. check' = [check EXCEPT ![v] = c]
    BY <1>0, <1>4 DEF Step, TokensTyped
  <2>2. c \in [phase : {"key", "revocation", "accepted", "refused"},
               token : tokens, before : SUBSET revocations, at : Nat]
    BY <1>0, <1>1, <1>4
  <2>3. c.phase = phase /\ c.token = check[v].token /\ c.at = tokenTime
    OBVIOUS
  <2>4. check[v].token \in TokenType /\ check[v].token.exp \in Nat /\ check[v].token.nbf \in Nat
    BY <1>1, <1>4, TokenParts
  <2> HIDE DEF c
  <2>5. c.phase \in {"revocation", "accepted"} => c.at <= c.token.exp + Skew /\ c.at + Skew >= c.token.nbf
    BY <1>0, <1>4, <2>3, <2>4 DEF WithinWindow
  <2>6. c.phase # "accepted"
    BY <2>3
  <2> QED BY <1>4, <2>1, <2>2, <2>5, <2>6, CheckKeeps
<1>5. ASSUME NEW v \in Verifications, KeyFound(v) PROVE TokenInv'
  BY <1>4, <1>5 DEF KeyFound
<1>6. ASSUME NEW v \in Verifications, KeyRefused(v) PROVE TokenInv'
  BY <1>4, <1>6 DEF KeyRefused
<1>7. ASSUME NEW v \in Verifications, NEW r \in Required, RevocationAnswered(v, r) PROVE TokenInv'
  <2> DEFINE phase == IF check[v].token \notin revocations /\ Grants(check[v].token.caps, r)
                      THEN "accepted" ELSE "refused"
  <2> DEFINE c == [phase |-> phase, token |-> check[v].token, before |-> check[v].before, at |-> check[v].at]
  <2>1. check[v].phase = "revocation" /\ UNCHANGED <<tokenTime, tokens, revocations, lineage>>
        /\ check' = [check EXCEPT ![v].phase = phase]
    BY <1>7 DEF RevocationAnswered
  <2>2. phase \in {"accepted", "refused"} /\ (phase = "accepted" => check[v].token \notin revocations)
    OBVIOUS
  <2> HIDE DEF phase
  <2>3. check' = [check EXCEPT ![v] = c]
    <3>1. [check[v] EXCEPT !.phase = phase] = c
      BY <1>1, <2>1
    <3> QED BY <1>0, <2>1, <3>1 DEF TokensTyped
  <2>4. c \in [phase : {"key", "revocation", "accepted", "refused"},
               token : tokens, before : SUBSET revocations, at : Nat]
    BY <1>0, <1>1, <2>1, <2>2
  <2>5. c.phase = phase /\ c.token = check[v].token /\ c.at = check[v].at /\ c.before = check[v].before
    OBVIOUS
  <2> HIDE DEF c
  <2>6. c.at <= c.token.exp + Skew /\ c.at + Skew >= c.token.nbf
    BY <2>1, <2>5 DEF TokenInv, InWindow
  <2>7. c.phase = "accepted" => c.token \notin c.before
    BY <1>1, <2>1, <2>2, <2>5
  <2> QED BY <2>1, <2>3, <2>4, <2>6, <2>7, CheckKeeps
<1>8. CASE TokenTick
  <2>1. tokenTime' = tokenTime + 1 /\ UNCHANGED <<tokens, revocations, check, lineage>>
    BY <1>8 DEF TokenTick
  <2>2. TokensTyped'
    BY <1>0, <2>1 DEF TokensTyped, TokenTypeOK
  <2>3. InWindow' /\ NotRevoked'
    BY <2>1 DEF TokenInv, InWindow, NotRevoked
  <2> QED BY <2>1, <2>2, <2>3, StillChains DEF TokenInv
<1>9. CASE UNCHANGED tokenVars
  <2>1. TokensTyped'
    BY <1>0, <1>9 DEF TokensTyped, TokenTypeOK, tokenVars
  <2>2. InWindow' /\ NotRevoked'
    BY <1>9 DEF TokenInv, InWindow, NotRevoked, tokenVars
  <2> QED BY <1>9, <2>1, <2>2, StillChains DEF TokenInv, tokenVars
<1> QED BY <1>2, <1>3, <1>5, <1>6, <1>7, <1>8, <1>9, IssueKeeps, DelegateKeeps DEF TokenNext

(* issueToken, delegateToken, TokenVerifier.verify: for any scopes,        *)
(* capabilities, times and depths, no chain of delegations adds to what    *)
(* its first token grants, and what is accepted was current and had not    *)
(* been revoked when its verification began.                               *)
THEOREM AuthorityIsHeld == TokenSpec => []AuthorityHolds
<1>1. TokenInit => TokenInv
  <2> SUFFICES ASSUME TokenInit PROVE TokenInv
    OBVIOUS
  <2>1. \A v \in Verifications : check[v] = NoCheck
    BY DEF TokenInit
  <2>2. NoCheck \in [phase : {"idle", "key", "revocation", "accepted", "refused"},
                     token : TokenType \union {NoToken}, before : SUBSET TokenType, at : Nat]
        /\ NoCheck.phase = "idle" /\ NoCheck.token = NoToken /\ NoCheck.before = {}
    BY DEF NoCheck
  <2>3. TokenTypeOK
    BY <2>1, <2>2 DEF TokenInit, TokenTypeOK
  <2>4. TokensTyped
    BY <2>1, <2>2, <2>3 DEF TokenInit, TokensTyped
  <2>5. InWindow /\ NotRevoked
    BY <2>1, <2>2 DEF InWindow, NotRevoked
  <2> QED BY <2>4, <2>5 DEF TokenInit, TokenInv
<1>2. TokenInv => AuthorityHolds
  <2> SUFFICES ASSUME TokenInv PROVE AuthorityHolds
    OBVIOUS
  <2>1. TokenTypeOK /\ AcceptsOnlyCurrent
    BY DEF TokenInv, TokensTyped, InWindow, NotRevoked, AcceptsOnlyCurrent
  <2>2. ASSUME NEW l \in lineage, NEW r \in Required, Grants(l.token.caps, r)
        PROVE  \/ Grants(l.root.caps, r)
               \/ r.scope = << >> /\ Grants(l.root.caps, AnyScope(r))
    <3>1. r \in Capability /\ l.token \in TokenType /\ l.token.caps \in SUBSET Capability
      BY TokenParameters, TokenParts DEF TokenInv, TokensTyped, Delegation
    <3>2. \A x \in Scoped : Grants(l.token.caps, x) => Grants(l.root.caps, x)
      BY DEF TokenInv, ChainShrinks
    <3>3. CASE r.scope # << >>
      BY <2>2, <3>1, <3>2, <3>3 DEF Scoped
    <3>4. CASE r.scope = << >>
      BY <2>2, <3>1, <3>2, <3>4, GrantsAnyScope
    <3> QED BY <3>3, <3>4
  <2>3. AuthorityShrinks
    BY <2>2 DEF TokenInv, ChainShrinks, AuthorityShrinks
  <2> QED BY <2>1, <2>3 DEF AuthorityHolds
<1> QED BY <1>1, <1>2, TokenKept, PTL DEF TokenSpec
-----------------------------------------------------------------------------
(* Globs of methods.  The places that matchHelper computes from the end of *)
(* the glob are those from which on the rest of the method can be cut.     *)

PlacesFrom(p, m, i, next) ==
  IF i > Len(p) THEN {Len(m) + 1}
  ELSE IF p[i] = "**" THEN {j \in 1 .. Len(m) + 1 : i = Len(p) \/ \E k \in next : j <= k}
  ELSE {j \in 1 .. Len(m) : j + 1 \in next /\ (IF p[i] = "*" THEN m[j] # "" ELSE m[j] = p[i])}

Cuts(p, m, i, j, cut) ==
  /\ cut \in [i - 1 .. Len(p) -> 0 .. Len(m)]
  /\ cut[i - 1] = j - 1 /\ cut[Len(p)] = Len(m)
  /\ \A k \in i .. Len(p) :
       cut[k - 1] <= cut[k] /\ Piece(p[k], SubSeq(m, cut[k - 1] + 1, cut[k]))

Cuttable(p, m) ==
  [i \in 1 .. Len(p) + 1 |-> {j \in 1 .. Len(m) + 1 : \E cut : Cuts(p, m, i, j, cut)}]

(* Every set of natural numbers with a member has a least one.             *)
LEMMA LeastNatural ==
  ASSUME NEW T \in SUBSET Nat, T # {}
  PROVE  \E n \in T : \A m \in T : n <= m
<1> DEFINE R == {ss \in Nat \X Nat : ss[1] < ss[2]}
<1>1. IsWellFoundedOn(R, Nat)
  BY NatLessThanWellFounded, Zenon DEF OpToRel
<1>2. \A x, y \in Nat : <<x, y>> \in R <=> x < y
  OBVIOUS
<1> HIDE DEF R
<1>3. \E x \in T : \A y \in T : ~ (<<y, x>> \in R)
  BY <1>1, WFMin
<1>4. PICK x \in T : \A y \in T : ~ (<<y, x>> \in R)
  BY <1>3
<1>5. ASSUME NEW m \in T PROVE x <= m
  <2>1. ~ (<<m, x>> \in R) /\ m \in Nat /\ x \in Nat
    BY <1>4
  <2> QED BY <2>1, <1>2
<1> QED BY <1>5

LEMMA PieceMeans ==
  ASSUME NEW S, NEW m \in Seq(S), NEW a \in 0 .. Len(m), NEW b \in 0 .. Len(m), a <= b, NEW seg
  PROVE  /\ seg = "**" => Piece(seg, SubSeq(m, a + 1, b))
         /\ seg = "*" => (Piece(seg, SubSeq(m, a + 1, b)) <=> b = a + 1 /\ m[b] # "")
         /\ seg # "**" /\ seg # "*" => (Piece(seg, SubSeq(m, a + 1, b)) <=> b = a + 1 /\ m[b] = seg)
<1> DEFINE s == SubSeq(m, a + 1, b)
<1>1. Len(m) \in Nat /\ \A i \in 1 .. Len(m) : m[i] \in S
  BY LenProperties, ElementOfSeq
<1>2. \A i \in a + 1 .. b : m[i] \in S
  BY <1>1
<1>3. /\ s \in Seq(S) /\ Len(s) = IF a + 1 <= b THEN b - (a + 1) + 1 ELSE 0
      /\ \A i \in 1 .. b - (a + 1) + 1 : s[i] = m[a + 1 + i - 1]
  BY <1>1, <1>2, SubSeqProperties
<1> HIDE DEF s
<1>4. Len(s) = b - a
  <2>1. Len(s) = IF a + 1 <= b THEN b - (a + 1) + 1 ELSE 0
    BY <1>3
  <2>2. a \in Nat /\ b \in Nat /\ a <= b
    BY <1>1
  <2> QED BY ONLY <2>1, <2>2
<1>5. b = a + 1 => s[1] = m[b]
  <2> SUFFICES ASSUME b = a + 1 PROVE s[1] = m[b]
    OBVIOUS
  <2>1. 1 \in 1 .. b - (a + 1) + 1 /\ a + 1 + 1 - 1 = b
    BY <1>1
  <2>2. s[1] = m[a + 1 + 1 - 1]
    BY <1>3, <2>1
  <2> QED BY <2>1, <2>2
<1>6. Len(s) = 1 <=> b = a + 1
  BY <1>1, <1>4
<1>7. s = <<seg>> <=> Len(s) = 1 /\ s[1] = seg
  <2>1. ASSUME Len(s) = 1, s[1] = seg PROVE s = <<seg>>
    <3>1. <<seg>> \in Seq({seg}) /\ Len(<<seg>>) = 1 /\ <<seg>>[1] = seg
      OBVIOUS
    <3>2. \A i \in 1 .. Len(s) : s[i] = <<seg>>[i]
      BY <2>1, <3>1
    <3> QED BY <1>3, <2>1, <3>1, <3>2, SeqEqual
  <2>2. ASSUME s = <<seg>> PROVE Len(s) = 1 /\ s[1] = seg
    BY <2>2
  <2> QED BY <2>1, <2>2
<1>8. CASE seg = "**"
  BY <1>8 DEF Piece
<1>9. CASE seg = "*"
  <2>1. Piece(seg, s) <=> Len(s) = 1 /\ s[1] # ""
    BY <1>9 DEF Piece
  <2> QED BY <1>5, <1>6, <1>9, <2>1 DEF s
<1>10. CASE seg # "**" /\ seg # "*"
  <2>1. Piece(seg, s) <=> s = <<seg>>
    BY <1>10 DEF Piece
  <2> QED BY <1>5, <1>6, <1>7, <1>10, <2>1 DEF s
<1> QED BY <1>8, <1>9, <1>10

(* A cut from place i on is a piece and a cut from the place after it.     *)
LEMMA FirstPiece ==
  ASSUME NEW S, NEW p \in Seq(S), NEW T, NEW m \in Seq(T), NEW i \in 1 .. Len(p), NEW j \in 1 .. Len(m) + 1
  PROVE  j \in Cuttable(p, m)[i] <=>
           \E k \in Cuttable(p, m)[i + 1] : j <= k /\ Piece(p[i], SubSeq(m, j, k - 1))
<1>0. Len(p) \in Nat /\ Len(m) \in Nat
  BY LenProperties
<1>1. i \in 1 .. Len(p) + 1 /\ i + 1 \in 1 .. Len(p) + 1
  BY <1>0
<1>2. Cuttable(p, m)[i] = {x \in 1 .. Len(m) + 1 : \E cut : Cuts(p, m, i, x, cut)}
      /\ Cuttable(p, m)[i + 1] = {x \in 1 .. Len(m) + 1 : \E cut : Cuts(p, m, i + 1, x, cut)}
  BY <1>1 DEF Cuttable
<1>3. ASSUME NEW cut, Cuts(p, m, i, j, cut)
      PROVE  \E k \in Cuttable(p, m)[i + 1] : j <= k /\ Piece(p[i], SubSeq(m, j, k - 1))
  <2> DEFINE rest == [k \in i .. Len(p) |-> cut[k]]
  <2>1. /\ cut \in [i - 1 .. Len(p) -> 0 .. Len(m)]
        /\ cut[i - 1] = j - 1 /\ cut[Len(p)] = Len(m)
        /\ \A k \in i .. Len(p) : cut[k - 1] <= cut[k] /\ Piece(p[k], SubSeq(m, cut[k - 1] + 1, cut[k]))
    BY <1>3 DEF Cuts
  <2>2. i \in i - 1 .. Len(p) /\ i \in i .. Len(p) /\ i + 1 - 1 = i
    BY <1>0
  <2>3. cut[i] \in 0 .. Len(m) /\ cut[i - 1] <= cut[i] /\ Piece(p[i], SubSeq(m, cut[i - 1] + 1, cut[i]))
    BY <2>1, <2>2
  <2>4. rest \in [i .. Len(p) -> 0 .. Len(m)] /\ \A k \in i .. Len(p) : rest[k] = cut[k]
    BY <1>0, <2>1
  <2> HIDE DEF rest
  <2> DEFINE k == cut[i] + 1
  <2>5. k \in 1 .. Len(m) + 1 /\ k - 1 = cut[i] /\ j <= k /\ cut[i - 1] + 1 = j
    BY <1>0, <2>1, <2>3
  <2>6. Cuts(p, m, i + 1, k, rest)
    <3>1. rest \in [i + 1 - 1 .. Len(p) -> 0 .. Len(m)] /\ rest[i + 1 - 1] = k - 1 /\ rest[Len(p)] = Len(m)
      BY <1>0, <2>1, <2>2, <2>4, <2>5
    <3>2. ASSUME NEW x \in i + 1 .. Len(p)
          PROVE  rest[x - 1] <= rest[x] /\ Piece(p[x], SubSeq(m, rest[x - 1] + 1, rest[x]))
      <4>1. x \in i .. Len(p) /\ x - 1 \in i .. Len(p)
        BY <1>0
      <4> QED BY <2>1, <2>4, <4>1
    <3> QED BY <3>1, <3>2 DEF Cuts
  <2>7. k \in Cuttable(p, m)[i + 1]
    BY <1>2, <2>5, <2>6
  <2>8. Piece(p[i], SubSeq(m, j, k - 1))
    BY <2>3, <2>5
  <2> QED BY <2>5, <2>7, <2>8
<1>4. ASSUME NEW k \in Cuttable(p, m)[i + 1], j <= k, Piece(p[i], SubSeq(m, j, k - 1))
      PROVE  j \in Cuttable(p, m)[i]
  <2>1. k \in 1 .. Len(m) + 1 /\ \E rest : Cuts(p, m, i + 1, k, rest)
    BY <1>2
  <2>2. PICK rest : Cuts(p, m, i + 1, k, rest)
    BY <2>1
  <2>3. i + 1 - 1 = i
    BY <1>0
  <2>4. /\ rest \in [i .. Len(p) -> 0 .. Len(m)]
        /\ rest[i] = k - 1 /\ rest[Len(p)] = Len(m)
        /\ \A x \in i + 1 .. Len(p) : rest[x - 1] <= rest[x] /\ Piece(p[x], SubSeq(m, rest[x - 1] + 1, rest[x]))
    BY <2>2, <2>3 DEF Cuts
  <2> DEFINE cut == [x \in i - 1 .. Len(p) |-> IF x = i - 1 THEN j - 1 ELSE rest[x]]
  <2>5. \A x \in i - 1 .. Len(p) : x = i - 1 \/ x \in i .. Len(p)
    BY <1>0
  <2>6. j - 1 \in 0 .. Len(m) /\ j - 1 + 1 = j
    BY <1>0
  <2>7. cut \in [i - 1 .. Len(p) -> 0 .. Len(m)]
    BY <2>4, <2>5, <2>6
  <2>8. cut[i - 1] = j - 1 /\ \A x \in i .. Len(p) : cut[x] = rest[x]
    BY <1>0
  <2> HIDE DEF cut
  <2>9. ASSUME NEW x \in i .. Len(p)
        PROVE  cut[x - 1] <= cut[x] /\ Piece(p[x], SubSeq(m, cut[x - 1] + 1, cut[x]))
    <3>1. CASE x = i
      <4>1. cut[x - 1] = j - 1 /\ cut[x] = k - 1 /\ cut[x - 1] + 1 = j
        BY <2>4, <2>6, <2>8, <3>1
      <4>2. j - 1 <= k - 1
        BY <1>0, <1>4, <2>1
      <4> QED BY <1>4, <3>1, <4>1, <4>2
    <3>2. CASE x # i
      <4>1. x \in i + 1 .. Len(p) /\ x - 1 \in i .. Len(p)
        BY <1>0, <3>2
      <4>2. cut[x - 1] = rest[x - 1] /\ cut[x] = rest[x]
        BY <2>8, <4>1
      <4> QED BY <2>4, <4>1, <4>2
    <3> QED BY <3>1, <3>2
  <2>10. cut[Len(p)] = Len(m)
    <3>1. Len(p) \in i .. Len(p)
      BY <1>0
    <3> QED BY <2>4, <2>8, <3>1
  <2>11. Cuts(p, m, i, j, cut)
    BY <2>7, <2>8, <2>9, <2>10 DEF Cuts
  <2> QED BY <1>2, <2>11
<1>5. j \in Cuttable(p, m)[i] => \E cut : Cuts(p, m, i, j, cut)
  BY <1>2
<1> QED BY <1>3, <1>4, <1>5

LEMMA EmptyCut ==
  ASSUME NEW S, NEW p \in Seq(S), NEW T, NEW m \in Seq(T)
  PROVE  Cuttable(p, m)[Len(p) + 1] = {Len(m) + 1}
<1>0. Len(p) \in Nat /\ Len(m) \in Nat
  BY LenProperties
<1> DEFINE i == Len(p) + 1
<1>1. i \in 1 .. Len(p) + 1 /\ i - 1 = Len(p) /\ i .. Len(p) = {}
  BY <1>0
<1> HIDE DEF i
<1>2. Cuttable(p, m)[i] = {j \in 1 .. Len(m) + 1 : \E cut : Cuts(p, m, i, j, cut)}
  BY <1>1 DEF Cuttable
<1>3. ASSUME NEW j \in 1 .. Len(m) + 1, NEW cut, Cuts(p, m, i, j, cut)
      PROVE  j = Len(m) + 1
  <2>1. cut[i - 1] = j - 1 /\ cut[Len(p)] = Len(m)
    BY <1>3 DEF Cuts
  <2>2. j - 1 = Len(m)
    BY <1>1, <2>1
  <2> QED BY <1>0, <2>2
<1>4. Len(m) + 1 \in 1 .. Len(m) + 1 /\ \E cut : Cuts(p, m, i, Len(m) + 1, cut)
  <2> DEFINE cut == [x \in Len(p) .. Len(p) |-> Len(m)]
  <2>1. cut \in [Len(p) .. Len(p) -> 0 .. Len(m)] /\ cut[Len(p)] = Len(m)
    BY <1>0
  <2> HIDE DEF cut
  <2>2. Len(m) + 1 - 1 = Len(m) /\ Len(m) + 1 \in 1 .. Len(m) + 1
    BY <1>0
  <2>3. cut \in [i - 1 .. Len(p) -> 0 .. Len(m)] /\ cut[i - 1] = Len(m) + 1 - 1
    BY <1>1, <2>1, <2>2
  <2>4. \A k \in i .. Len(p) :
          cut[k - 1] <= cut[k] /\ Piece(p[k], SubSeq(m, cut[k - 1] + 1, cut[k]))
    BY <1>1
  <2>5. Cuts(p, m, i, Len(m) + 1, cut)
    BY <2>1, <2>3, <2>4 DEF Cuts
  <2> QED BY <2>2, <2>5
<1> QED BY <1>2, <1>3, <1>4 DEF i

LEMMA CuttableIsComputed ==
  ASSUME NEW S, NEW p \in Seq(S), NEW T, NEW m \in Seq(T), NEW i \in 1 .. Len(p) + 1
  PROVE  Cuttable(p, m)[i] = PlacesFrom(p, m, i, Cuttable(p, m)[i + 1])
<1>0. Len(p) \in Nat /\ Len(m) \in Nat
  BY LenProperties
<1>1. CASE i = Len(p) + 1
  <2>1. i > Len(p)
    BY <1>0, <1>1
  <2>2. Cuttable(p, m)[i] = {Len(m) + 1}
    BY <1>1, EmptyCut
  <2> QED BY <2>1, <2>2 DEF PlacesFrom
<1>2. CASE i \in 1 .. Len(p)
  <2> DEFINE next == Cuttable(p, m)[i + 1]
  <2>1. i + 1 \in 1 .. Len(p) + 1 /\ ~ (i > Len(p))
    BY <1>0, <1>2
  <2>2. Cuttable(p, m)[i] \subseteq 1 .. Len(m) + 1 /\ next \subseteq 1 .. Len(m) + 1
    BY <2>1 DEF Cuttable
  <2>3. ASSUME NEW j \in 1 .. Len(m) + 1
        PROVE  j \in Cuttable(p, m)[i] <=> \E k \in next : j <= k /\ Piece(p[i], SubSeq(m, j, k - 1))
    BY <1>2, FirstPiece
  <2>4. ASSUME NEW j \in 1 .. Len(m) + 1, NEW k \in 1 .. Len(m) + 1, j <= k
        PROVE  /\ p[i] = "**" => Piece(p[i], SubSeq(m, j, k - 1))
               /\ p[i] = "*" => (Piece(p[i], SubSeq(m, j, k - 1)) <=> k = j + 1 /\ m[j] # "")
               /\ p[i] # "**" /\ p[i] # "*" => (Piece(p[i], SubSeq(m, j, k - 1)) <=> k = j + 1 /\ m[j] = p[i])
    <3>1. j - 1 \in 0 .. Len(m) /\ k - 1 \in 0 .. Len(m) /\ j - 1 <= k - 1 /\ j - 1 + 1 = j
          /\ (k - 1 = j <=> k = j + 1)
      BY <1>0, <2>4
    <3> DEFINE a == j - 1
    <3> DEFINE b == k - 1
    <3>2. a \in 0 .. Len(m) /\ b \in 0 .. Len(m) /\ a <= b /\ a + 1 = j /\ b = k - 1
          /\ (b = a + 1 <=> k = j + 1) /\ (k = j + 1 => b = j)
      BY <1>0, <3>1
    <3> HIDE DEF a, b
    <3>3. /\ p[i] = "**" => Piece(p[i], SubSeq(m, a + 1, b))
          /\ p[i] = "*" => (Piece(p[i], SubSeq(m, a + 1, b)) <=> b = a + 1 /\ m[b] # "")
          /\ p[i] # "**" /\ p[i] # "*" => (Piece(p[i], SubSeq(m, a + 1, b)) <=> b = a + 1 /\ m[b] = p[i])
      <4>1. \A x, y \in 0 .. Len(m) : \A seg : x <= y =>
              /\ seg = "**" => Piece(seg, SubSeq(m, x + 1, y))
              /\ seg = "*" => (Piece(seg, SubSeq(m, x + 1, y)) <=> y = x + 1 /\ m[y] # "")
              /\ seg # "**" /\ seg # "*" => (Piece(seg, SubSeq(m, x + 1, y)) <=> y = x + 1 /\ m[y] = seg)
        BY PieceMeans
      <4>2. \A seg :
              /\ seg = "**" => Piece(seg, SubSeq(m, a + 1, b))
              /\ seg = "*" => (Piece(seg, SubSeq(m, a + 1, b)) <=> b = a + 1 /\ m[b] # "")
              /\ seg # "**" /\ seg # "*" => (Piece(seg, SubSeq(m, a + 1, b)) <=> b = a + 1 /\ m[b] = seg)
        <5>1. a \in 0 .. Len(m) /\ b \in 0 .. Len(m) /\ a <= b
          BY <3>2
        <5> QED BY <4>1, <5>1, Zenon
      <4> QED BY <4>2, Zenon
    <3>4. Piece(p[i], SubSeq(m, a + 1, b)) <=> Piece(p[i], SubSeq(m, j, k - 1))
      BY <3>2
    <3> QED BY <3>2, <3>3, <3>4
  <2> HIDE DEF next
  <2>5. CASE p[i] = "**"
    <3>1. ASSUME NEW j \in 1 .. Len(m) + 1
          PROVE  j \in Cuttable(p, m)[i] <=> (i = Len(p) \/ \E k \in next : j <= k)
      <4>1. j \in Cuttable(p, m)[i] <=> \E k \in next : j <= k
        BY <2>2, <2>3, <2>4, <2>5
      <4>2. i = Len(p) => Len(m) + 1 \in next /\ j <= Len(m) + 1
        BY <1>0, EmptyCut DEF next
      <4> QED BY <4>1, <4>2
    <3> QED BY <2>1, <2>2, <2>5, <3>1 DEF PlacesFrom, next
  <2>6. CASE p[i] # "**"
    <3> DEFINE fits(j) == IF p[i] = "*" THEN m[j] # "" ELSE m[j] = p[i]
    <3>1. ASSUME NEW j \in 1 .. Len(m) + 1
          PROVE  j \in Cuttable(p, m)[i] <=> (j \in 1 .. Len(m) /\ j + 1 \in next /\ fits(j))
      <4>1. ASSUME NEW k \in next, j <= k, Piece(p[i], SubSeq(m, j, k - 1))
            PROVE  j \in 1 .. Len(m) /\ j + 1 \in next /\ fits(j)
        <5>1. k \in 1 .. Len(m) + 1
          BY <2>2
        <5>2. k = j + 1 /\ fits(j)
          <6>1. CASE p[i] = "*"
            BY <2>4, <4>1, <5>1, <6>1
          <6>2. CASE p[i] # "*"
            BY <2>4, <2>6, <4>1, <5>1, <6>2
          <6> QED BY <6>1, <6>2
        <5> HIDE DEF fits
        <5> QED BY <1>0, <4>1, <5>1, <5>2
      <4>2. ASSUME j \in 1 .. Len(m), j + 1 \in next, fits(j)
            PROVE  j <= j + 1 /\ Piece(p[i], SubSeq(m, j, j + 1 - 1))
        <5>1. j + 1 \in 1 .. Len(m) + 1 /\ j <= j + 1
          <6>1. j \in 1 .. Len(m)
            BY <4>2
          <6> QED BY <1>0, <6>1
        <5> DEFINE k == j + 1
        <5> HIDE DEF k, next
        <5>2. CASE p[i] = "*"
          <6>1. m[j] # ""
            BY <4>2, <5>2
          <6>2. Piece(p[i], SubSeq(m, j, k - 1))
            BY <2>4, <5>1, <5>2, <6>1 DEF k
          <6> QED BY <5>1, <6>2 DEF k
        <5>3. CASE p[i] # "*"
          <6>1. m[j] = p[i]
            BY <4>2, <5>3
          <6>2. Piece(p[i], SubSeq(m, j, k - 1))
            BY <2>4, <2>6, <5>1, <5>3, <6>1 DEF k
          <6> QED BY <5>1, <6>2 DEF k
        <5> QED BY <5>2, <5>3
      <4> HIDE DEF fits
      <4> QED BY <2>3, <4>1, <4>2
    <3>2. 1 .. Len(m) \subseteq 1 .. Len(m) + 1
      BY <1>0
    <3>3. Cuttable(p, m)[i] = {j \in 1 .. Len(m) : j + 1 \in next /\ fits(j)}
      <4> HIDE DEF fits
      <4> QED BY <2>2, <3>1, <3>2
    <3> QED BY <2>1, <2>6, <3>3 DEF PlacesFrom, next
  <2> QED BY <2>5, <2>6
<1> QED BY <1>0, <1>1, <1>2

IsComputed(p, m, f) == f = [i \in 1 .. Len(p) + 1 |-> PlacesFrom(p, m, i, f[i + 1])]

(* Only one function is computed: two differ nowhere, since at the last    *)
(* place where they do they agree on the next one.                         *)
LEMMA ComputedOnce ==
  ASSUME NEW S, NEW p \in Seq(S), NEW m, NEW f, NEW g, IsComputed(p, m, f), IsComputed(p, m, g)
  PROVE  f = g
<1>0. Len(p) \in Nat
  BY LenProperties
<1> DEFINE D == 1 .. Len(p) + 1
<1>1. \A i \in D : f[i] = PlacesFrom(p, m, i, f[i + 1]) /\ g[i] = PlacesFrom(p, m, i, g[i + 1])
  BY DEF IsComputed
<1>2. f = [i \in D |-> f[i]] /\ g = [i \in D |-> g[i]]
  BY DEF IsComputed
<1>3. ASSUME NEW x \in D, f[x] # g[x] PROVE FALSE
  <2> DEFINE Gaps == {n \in Nat : \E i \in D : i = Len(p) + 1 - n /\ f[i] # g[i]}
  <2>1. Len(p) + 1 - x \in Gaps
    <3>1. Len(p) + 1 - x \in Nat /\ x = Len(p) + 1 - (Len(p) + 1 - x)
      BY <1>0
    <3> QED BY <1>3, <3>1
  <2>2. Gaps \in SUBSET Nat /\ Gaps # {}
    BY <2>1
  <2>3. PICK n \in Gaps : \A k \in Gaps : n <= k
    <3> HIDE DEF Gaps
    <3> QED BY <2>2, LeastNatural
  <2>4. PICK i \in D : i = Len(p) + 1 - n /\ f[i] # g[i]
    OBVIOUS
  <2>5. n \in Nat
    BY <2>2
  <2>6. CASE i = Len(p) + 1
    <3>1. i > Len(p)
      BY <1>0, <2>6
    <3> QED BY <1>1, <2>4, <3>1 DEF PlacesFrom
  <2>7. CASE i # Len(p) + 1
    <3>1. i + 1 \in D /\ n - 1 \in Nat /\ i + 1 = Len(p) + 1 - (n - 1) /\ ~ (n <= n - 1)
      BY <1>0, <2>4, <2>5, <2>7
    <3>2. n - 1 \notin Gaps
      <4> HIDE DEF Gaps
      <4> QED BY <2>3, <3>1
    <3>3. f[i + 1] = g[i + 1]
      BY <3>1, <3>2
    <3> QED BY <1>1, <2>4, <3>3
  <2> QED BY <2>6, <2>7
<1> HIDE DEF D
<1>4. [i \in D |-> f[i]] = [i \in D |-> g[i]]
  BY <1>3
<1> QED BY <1>2, <1>4

LEMMA MatchesAreCuttable ==
  ASSUME NEW S, NEW p \in Seq(S), NEW T, NEW m \in Seq(T)
  PROVE  MethodMatches(p, m) <=> 1 \in Cuttable(p, m)[1]
<1> DEFINE from == CHOOSE f : IsComputed(p, m, f)
<1>1. IsComputed(p, m, Cuttable(p, m))
  <2>1. Cuttable(p, m) = [i \in 1 .. Len(p) + 1 |-> Cuttable(p, m)[i]]
    BY DEF Cuttable
  <2>2. \A i \in 1 .. Len(p) + 1 : Cuttable(p, m)[i] = PlacesFrom(p, m, i, Cuttable(p, m)[i + 1])
    BY CuttableIsComputed
  <2> QED BY <2>1, <2>2, Zenon DEF IsComputed
<1>2. IsComputed(p, m, from)
  BY <1>1
<1>3. MethodMatches(p, m) <=> 1 \in from[1]
  BY Zenon DEF MethodMatches, IsComputed, PlacesFrom
<1> HIDE DEF from
<1>4. from = Cuttable(p, m)
  BY <1>1, <1>2, ComputedOnce
<1> QED BY <1>3, <1>4

(* matchHelper: for any glob and any method, whatever the number and the   *)
(* places of the ** segments, what it accepts is what the glob means.      *)
THEOREM GlobsAreExact ==
  compared \in [glob : Seq(Segments \union {"*", "**"}), method : Seq(Segments)] => MethodGlobsExact
<1> SUFFICES ASSUME compared \in [glob : Seq(Segments \union {"*", "**"}), method : Seq(Segments)]
             PROVE  MethodGlobsExact
  OBVIOUS
<1> DEFINE p == compared.glob
<1> DEFINE m == compared.method
<1>1. p \in Seq(Segments \union {"*", "**"}) /\ m \in Seq(Segments)
  OBVIOUS
<1> HIDE DEF p, m
<1>2. Len(p) \in Nat /\ Len(m) \in Nat
  BY <1>1, LenProperties
<1>3. MethodMatches(p, m) <=> 1 \in Cuttable(p, m)[1]
  BY <1>1, MatchesAreCuttable
<1>4. 1 \in 1 .. Len(p) + 1 /\ 1 \in 1 .. Len(m) + 1 /\ 1 - 1 = 0
  BY <1>2
<1>5. 1 \in Cuttable(p, m)[1] <=> \E cut : Cuts(p, m, 1, 1, cut)
  BY <1>4 DEF Cuttable
<1>6. (\E cut : Cuts(p, m, 1, 1, cut)) <=> MeansMethod(p, m)
  BY <1>4 DEF Cuts, MeansMethod
<1> QED BY <1>3, <1>5, <1>6 DEF MethodGlobsExact, p, m
=============================================================================

------------------------------- MODULE MeshRpc -------------------------------
(***************************************************************************)
(* A call over http from end to end: HttpMeshTransport.send and its retry  *)
(* loop (packages/mesh-transport-http/src/transport.ts, retry.ts), a       *)
(* network that loses and delays posts, and the node of InboundDispatch    *)
(* that answers them, while the same request may also reach that node over *)
(* libp2p (the failover of another sender).                                *)
(*                                                                         *)
(* A try that is given up is not taken back: its post may still be read,   *)
(* and its handler go on, beside those of later tries.                     *)
(***************************************************************************)
EXTENDS InboundDispatch

CONSTANTS
  Calls,            (* the requests that this node sends over http         *)
  MaxRetries,       (* maxRetries of the transport                         *)
  AttemptTimeout,   (* opts.timeoutMs of send                              *)
  Delays            (* the pauses backoff, jitter or retry-after may ask for *)

ASSUME RpcParameters ==
  /\ Calls \subseteq Ids
  /\ Status = {"ok", "denied", "error", "timeout"}
  /\ MaxRetries \in Nat
  /\ AttemptTimeout \in Nat
  /\ Delays \subseteq Nat

VARIABLES
  call,      (* call[c]: the invocation of send                            *)
  posts,     (* <<c, n>>: the post of try n of c is on its way             *)
  serving    (* serving[d]: the try that delivery d answers, 0 for a       *)
             (* request of somebody else                                   *)

rpcVars == <<call, posts, serving>>
inboundVars == <<now, http, cross, delivery, settled, started, since>>
allVars == <<vars, call, posts, serving>>

Call ==
  [phase : {"idle", "trying", "pausing", "returned"},
   tries : Nat,
   until : Nat,                     \* when the running timer fires
   last : Status \union {NoEntry},  \* lastResp
   result : Status \union {NoEntry}]

RpcInit ==
  /\ Init
  /\ call = [c \in Calls |->
               [phase |-> "idle", tries |-> 0, until |-> 0, last |-> NoEntry, result |-> NoEntry]]
  /\ posts = {}
  /\ serving = [d \in Deliveries |-> 0]

Earlier(a, b) == IF a <= b THEN a ELSE b

Returned(r, response) ==
  [r EXCEPT !.phase = "returned", !.until = 0,
            !.result = IF response = NoEntry THEN "timeout" ELSE response]

TryAgainUnchecked(c) ==                 \* mutant: the deadline is not looked at before a try
  LET r == call[c]
  IN  /\ r.phase = "idle" \/ (r.phase = "pausing" /\ now >= r.until)
      /\ call' = [call EXCEPT ![c].phase = "trying", ![c].tries = @ + 1,
                              ![c].until = now + AttemptTimeout]
      /\ posts' = posts \union {<<c, r.tries + 1>>}
      /\ UNCHANGED <<inboundVars, serving>>

(* The head of the loop of runWithRetry: at the first try, or when the     *)
(* pause after an unsuccessful one is over.                                *)
TryAgain(c) ==
  LET r == call[c]
  IN  /\ r.phase = "idle" \/ (r.phase = "pausing" /\ now >= r.until)
      /\ IF now >= Deadline[c]
           THEN call' = [call EXCEPT ![c] = Returned(r, r.last)] /\ UNCHANGED posts
           ELSE /\ call' = [call EXCEPT
                     ![c].phase = "trying", ![c].tries = @ + 1,
                     ![c].until = now + Earlier(Deadline[c] - now, AttemptTimeout)]
                /\ posts' = posts \union {<<c, r.tries + 1>>}
      /\ UNCHANGED <<inboundVars, serving>>

Pause(r, c, delay) ==
  [r EXCEPT !.phase = "pausing", !.until = now + Earlier(delay, Deadline[c] - now)]

(* What the loop does with a response that is not final, lastResp being    *)
(* set: the last try and a passed deadline end it.                         *)
PauseOrReturn(c, r) ==
  IF r.tries > MaxRetries \/ now >= Deadline[c]
    THEN call' = [call EXCEPT ![c] = Returned(r, r.last)]
    ELSE \E delay \in Delays : call' = [call EXCEPT ![c] = Pause(r, c, delay)]

(* The outcome of a try.  A denial is final under any http status.         *)
Conclude(c, response) ==
  IF response \in {"ok", "denied"}
    THEN call' = [call EXCEPT ![c] = Returned(call[c], response)]
    ELSE PauseOrReturn(c, [call[c] EXCEPT !.last = response])

(* The timer has aborted the try, or its connection failed: in either case *)
(* the outcome is "timeout".                                               *)
TryFails(c) ==
  /\ call[c].phase = "trying"
  /\ Conclude(c, "timeout")
  /\ UNCHANGED <<inboundVars, posts, serving>>

(* Http 429, which leaves lastResp as it was. *)
TryLater(c) ==
  /\ call[c].phase = "trying"
  /\ PauseOrReturn(c, call[c])
  /\ UNCHANGED <<inboundVars, posts, serving>>

(* A post is read by the node, perhaps after its try was given up. *)
PostArrives(c, n, d) ==
  /\ <<c, n>> \in posts
  /\ posts' = posts \ {<<c, n>>}
  /\ ArriveHttp(d, c)
  /\ serving' = [serving EXCEPT ![d] = n]
  /\ UNCHANGED call

PostLost(c, n) ==
  /\ <<c, n>> \in posts
  /\ posts' = posts \ {<<c, n>>}
  /\ UNCHANGED <<inboundVars, call, serving>>

OtherArrives(d, id) ==
  /\ ArriveLibp2p(d, id)
  /\ serving' = [serving EXCEPT ![d] = 0]
  /\ UNCHANGED <<call, posts>>

(* The response to the running try is read.  statusToHttp and the decoding *)
(* of 200, 403, 408, 409 (a cached response) and 500 agree on the status.  *)
ResponseRead(c, d) ==
  /\ call[c].phase = "trying"
  /\ delivery[d].phase = "answered"
  /\ delivery[d].id = c
  /\ serving[d] = call[c].tries
  /\ Conclude(c, delivery[d].answer)
  /\ UNCHANGED <<inboundVars, posts, serving>>

RpcResume(d) == Resume(d) /\ UNCHANGED rpcVars

(* A timer that is due fires before the time goes on. *)
RpcTick ==
  /\ \A c \in Calls : call[c].phase \in {"trying", "pausing"} => now < call[c].until
  /\ Tick
  /\ UNCHANGED rpcVars

RpcNext ==
  \/ \E c \in Calls : TryAgain(c)
  \/ \E c \in Calls : TryFails(c)
  \/ \E c \in Calls : TryLater(c)
  \/ \E p \in posts, d \in Deliveries : PostArrives(p[1], p[2], d)
  \/ \E p \in posts : PostLost(p[1], p[2])
  \/ \E d \in Deliveries, c \in Calls : OtherArrives(d, c)
  \/ \E d \in Deliveries, c \in Calls : ResponseRead(c, d)
  \/ \E d \in Deliveries : RpcResume(d)
  \/ RpcTick

RpcSpec == RpcInit /\ [][RpcNext]_allVars
-----------------------------------------------------------------------------
RpcTypeOK ==
  /\ call \in [Calls -> Call]
  /\ posts \subseteq Calls \X (1 .. MaxRetries + 1)
  /\ serving \in [Deliveries -> 0 .. MaxRetries + 1]
  /\ \A c \in Calls : call[c].phase = "returned" <=> call[c].result # NoEntry

(* However tries, aborts, pauses and a retry-after longer than the rest of *)
(* the time combine, send has returned when its deadline is past: no timer *)
(* of the loop is ever set beyond it.                                      *)
CallsKeepTheirDeadline ==
  \A c \in Calls : call[c].phase \in {"trying", "pausing"} => now <= Deadline[c]

(* A call of send has one result, which it gives when it has returned,     *)
(* and it returns by its deadline.                                         *)
CallsEndInTime == RpcTypeOK /\ CallsKeepTheirDeadline

(* Retries, failover, caches and lost messages implement RequestReply: one *)
(* result per call, and none but a denial or a timeout that the handler of *)
(* this request did not give.                                              *)
Promise ==
  INSTANCE RequestReply WITH ran <- started, given <- settled,
                             result <- [c \in Calls |-> call[c].result]

KeepsPromise == Promise!Spec
=============================================================================

-------------------------- MODULE InboundDispatch --------------------------
(***************************************************************************)
(* What a node does with the requests that reach it: the HTTP entry        *)
(* (packages/mesh-transport-http/src/transport.ts, handleInbound), the     *)
(* libp2p entry (packages/mesh-transport-libp2p/src/transport.ts, the      *)
(* stream handler) and the dispatch they share (packages/mesh-router/src/  *)
(* inbound.ts).  The network and the senders' retries may deliver a        *)
(* request any number of times, over either transport and at any time.     *)
(*                                                                         *)
(* Every delivery runs concurrently with the others and yields at three    *)
(* awaits: the scope signature (http only), the capability and the         *)
(* application handler.  An action is the code between two awaits.         *)
(***************************************************************************)
EXTENDS LruCache

CONSTANTS
  Deliveries,       (* deliveries in progress at a time (bound of the model) *)
  HandlerAnswers,   (* the responses the application gives                 *)
  Deadline,         (* Deadline[id]: deadlineMs in the envelope of request id *)
  HttpMaxEntries,   (* size of the http transport's DedupCache             *)
  CrossMaxEntries,  (* size of the router's CrossTransportDedup            *)
  NoId,
  MaxTime           (* bound of the model on the clock                     *)

ASSUME DispatchParameters ==
  /\ Deadline \in [Ids -> Nat]
  /\ {HttpMaxEntries, CrossMaxEntries} \subseteq Nat \ {0}
  /\ NoId \notin Ids
  /\ {"ok", "denied", "error", "timeout"} \subseteq Status
  /\ HandlerAnswers \subseteq Status
  /\ MaxTime \in Nat

VARIABLES
  now,
  http,       (* DedupCache of the http transport                          *)
  cross,      (* CrossTransportDedup                                       *)
  delivery,   (* delivery[d]: the invocation of the entry point            *)
  settled,    (* history: the answers dispatch has cached for id           *)
  started,    (* history: the ids whose handler has been started           *)
  since       (* history: the other ids used in cross since id was         *)

vars == <<now, http, cross, delivery, settled, started, since>>

Awaits == {"signature", "capability", "handler"}

Delivery ==
  [phase : {"idle", "answered"} \union Awaits,
   id : Ids \union {NoId},
   via : {"http", "libp2p"},
   answer : Status \union {NoEntry}]

NoDelivery == [phase |-> "idle", id |-> NoId, via |-> "http", answer |-> NoEntry]

Init ==
  /\ now = 0
  /\ http = EmptyCache
  /\ cross = EmptyCache
  /\ delivery = [d \in Deliveries |-> NoDelivery]
  /\ settled = [id \in Ids |-> {}]
  /\ started = {}
  /\ since = [id \in Ids |-> {}]

Used(id) == since' = [i \in Ids |-> IF i = id THEN {} ELSE since[i] \union {id}]

Await(d, r, phase) == delivery' = [delivery EXCEPT ![d] = [r EXCEPT !.phase = phase]]

Answer(d, r, answer) ==
  delivery' = [delivery EXCEPT ![d] = [r EXCEPT !.phase = "answered", !.answer = answer]]

(* The transport's entry gets the answer of dispatch: http remembers it    *)
(* until the deadline, libp2p does not.                                    *)
Deliver(d, r, answer) ==
  /\ Answer(d, r, answer)
  /\ http' = IF r.via = "http"
               THEN Set(http, r.id, answer, Deadline[r.id] - now, now, HttpMaxEntries)
               ELSE http

(* dispatch up to its first await. *)
Dispatch(d, r) ==
  /\ cross' = Get(cross, r.id, now)
  /\ IF Hit(cross, r.id, now)
       THEN Deliver(d, r, cross.resp[r.id]) /\ Used(r.id)
       ELSE Await(d, r, "capability") /\ UNCHANGED <<http, since>>

(* A libp2p stream or http request with this envelope has been read; http  *)
(* asks its own cache before it verifies the signature.                    *)
ArriveLibp2p(d, id) ==
  /\ delivery[d].phase \in {"idle", "answered"}
  /\ Dispatch(d, [phase |-> "idle", id |-> id, via |-> "libp2p", answer |-> NoEntry])
  /\ UNCHANGED <<now, settled, started>>

ArriveHttp(d, id) ==
  LET r == [phase |-> "idle", id |-> id, via |-> "http", answer |-> NoEntry]
  IN  /\ delivery[d].phase \in {"idle", "answered"}
      /\ http' = Get(http, id, now)
      /\ IF Hit(http, id, now) THEN Answer(d, r, http.resp[id]) ELSE Await(d, r, "signature")
      /\ UNCHANGED <<now, cross, settled, started, since>>

(* verifyScopeSig has answered (a rejection counts as false). *)
SignatureChecked(d, identityOk) ==
  LET r == delivery[d]
  IN  /\ r.phase = "signature"
      /\ \/ /\ ~ identityOk
            /\ Answer(d, r, "denied")
            /\ UNCHANGED <<http, cross, since>>
         \/ /\ identityOk
            /\ now >= Deadline[r.id]
            /\ Answer(d, r, "timeout")
            /\ UNCHANGED <<http, cross, since>>
         \/ /\ identityOk
            /\ now < Deadline[r.id]
            /\ Dispatch(d, r)
      /\ UNCHANGED <<now, settled, started>>

(* dispatch caches an answer for all transports and returns it.            *)
Settle(d, answer) ==
  LET r == delivery[d]
  IN  /\ cross' = Set(cross, r.id, answer, Deadline[r.id] - now, now, CrossMaxEntries)
      /\ settled' = [settled EXCEPT ![r.id] = @ \union {answer}]
      /\ Used(r.id)
      /\ Deliver(d, r, answer)

CapabilityGrantedReserves(d) ==         \* mutant: the answer is cached before the handler ran
  /\ delivery[d].phase = "capability"
  /\ Await(d, delivery[d], "handler")
  /\ started' = started \union {delivery[d].id}
  /\ cross' = Set(cross, delivery[d].id, "ok", Deadline[delivery[d].id] - now, now,
                  CrossMaxEntries)
  /\ UNCHANGED <<now, http, settled, since>>

(* verifier.verify has answered: granted, refused, or thrown, which is     *)
(* answered "denied" too but not remembered by dispatch.                   *)
CapabilityGranted(d) ==
  /\ delivery[d].phase = "capability"
  /\ Await(d, delivery[d], "handler")
  /\ started' = started \union {delivery[d].id}
  /\ UNCHANGED <<now, http, cross, settled, since>>

CapabilityRefused(d) ==
  /\ delivery[d].phase = "capability"
  /\ Settle(d, "denied")
  /\ UNCHANGED <<now, started>>

CapabilityThrew(d) ==
  /\ delivery[d].phase = "capability"
  /\ Deliver(d, delivery[d], "denied")
  /\ UNCHANGED <<now, cross, settled, started, since>>

(* The handler has returned a response, or thrown one.                     *)
HandlerReturned(d, answer) ==
  /\ delivery[d].phase = "handler"
  /\ Settle(d, answer)
  /\ UNCHANGED <<now, started>>

Tick ==
  /\ now < MaxTime
  /\ now' = now + 1
  /\ UNCHANGED <<http, cross, delivery, settled, started, since>>

Arrive(d, id) == ArriveLibp2p(d, id) \/ ArriveHttp(d, id)

Resume(d) ==
  \/ \E identityOk \in BOOLEAN : SignatureChecked(d, identityOk)
  \/ CapabilityGranted(d)
  \/ CapabilityRefused(d)
  \/ CapabilityThrew(d)
  \/ \E answer \in HandlerAnswers : HandlerReturned(d, answer)

Next ==
  \/ \E d \in Deliveries, id \in Ids : ArriveLibp2p(d, id)
  \/ \E d \in Deliveries, id \in Ids : ArriveHttp(d, id)
  \/ \E d \in Deliveries : Resume(d)
  \/ Tick

(* Verifiers and handlers settle the promises they return. *)
Fairness == \A d \in Deliveries : WF_vars(Resume(d))

Spec == Init /\ [][Next]_vars
FairSpec == Spec /\ Fairness
-----------------------------------------------------------------------------
TypeOK ==
  /\ now \in Nat
  /\ http \in Cache
  /\ cross \in Cache
  /\ delivery \in [Deliveries -> Delivery]
  /\ \A d \in Deliveries : delivery[d].phase \in Awaits => delivery[d].id \in Ids
  /\ settled \in [Ids -> SUBSET Status]
  /\ started \subseteq Ids
  /\ since \in [Ids -> SUBSET Ids]

(* Neither cache outgrows its bound nor loses track of a key, whatever     *)
(* mixture of hits, expiries, re-insertions and evictions it sees: get and *)
(* set of dedup.ts and dedup-cache.ts both delete and re-insert keys.      *)
CachesCoherent == Coherent(http, HttpMaxEntries) /\ Coherent(cross, CrossMaxEntries)

(* A delivery goes on to verification and the handler although dispatch    *)
(* has answered its request already only when the deadline has passed or   *)
(* as many other requests as the cache holds were answered or asked for    *)
(* since: nothing else makes the node forget an answer.                    *)
ForgetsOnlyUnderPressure ==
  [][\A d \in Deliveries :
       (delivery[d].phase # "capability" /\ delivery'[d].phase = "capability")
         => LET id == delivery'[d].id
            IN  settled[id] = {} \/ now >= Deadline[id]
                  \/ Cardinality(since[id]) >= CrossMaxEntries]_vars

(* An answer other than a denial or a timeout, cached or not, is one the   *)
(* handler gave to this very request.                                      *)
AnswersComeFromHandler ==
  \A d \in Deliveries :
    delivery[d].answer \in {"ok", "error"} =>
      delivery[d].id \in started /\ delivery[d].answer \in settled[delivery[d].id]

(* The dispatch and its two caches as a whole: within their bounds, in     *)
(* order, and answering with nothing but what the handler gave.            *)
DispatchSound == TypeOK /\ CachesCoherent /\ AnswersComeFromHandler

(* Every delivery is answered.                                             *)
DeliveriesAnswered ==
  \A d \in Deliveries : delivery[d].phase \in Awaits ~> delivery[d].phase = "answered"
-----------------------------------------------------------------------------
(* G37-gate-wrapper.test.ts:97 "dedup -> single handler call" and          *)
(* smoke.integration.test.ts:77 "handler invoked exactly once via dedup":  *)
(* the handler of a request is started once before its deadline.  A        *)
(* duplicate that arrives while the first is being handled finds nothing   *)
(* in the caches.                                                          *)
HandlerOnce ==
  [][\A d \in Deliveries :
       (delivery[d].phase = "capability" /\ delivery'[d].phase = "handler"
          /\ now < Deadline[delivery[d].id])
         => delivery[d].id \notin started]_vars
=============================================================================

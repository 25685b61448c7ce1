--------------------------- MODULE Libp2pConnection ---------------------------
(***************************************************************************)
(* Requests of one libp2p transport to one peer: the coalesced dial        *)
(* (packages/mesh-transport-libp2p/src/dialer.ts), the capability          *)
(* handshake that the first request on a connection makes (handshake.ts,   *)
(* transport.ts send and the stream handler of start), the request streams *)
(* (streams.ts) and the idle sweep (connection-manager.ts).  Both ends     *)
(* keep the handshake's verdict per connection, read it before they await  *)
(* a handshake and write it afterwards.                                    *)
(***************************************************************************)
EXTENDS Integers, FiniteSets

CONSTANTS
  Sends,              (* the calls of send                                 *)
  NoSend,
  Conns,              (* connections that may be opened (bound)            *)
  NoConn,
  MaxAttempts,        (* backoff.maxAttempts                               *)
  InitiatorVerifier,  (* the IdentityVerifier of the dialling transport    *)
  ResponderVerifier   (* that of its peer                                  *)

Verifiers == {"noop", "ed25519", "any"}

ASSUME ConnectionParameters ==
  /\ NoSend \notin Sends
  /\ NoConn \notin Conns
  /\ MaxAttempts \in Nat \ {0}
  /\ {InitiatorVerifier, ResponderVerifier} \subseteq Verifiers

VARIABLES
  dial,       (* the dial in flight: its owner and the attempts that failed *)
  link,       (* link[c]: "unused", "open" or "closed"                      *)
  idle,       (* the open connections without activity for idleTimeoutMs    *)
  victims,    (* the connections that sweeps are about to close             *)
  out,        (* out[c]: the initiator's connStates entry                   *)
  in,         (* in[c]: the responder's connStates entry                    *)
  call,       (* call[s]: an invocation of send                             *)
  stream,     (* stream[k]: a stream and the responder's handler of it      *)
  handled,    (* history: the requests given to the responder's handler     *)
  vouched,    (* history: the connections a responder's verifier accepted   *)
  trusted,    (* history: the connections an initiator's verifier accepted  *)
  contended   (* history: a stream was opened on them next to a handshake   *)

vars == <<dial, link, idle, victims, out, in, call, stream, handled, vouched, trusted, contended>>

Streams == Sends \X {"handshake", "request"}
Handshake(s) == <<s, "handshake">>
Request(s) == <<s, "request">>
Sender(k) == k[1]
IsRequest(k) == k[2] = "request"
ConnOf(k) == call[Sender(k)].conn

Verdicts == {"none", "accepted", "rejected"}
Verdict(ok) == IF ok THEN "accepted" ELSE "rejected"

(* A capability message: what verifyScopeSig is given as the nonce and     *)
(* what the signature was made over.                                       *)
InitiatorsMessage == [nonce |-> "capability", signed |-> "requestId"]
RespondersMessage == [nonce |-> "noopCapability", signed |-> "nothing"]
MisreadRequest    == [nonce |-> "capability", signed |-> "nothing"]

Answers(verifier, msg) ==
  CASE verifier = "noop"    -> {TRUE}
    [] verifier = "ed25519" -> {msg.signed = msg.nonce}
    [] verifier = "any"     -> BOOLEAN

Waits == {"dialing", "joined", "opening", "signing", "handshaking", "verifying",
          "admitted", "requesting"}
Outcomes == {"response", "denied", "error", "timeout"}

Call == [pc : {"idle"} \union Waits \union Outcomes, conn : Conns \union {NoConn}]

Stream == [pc    : {"none", "opened", "handshaking", "verifying", "recording", "serving",
                    "handling", "done", "closed"},
           msg   : {"awaited", "capability", "request"},   \* the initiator's message
           reply : {"none", "capability", "response"},
           ok    : BOOLEAN]

NewStream == [pc |-> "none", msg |-> "awaited", reply |-> "none", ok |-> FALSE]

Init ==
  /\ dial = [owner |-> NoSend, failed |-> 0]
  /\ link = [c \in Conns |-> "unused"]
  /\ idle = {}
  /\ victims = {}
  /\ out = [c \in Conns |-> "none"]
  /\ in = [c \in Conns |-> "none"]
  /\ call = [s \in Sends |-> [pc |-> "idle", conn |-> NoConn]]
  /\ stream = [k \in Streams |-> NewStream]
  /\ handled = {}
  /\ vouched = {}
  /\ trusted = {}
  /\ contended = {}

Busy(s) == call[s].pc \in Waits
Dialing(s) == call[s].pc \in {"dialing", "joined"}

Goes(s, pc) == call' = [call EXCEPT ![s].pc = pc]
Serves(k, pc) == stream' = [stream EXCEPT ![k].pc = pc]

Unfinished(k) == stream[k].pc \in {"opened", "handshaking", "verifying", "recording"}
-----------------------------------------------------------------------------
(* send, at the dialling transport: the dial of a peer is shared by the    *)
(* calls that come while it is in flight.                                  *)
Send(s) ==
  /\ call[s].pc = "idle"
  /\ IF dial.owner = NoSend
       THEN Goes(s, "dialing") /\ dial' = [owner |-> s, failed |-> 0]
       ELSE Goes(s, "joined") /\ UNCHANGED dial
  /\ UNCHANGED <<link, idle, victims, out, in, stream, handled, vouched, trusted, contended>>

(* What a call does with its connection. *)
AfterDial(c) ==
  CASE out[c] = "none"     -> "opening"
    [] out[c] = "accepted" -> "admitted"
    [] out[c] = "rejected" -> "denied"

(* node.dial answers with the connection that is open or opens one. *)
DialConnects(c) ==
  /\ dial.owner # NoSend
  /\ \/ link[c] = "open"
     \/ link[c] = "unused" /\ \A d \in Conns : link[d] # "open"
  /\ link' = [link EXCEPT ![c] = "open"]
  /\ idle' = idle \ {c}
  /\ call' = [s \in Sends |-> IF Dialing(s) THEN [pc |-> AfterDial(c), conn |-> c] ELSE call[s]]
  /\ dial' = [owner |-> NoSend, failed |-> 0]
  /\ UNCHANGED <<victims, out, in, stream, handled, vouched, trusted, contended>>

DialRetries ==
  /\ dial.owner # NoSend
  /\ dial.failed + 1 < MaxAttempts
  /\ dial' = [dial EXCEPT !.failed = @ + 1]
  /\ UNCHANGED <<link, idle, victims, out, in, call, stream, handled, vouched, trusted, contended>>

(* The last attempt failed, or the owner's deadline or signal ended it:    *)
(* the calls that joined fail with it.                                     *)
DialFails ==
  /\ dial.owner # NoSend
  /\ call' = [s \in Sends |-> IF Dialing(s) THEN [call[s] EXCEPT !.pc = "error"] ELSE call[s]]
  /\ dial' = [owner |-> NoSend, failed |-> 0]
  /\ UNCHANGED <<link, idle, victims, out, in, stream, handled, vouched, trusted, contended>>

(* The responder learns of a stream once its protocol is negotiated. *)
OpensHandshake(s) ==
  LET c == call[s].conn
  IN  /\ call[s].pc = "opening" /\ link[c] = "open"
      /\ stream' = [stream EXCEPT ![Handshake(s)].pc = "opened"]
      /\ Goes(s, "signing")
      /\ idle' = idle \ {c}
      /\ contended' = IF \E t \in Sends : call[t].conn = c /\ stream[Handshake(t)].pc # "none"
                        THEN contended \union {c} ELSE contended
      /\ UNCHANGED <<dial, link, victims, out, in, handled, vouched, trusted>>

Signs(s) ==
  /\ call[s].pc = "signing" /\ link[call[s].conn] = "open"
  /\ stream' = [stream EXCEPT ![Handshake(s)].msg = "capability"]
  /\ Goes(s, "handshaking")
  /\ UNCHANGED <<dial, link, idle, victims, out, in, handled, vouched, trusted, contended>>

HandshakeAnswered(s) ==
  /\ call[s].pc = "handshaking" /\ stream[Handshake(s)].reply = "capability"
  /\ Goes(s, "verifying")
  /\ UNCHANGED <<dial, link, idle, victims, out, in, stream, handled, vouched, trusted, contended>>

PeerVerified(s, ok) ==
  LET c == call[s].conn
  IN  /\ call[s].pc = "verifying"
      /\ ok \in Answers(InitiatorVerifier, RespondersMessage)
      /\ out' = [out EXCEPT ![c] = Verdict(ok)]
      /\ trusted' = IF ok THEN trusted \union {c} ELSE trusted
      /\ Goes(s, IF ok THEN "admitted" ELSE "denied")
      /\ UNCHANGED <<dial, link, idle, victims, in, stream, handled, vouched, contended>>

(* sendRequestOverStream writes the request as soon as the stream is open. *)
OpensRequest(s) ==
  LET c == call[s].conn
  IN  /\ call[s].pc = "admitted" /\ link[c] = "open"
      /\ stream' = [stream EXCEPT ![Request(s)] = [@ EXCEPT !.pc = "opened", !.msg = "request"]]
      /\ Goes(s, "requesting")
      /\ idle' = idle \ {c}
      /\ contended' = IF \E t \in Sends : call[t].conn = c /\ Unfinished(Handshake(t))
                        THEN contended \union {c} ELSE contended
      /\ UNCHANGED <<dial, link, victims, out, in, handled, vouched, trusted>>

RequestAnswered(s) ==
  /\ call[s].pc = "requesting" /\ stream[Request(s)].reply = "response"
  /\ Goes(s, "response")
  /\ idle' = idle \ {call[s].conn}
  /\ UNCHANGED <<dial, link, victims, out, in, stream, handled, vouched, trusted, contended>>

RequestTimesOutInTime(s) ==             \* mutant: the timer only fires while the peer reads
  /\ call[s].pc = "requesting" /\ stream[Request(s)].pc = "opened"
  /\ Goes(s, "timeout")
  /\ idle' = idle \ {call[s].conn}
  /\ UNCHANGED <<dial, link, victims, out, in, stream, handled, vouched, trusted, contended>>

(* raceWithDeadline: the timer, or the caller's signal. *)
RequestTimesOut(s) ==
  /\ call[s].pc = "requesting"
  /\ Goes(s, "timeout")
  /\ idle' = idle \ {call[s].conn}
  /\ UNCHANGED <<dial, link, victims, out, in, stream, handled, vouched, trusted, contended>>

(* The responder closed the stream without an answer, or its answer is not *)
(* a response.                                                             *)
Unanswered(k) ==
  \/ stream[k].pc \in {"done", "closed"} /\ stream[k].reply = "none"
  \/ IsRequest(k) /\ stream[k].reply = "capability"

(* newStream, sign or a verifier rejects, or the stream brings no answer.  *)
SendFails(s) ==
  /\ \/ call[s].pc \in {"opening", "admitted", "signing", "verifying"}
     \/ call[s].pc = "handshaking" /\ Unanswered(Handshake(s))
     \/ call[s].pc = "requesting" /\ Unanswered(Request(s))
  /\ Goes(s, "error")
  /\ UNCHANGED <<dial, link, idle, victims, out, in, stream, handled, vouched, trusted, contended>>
-----------------------------------------------------------------------------
(* The stream handler, at the responder.                                   *)
Arrives(k) ==
  /\ stream[k].pc = "opened"
  /\ Serves(k, CASE in[ConnOf(k)] = "none"     -> "handshaking"
                 [] in[ConnOf(k)] = "accepted" -> "serving"
                 [] in[ConnOf(k)] = "rejected" -> "closed")
  /\ UNCHANGED <<dial, link, idle, victims, out, in, call, handled, vouched, trusted, contended>>

(* Whatever the first message is, it is read as a capability message. *)
ReadsCapability(k) ==
  /\ stream[k].pc = "handshaking" /\ stream[k].msg # "awaited"
  /\ Serves(k, "verifying")
  /\ UNCHANGED <<dial, link, idle, victims, out, in, call, handled, vouched, trusted, contended>>

(* The responder answers before it records the verdict, accepted or not. *)
Verifies(k, ok) ==
  /\ stream[k].pc = "verifying"
  /\ ok \in Answers(ResponderVerifier,
                    IF stream[k].msg = "capability" THEN InitiatorsMessage ELSE MisreadRequest)
  /\ stream' = [stream EXCEPT ![k] = [@ EXCEPT !.pc = "recording", !.reply = "capability", !.ok = ok]]
  /\ vouched' = IF ok THEN vouched \union {ConnOf(k)} ELSE vouched
  /\ UNCHANGED <<dial, link, idle, victims, out, in, call, handled, trusted, contended>>

VerifierThrows(k) ==
  /\ stream[k].pc = "verifying"
  /\ Serves(k, "closed")
  /\ UNCHANGED <<dial, link, idle, victims, out, in, call, handled, vouched, trusted, contended>>

RecordsAccepted(k) ==                   \* mutant: the verdict is not looked at
  /\ stream[k].pc = "recording"
  /\ in' = [in EXCEPT ![ConnOf(k)] = "accepted"]
  /\ Serves(k, IF stream[k].ok THEN "done" ELSE "closed")
  /\ UNCHANGED <<dial, link, idle, victims, out, call, handled, vouched, trusted, contended>>

RecordsNothing(k) ==                    \* mutant: the verdict is not kept for the connection
  /\ stream[k].pc = "recording"
  /\ Serves(k, IF stream[k].ok THEN "done" ELSE "closed")
  /\ UNCHANGED <<dial, link, idle, victims, out, in, call, handled, vouched, trusted, contended>>

(* The stream brings no second message: its handler is done. *)
Records(k) ==
  /\ stream[k].pc = "recording"
  /\ in' = [in EXCEPT ![ConnOf(k)] = Verdict(stream[k].ok)]
  /\ Serves(k, IF stream[k].ok THEN "done" ELSE "closed")
  /\ UNCHANGED <<dial, link, idle, victims, out, call, handled, vouched, trusted, contended>>

(* A capability message is no request: decodeRequest throws. *)
ReadsRequest(k) ==
  /\ stream[k].pc = "serving" /\ stream[k].msg # "awaited"
  /\ IF stream[k].msg = "request"
       THEN Serves(k, "handling") /\ handled' = handled \union {Sender(k)}
       ELSE Serves(k, "closed") /\ UNCHANGED handled
  /\ UNCHANGED <<dial, link, idle, victims, out, in, call, vouched, trusted, contended>>

HandlerAnswers(k) ==
  /\ stream[k].pc = "handling"
  /\ stream' = [stream EXCEPT ![k] = [@ EXCEPT !.pc = "done", !.reply = "response"]]
  /\ UNCHANGED <<dial, link, idle, victims, out, in, call, handled, vouched, trusted, contended>>
-----------------------------------------------------------------------------
(* The end of a connection resets its streams at both ends.                *)
Closes(c) ==
  /\ link' = [link EXCEPT ![c] = IF @ = "open" THEN "closed" ELSE @]
  /\ idle' = idle \ {c}
  /\ stream' = [k \in Streams |->
                  IF ConnOf(k) = c /\ stream[k].pc \notin {"none", "done", "closed"}
                    THEN [stream[k] EXCEPT !.pc = "closed"] ELSE stream[k]]
  /\ call' = [s \in Sends |->
                IF call[s].conn = c /\ call[s].pc \in {"handshaking", "requesting"}
                  THEN [call[s] EXCEPT !.pc = "error"] ELSE call[s]]

(* By the peer, the network or the node's own connection manager. *)
ConnectionLost(c) ==
  /\ link[c] = "open"
  /\ Closes(c)
  /\ UNCHANGED <<dial, victims, out, in, handled, vouched, trusted, contended>>

(* idleTimeoutMs pass since the last touch. *)
IdleElapses(c) ==
  /\ link[c] = "open" /\ c \notin idle
  /\ idle' = idle \union {c}
  /\ UNCHANGED <<dial, link, victims, out, in, call, stream, handled, vouched, trusted, contended>>

(* sweep collects the idle connections, then closes one after the other.   *)
Sweeps ==
  /\ ~ idle \subseteq victims
  /\ victims' = victims \union idle
  /\ UNCHANGED <<dial, link, idle, out, in, call, stream, handled, vouched, trusted, contended>>

SweepCloses(c) ==
  /\ c \in victims
  /\ victims' = victims \ {c}
  /\ Closes(c)
  /\ UNCHANGED <<dial, out, in, handled, vouched, trusted, contended>>

Dials == DialRetries \/ DialFails \/ \E c \in Conns : DialConnects(c)

Sending(s) ==
  \/ OpensHandshake(s) \/ Signs(s) \/ HandshakeAnswered(s) \/ OpensRequest(s)
  \/ \E ok \in BOOLEAN : PeerVerified(s, ok)
  \/ RequestAnswered(s) \/ RequestTimesOut(s) \/ SendFails(s)

Serving(k) == Arrives(k) \/ ReadsCapability(k) \/ Records(k) \/ ReadsRequest(k)
Verifying(k) == VerifierThrows(k) \/ \E ok \in BOOLEAN : Verifies(k, ok)

Next ==
  \/ \E s \in Sends : Send(s)
  \/ Dials
  \/ \E s \in Sends : Sending(s)
  \/ \E k \in Streams : Serving(k)
  \/ \E k \in Streams : Verifying(k)
  \/ \E k \in Streams : HandlerAnswers(k)
  \/ \E c \in Conns : ConnectionLost(c)
  \/ \E c \in Conns : IdleElapses(c)
  \/ Sweeps
  \/ \E c \in Conns : SweepCloses(c)

Spec == Init /\ [][Next]_vars

(* Dials and requests have timers, local promises settle and streams are   *)
(* delivered; handlers need not answer.                                    *)
TimersFire ==
  /\ WF_vars(Dials)
  /\ \A s \in Sends : WF_vars(Sending(s))
  /\ \A k \in Streams : WF_vars(Serving(k))

(* The responder's verifier, with its key store, may be slow for ever. *)
SlowVerifierSpec == Spec /\ TimersFire

FairSpec == SlowVerifierSpec /\ \A k \in Streams : WF_vars(Verifying(k))
-----------------------------------------------------------------------------
TypeOK ==
  /\ dial \in [owner : Sends \union {NoSend}, failed : 0..(MaxAttempts - 1)]
  /\ link \in [Conns -> {"unused", "open", "closed"}]
  /\ idle \subseteq {c \in Conns : link[c] = "open"}
  /\ victims \subseteq Conns
  /\ out \in [Conns -> Verdicts]
  /\ in \in [Conns -> Verdicts]
  /\ call \in [Sends -> Call]
  /\ stream \in [Streams -> Stream]
  /\ handled \subseteq Sends
  /\ vouched \subseteq Conns
  /\ trusted \subseteq Conns
  /\ contended \subseteq Conns

(* The dials of a peer are coalesced: as long as calls wait for a          *)
(* connection one of them, and only one, drives the dial they all wait     *)
(* for, and nobody is left waiting when it settles (dialer.ts:42-54).      *)
OneDialForAll ==
  /\ \A s \in Sends : call[s].pc = "dialing" <=> dial.owner = s
  /\ \A s \in Sends : call[s].pc = "joined" => dial.owner # NoSend

(* The responder's handler is given requests only on a connection that its *)
(* verifier has accepted, and the initiator sends them only after its own  *)
(* accepted the peer there, however handshakes overlap                     *)
(* (transport.ts:130-152, 237-279).                                        *)
HandledOnlyAfterHandshakes ==
  \A s \in handled : call[s].conn \in vouched \intersect trusted

(* A call that returns a response returns what the handler answered to its *)
(* own request: neither a handshake's answer nor the end of a stream is    *)
(* ever taken for one (transport.ts:279-296, streams.ts:13-29).            *)
ResponsesAreTheHandlers == \A s \in Sends : call[s].pc = "response" => s \in handled

(* The responder takes a stream for what it is not. *)
Misread(k) ==
  \/ IsRequest(k) /\ stream[k].pc \in {"handshaking", "verifying", "recording"}
  \/ ~ IsRequest(k) /\ stream[k].pc = "serving"

(* The ends disagree on what a stream carries only when it was opened      *)
(* while the connection had another handshake (transport.ts:130, 237).     *)
MisreadOnlyWhenContended == \A k \in Streams : Misread(k) => ConnOf(k) \in contended

(* Every call of send settles: dials and requests have timers, and a       *)
(* handshake is answered or its stream closed (transport.ts:218-297).      *)
SendsReturn == \A s \in Sends : Busy(s) ~> ~ Busy(s)

(* Calls share dials without being forgotten by them; between the two ends *)
(* of overlapping handshakes, requests reach the handler only when both    *)
(* verifiers have accepted, and answers are given only by it.              *)
RequestsVouchedFor == TypeOK /\ OneDialForAll /\ HandledOnlyAfterHandshakes /\ ResponsesAreTheHandlers
-----------------------------------------------------------------------------
(* What the tests and documents of the source say and the code does not do.*)

(* "deadline honored": send settles although the peer is slow              *)
(* (mesh-transport-libp2p/test/G38B-gate-wrapper.test.ts:179).             *)
DeadlineHonored == \A s \in Sends : Busy(s) ~> ~ Busy(s)

(* "idle timeout closes connections with no traffic": one that has been    *)
(* used since the sweep looked at it stays open                            *)
(* (mesh-transport-libp2p/test/G38B-gate-wrapper.test.ts:223).             *)
SweepClosesTheIdle ==
  [][\A c \in Conns : c \in victims /\ c \notin victims' /\ link[c] = "open" => c \in idle]_vars

(* "capability-gated cross-scope calls over HTTP and libp2p": a peer whose *)
(* key is known and who signs is not denied                                *)
(* (docs/releases/v0.6.0-phase-6.md:3).                                    *)
HonestPeersAreAccepted == \A s \in Sends : call[s].pc # "denied"
=============================================================================

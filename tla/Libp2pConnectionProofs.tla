----------------------- MODULE Libp2pConnectionProofs -----------------------
(***************************************************************************)
(* Proofs about Libp2pConnection for any number of overlapping calls and   *)
(* of connections, any number of dial attempts and any verifiers.          *)
(***************************************************************************)
EXTENDS Libp2pConnection, TLAPS

(* A call in these phases has opened no stream. *)
Unconnected == {"idle", "dialing", "joined"}

(* Streams belong to calls that have a connection, and only request        *)
(* streams carry requests.                                                 *)
Wired ==
  /\ \A k \in Streams : call[Sender(k)].pc \in Unconnected => stream[k].pc = "none"
  /\ \A s \in Sends : call[s].pc \notin Unconnected \union {"error"} => call[s].conn \in Conns
  /\ \A k \in Streams : stream[k].pc # "none" => ConnOf(k) \in Conns
  /\ \A k \in Streams : stream[k].msg = "request" => IsRequest(k) /\ stream[k].pc # "none"
  /\ \A s \in handled : call[s].pc \notin Unconnected

(* What the responder's verdicts, streams and handler owe its verifier. *)
Vouched ==
  /\ \A c \in Conns : in[c] = "accepted" => c \in vouched
  /\ \A k \in Streams :
       stream[k].pc = "serving" \/ (stream[k].pc = "recording" /\ stream[k].ok)
         => ConnOf(k) \in vouched
  /\ \A s \in handled : call[s].conn \in vouched

(* What the initiator's verdicts and requests owe its verifier. *)
Trusted ==
  /\ \A c \in Conns : out[c] = "accepted" => c \in trusted
  /\ \A s \in Sends : call[s].pc = "admitted" => call[s].conn \in trusted
  /\ \A k \in Streams : IsRequest(k) /\ stream[k].pc # "none" => ConnOf(k) \in trusted
  /\ \A s \in handled : call[s].conn \in trusted

(* Responses come from the handler. *)
Answered ==
  /\ \A k \in Streams :
       stream[k].pc = "handling" \/ stream[k].reply = "response" => Sender(k) \in handled
  /\ \A s \in Sends : call[s].pc = "response" => s \in handled

IInv == TypeOK /\ OneDialForAll /\ Wired /\ Vouched /\ Trusted /\ Answered

(* What a step may do to a call.  The proofs of the invariants use only    *)
(* this and the moves below, not the actions.                              *)
CallMove(s) ==
  \/ call'[s].pc = call[s].pc /\ call'[s].conn = call[s].conn
  \/ /\ call[s].pc \in Unconnected
     /\ call'[s].pc \in {"dialing", "joined", "error"}
     /\ call'[s].conn = call[s].conn
  \/ /\ call[s].pc \in Unconnected
     /\ call'[s].pc \in {"opening", "admitted", "denied"}
     /\ call'[s].conn \in Conns
     /\ call'[s].pc = "admitted" => out[call'[s].conn] = "accepted"
  \/ /\ call[s].pc \notin Unconnected \union {"error"}
     /\ call'[s].pc \notin Unconnected
     /\ call'[s].conn = call[s].conn
     /\ call'[s].pc = "admitted" => call[s].conn \in trusted'
     /\ call'[s].pc = "response" => stream[Request(s)].reply = "response"

(* What a step may do to a stream and its handler. *)
StreamMove(k) ==
  \/ /\ stream'[k].pc = stream[k].pc /\ stream'[k].msg = stream[k].msg
     /\ stream'[k].reply = stream[k].reply /\ stream'[k].ok = stream[k].ok
  \/ /\ call[Sender(k)].pc \in {"opening", "admitted"}
     /\ IsRequest(k) => call[Sender(k)].pc = "admitted"
     /\ stream'[k].pc = "opened"
     /\ stream'[k].msg = IF IsRequest(k) THEN "request" ELSE stream[k].msg
     /\ stream'[k].reply = stream[k].reply
  \/ /\ ~ IsRequest(k)
     /\ stream'[k].pc = stream[k].pc /\ stream'[k].msg = "capability"
     /\ stream'[k].reply = stream[k].reply /\ stream'[k].ok = stream[k].ok
  \/ /\ stream[k].pc # "none"
     /\ stream'[k].pc \in {"handshaking", "verifying", "done", "closed"}
     /\ stream'[k].msg = stream[k].msg
     /\ stream'[k].reply = stream[k].reply
  \/ /\ stream[k].pc # "none" /\ in[ConnOf(k)] = "accepted"
     /\ stream'[k].pc = "serving" /\ stream'[k].msg = stream[k].msg
     /\ stream'[k].reply = stream[k].reply
  \/ /\ stream[k].pc # "none"
     /\ stream'[k].pc = "recording" /\ stream'[k].msg = stream[k].msg
     /\ stream'[k].reply = "capability"
     /\ stream'[k].ok => ConnOf(k) \in vouched'
  \/ /\ stream[k].pc = "serving" /\ stream[k].msg = "request" /\ Sender(k) \in handled'
     /\ stream'[k].pc = "handling" /\ stream'[k].msg = stream[k].msg
     /\ stream'[k].reply = stream[k].reply
  \/ /\ stream[k].pc = "handling"
     /\ stream'[k].pc = "done" /\ stream'[k].msg = stream[k].msg
     /\ stream'[k].reply = "response"

(* What a step may do to the verdicts and the histories. *)
VerdictsMove ==
  /\ vouched \subseteq vouched' /\ trusted \subseteq trusted'
  /\ \A c \in Conns :
       in'[c] = "accepted" =>
         \/ in[c] = "accepted"
         \/ \E k \in Streams : ConnOf(k) = c /\ stream[k].pc = "recording" /\ stream[k].ok
  /\ \A c \in Conns : out'[c] = "accepted" => out[c] = "accepted" \/ c \in trusted'

HandledMove ==
  \/ handled' = handled
  \/ \E k \in Streams :
       /\ stream[k].pc = "serving" /\ stream[k].msg = "request"
       /\ handled' = handled \union {Sender(k)}

Moves ==
  /\ \A s \in Sends : CallMove(s)
  /\ \A k \in Streams : StreamMove(k)
  /\ VerdictsMove
  /\ HandledMove

(* How streams are named. *)
LEMMA StreamNames ==
  /\ \A s \in Sends :
       /\ Handshake(s) \in Streams /\ Sender(Handshake(s)) = s /\ ~ IsRequest(Handshake(s))
       /\ Request(s) \in Streams /\ Sender(Request(s)) = s /\ IsRequest(Request(s))
  /\ \A k \in Streams :
       /\ Sender(k) \in Sends
       /\ k = IF IsRequest(k) THEN Request(Sender(k)) ELSE Handshake(Sender(k))
  BY DEF Streams, Handshake, Request, Sender, IsRequest

(* What the operators that the actions are built from do, field by field.  *)
LEMMA GoesEffect ==
  ASSUME TypeOK, NEW s \in Sends, NEW pc, Goes(s, pc)
  PROVE  \A t \in Sends : /\ call'[t].pc = IF t = s THEN pc ELSE call[t].pc
                          /\ call'[t].conn = call[t].conn
  BY DEF TypeOK, Goes, Call

LEMMA ServesEffect ==
  ASSUME TypeOK, NEW k \in Streams, NEW pc, Serves(k, pc)
  PROVE  \A j \in Streams : /\ stream'[j].pc = IF j = k THEN pc ELSE stream[j].pc
                            /\ stream'[j].msg = stream[j].msg
                            /\ stream'[j].reply = stream[j].reply
                            /\ stream'[j].ok = stream[j].ok
  BY DEF TypeOK, Serves, Stream

LEMMA OpensHandshakeEffect ==
  ASSUME TypeOK, NEW s \in Sends, OpensHandshake(s)
  PROVE  \A j \in Streams : /\ stream'[j].pc = IF j = Handshake(s) THEN "opened" ELSE stream[j].pc
                            /\ stream'[j].msg = stream[j].msg
                            /\ stream'[j].reply = stream[j].reply
                            /\ stream'[j].ok = stream[j].ok
<1>1. stream' = [stream EXCEPT ![Handshake(s)].pc = "opened"]
  BY DEF OpensHandshake
<1> QED BY <1>1 DEF TypeOK, Stream

LEMMA SignsEffect ==
  ASSUME TypeOK, NEW s \in Sends, Signs(s)
  PROVE  \A j \in Streams : /\ stream'[j].msg = IF j = Handshake(s) THEN "capability" ELSE stream[j].msg
                            /\ stream'[j].pc = stream[j].pc
                            /\ stream'[j].reply = stream[j].reply
                            /\ stream'[j].ok = stream[j].ok
  BY DEF TypeOK, Signs, Stream

LEMMA OpensRequestEffect ==
  ASSUME TypeOK, NEW s \in Sends, OpensRequest(s)
  PROVE  \A j \in Streams : /\ stream'[j].pc = IF j = Request(s) THEN "opened" ELSE stream[j].pc
                            /\ stream'[j].msg = IF j = Request(s) THEN "request" ELSE stream[j].msg
                            /\ stream'[j].reply = stream[j].reply
                            /\ stream'[j].ok = stream[j].ok
<1>1. stream' = [stream EXCEPT ![Request(s)] = [@ EXCEPT !.pc = "opened", !.msg = "request"]]
  BY DEF OpensRequest
<1> QED BY <1>1 DEF TypeOK, Stream

LEMMA VerifiesEffect ==
  ASSUME TypeOK, NEW k \in Streams, NEW ok \in BOOLEAN, Verifies(k, ok)
  PROVE  \A j \in Streams : /\ stream'[j].pc = IF j = k THEN "recording" ELSE stream[j].pc
                            /\ stream'[j].reply = IF j = k THEN "capability" ELSE stream[j].reply
                            /\ stream'[j].ok = IF j = k THEN ok ELSE stream[j].ok
                            /\ stream'[j].msg = stream[j].msg
  BY DEF TypeOK, Verifies, Stream

LEMMA HandlerAnswersEffect ==
  ASSUME TypeOK, NEW k \in Streams, HandlerAnswers(k)
  PROVE  \A j \in Streams : /\ stream'[j].pc = IF j = k THEN "done" ELSE stream[j].pc
                            /\ stream'[j].reply = IF j = k THEN "response" ELSE stream[j].reply
                            /\ stream'[j].msg = stream[j].msg
                            /\ stream'[j].ok = stream[j].ok
  BY DEF TypeOK, HandlerAnswers, Stream

LEMMA ClosesEffect ==
  ASSUME TypeOK, NEW c \in Conns, Closes(c)
  PROVE  /\ \A j \in Streams :
              /\ stream'[j].pc = IF ConnOf(j) = c /\ stream[j].pc \notin {"none", "done", "closed"}
                                   THEN "closed" ELSE stream[j].pc
              /\ stream'[j].msg = stream[j].msg
              /\ stream'[j].reply = stream[j].reply
              /\ stream'[j].ok = stream[j].ok
         /\ \A t \in Sends :
              /\ call'[t].pc = IF call[t].conn = c /\ call[t].pc \in {"handshaking", "requesting"}
                                 THEN "error" ELSE call[t].pc
              /\ call'[t].conn = call[t].conn
         /\ \A d \in Conns : link'[d] = IF d = c /\ link[c] = "open" THEN "closed" ELSE link[d]
  BY DEF TypeOK, Closes, Stream, Call

LEMMA DialConnectsEffect ==
  ASSUME TypeOK, NEW c \in Conns, DialConnects(c)
  PROVE  /\ AfterDial(c) \in {"opening", "admitted", "denied"}
         /\ AfterDial(c) = "admitted" => out[c] = "accepted"
         /\ \A t \in Sends : /\ call'[t].pc = IF Dialing(t) THEN AfterDial(c) ELSE call[t].pc
                             /\ call'[t].conn = IF Dialing(t) THEN c ELSE call[t].conn
  BY DEF TypeOK, DialConnects, AfterDial, Verdicts

LEMMA DialFailsEffect ==
  ASSUME TypeOK, DialFails
  PROVE  \A t \in Sends : /\ call'[t].pc = IF Dialing(t) THEN "error" ELSE call[t].pc
                          /\ call'[t].conn = call[t].conn
  BY DEF TypeOK, DialFails, Call

(* What the types say of a call, a stream and a connection. *)
LEMMA Typing ==
  ASSUME TypeOK
  PROVE  /\ handled \subseteq Sends /\ vouched \subseteq Conns /\ trusted \subseteq Conns
         /\ \A c \in Conns : in[c] \in Verdicts /\ out[c] \in Verdicts /\ link[c] \in {"unused", "open", "closed"}
         /\ DOMAIN in = Conns /\ DOMAIN out = Conns /\ DOMAIN link = Conns
         /\ \A k \in Streams : stream[k] \in Stream
         /\ \A s \in Sends : call[s] \in Call
  BY DEF TypeOK

LEMMA InitEstablishes == Init => IInv
<1> SUFFICES ASSUME Init PROVE IInv
  OBVIOUS
<1> USE ConnectionParameters DEF Init
<1>0. NewStream \in Stream
  BY DEF NewStream, Stream
<1>1. TypeOK
  BY <1>0 DEF TypeOK, Call, Verdicts
<1>2. OneDialForAll
  BY DEF OneDialForAll
<1>3. \A k \in Streams : stream[k].pc = "none" /\ stream[k].msg = "awaited" /\ stream[k].reply = "none"
  BY DEF NewStream
<1>4. Wired
  BY <1>3, StreamNames DEF Wired, Unconnected
<1>5. Vouched
  BY <1>3 DEF Vouched
<1>6. Trusted
  BY <1>3 DEF Trusted
<1>7. Answered
  BY <1>3 DEF Answered
<1> QED BY <1>1, <1>2, <1>4, <1>5, <1>6, <1>7 DEF IInv

LEMMA GoesTypes ==
  ASSUME TypeOK, NEW s \in Sends, NEW pc \in {"idle"} \union Waits \union Outcomes, Goes(s, pc)
  PROVE  call' \in [Sends -> Call]
  BY DEF TypeOK, Goes, Call

LEMMA ServesTypes ==
  ASSUME TypeOK, NEW k \in Streams, NEW pc, Serves(k, pc),
         pc \in {"handshaking", "verifying", "serving", "handling", "done", "closed"}
  PROVE  stream' \in [Streams -> Stream]
<1>1. stream \in [Streams -> Stream]
  BY DEF TypeOK
<1>2. [stream[k] EXCEPT !.pc = pc] \in Stream
  BY <1>1 DEF Stream
<1> QED BY <1>1, <1>2 DEF Serves

LEMMA ClosesTypes ==
  ASSUME TypeOK, NEW c \in Conns, Closes(c)
  PROVE  /\ stream' \in [Streams -> Stream]
         /\ call' \in [Sends -> Call]
         /\ link' \in [Conns -> {"unused", "open", "closed"}]
         /\ idle' \subseteq {d \in Conns : link'[d] = "open"}
<1>1. stream \in [Streams -> Stream]
  BY DEF TypeOK
<1>2. \A k \in Streams : [stream[k] EXCEPT !.pc = "closed"] \in Stream
  BY <1>1 DEF Stream
<1>3. stream' \in [Streams -> Stream]
  BY <1>1, <1>2 DEF Closes
<1>4. call \in [Sends -> Call]
  BY DEF TypeOK
<1>5. \A s \in Sends : [call[s] EXCEPT !.pc = "error"] \in Call
  BY <1>4 DEF Call, Outcomes
<1>6. call' \in [Sends -> Call]
  BY <1>4, <1>5 DEF Closes
<1>7. link' \in [Conns -> {"unused", "open", "closed"}]
  BY DEF TypeOK, Closes
<1>8. idle' \subseteq {d \in Conns : link'[d] = "open"}
  BY DEF TypeOK, Closes
<1> QED BY <1>3, <1>6, <1>7, <1>8

(* Every step keeps the types. *)
LEMMA TypeStep == TypeOK /\ Wired /\ [Next]_vars => TypeOK'
<1> SUFFICES ASSUME TypeOK, Wired, [Next]_vars PROVE TypeOK'
  OBVIOUS
<1> USE ConnectionParameters
<1>1. ASSUME NEW s \in Sends, Send(s) PROVE TypeOK'
  <2>1. Goes(s, "dialing") \/ Goes(s, "joined")
    BY <1>1 DEF Send
  <2>a. call' \in [Sends -> Call]
    BY <2>1, GoesTypes DEF Waits
  <2>b. stream' \in [Streams -> Stream]
    BY <1>1 DEF TypeOK, Send
  <2>c. /\ dial' \in [owner : Sends \union {NoSend}, failed : 0..(MaxAttempts - 1)]
        /\ link' \in [Conns -> {"unused", "open", "closed"}]
        /\ idle' \subseteq {d \in Conns : link'[d] = "open"}
        /\ victims' \subseteq Conns
        /\ out' \in [Conns -> Verdicts] /\ in' \in [Conns -> Verdicts]
        /\ handled' \subseteq Sends /\ vouched' \subseteq Conns /\ trusted' \subseteq Conns
        /\ contended' \subseteq Conns
    BY <1>1 DEF TypeOK, Send
  <2> QED
    BY <2>a, <2>b, <2>c DEF TypeOK
<1>2. ASSUME NEW c \in Conns, DialConnects(c) PROVE TypeOK'
  BY <1>2, StreamNames DEF DialConnects, AfterDial, Dialing, TypeOK, Wired, Unconnected, Call,
     Stream, Verdicts, Waits, Outcomes, NewStream, ConnOf
<1>3. ASSUME DialRetries PROVE TypeOK'
  BY <1>3, StreamNames DEF DialRetries, TypeOK, Wired, Unconnected, Call, Stream, Verdicts, Waits,
     Outcomes, NewStream, ConnOf
<1>4. ASSUME DialFails PROVE TypeOK'
  BY SMTT(30), <1>4, StreamNames DEF DialFails, Dialing, TypeOK, Wired, Unconnected, Call, Stream, Verdicts,
     Waits, Outcomes, NewStream, ConnOf
<1>5. ASSUME NEW s \in Sends, OpensHandshake(s) PROVE TypeOK'
  <2>1. Goes(s, "signing")
    BY <1>5 DEF OpensHandshake
  <2>2. stream' = [stream EXCEPT ![Handshake(s)].pc = "opened"]
    BY <1>5 DEF OpensHandshake
  <2>3. stream \in [Streams -> Stream]
    BY DEF TypeOK
  <2>4. stream[Handshake(s)] \in Stream /\ stream[Request(s)] \in Stream
    BY <2>3, StreamNames
  <2>5. [stream[Handshake(s)] EXCEPT !.pc = "opened"] \in Stream
    BY <2>4 DEF Stream
  <2>6. call[s].conn \in Conns
    BY <1>5 DEF OpensHandshake, Wired, Unconnected
  <2>a. call' \in [Sends -> Call]
    BY <2>1, GoesTypes DEF Waits
  <2>b. stream' \in [Streams -> Stream]
    BY <2>2, <2>3, <2>5, StreamNames
  <2>c. /\ dial' \in [owner : Sends \union {NoSend}, failed : 0..(MaxAttempts - 1)]
        /\ link' \in [Conns -> {"unused", "open", "closed"}]
        /\ idle' \subseteq {d \in Conns : link'[d] = "open"}
        /\ victims' \subseteq Conns
        /\ out' \in [Conns -> Verdicts] /\ in' \in [Conns -> Verdicts]
        /\ handled' \subseteq Sends /\ vouched' \subseteq Conns /\ trusted' \subseteq Conns
        /\ contended' \subseteq Conns
    BY <1>5, <2>6 DEF TypeOK, OpensHandshake
  <2> QED
    BY <2>a, <2>b, <2>c DEF TypeOK
<1>6. ASSUME NEW s \in Sends, Signs(s) PROVE TypeOK'
  <2>1. Goes(s, "handshaking")
    BY <1>6 DEF Signs
  <2>2. stream' = [stream EXCEPT ![Handshake(s)].msg = "capability"]
    BY <1>6 DEF Signs
  <2>3. stream \in [Streams -> Stream]
    BY DEF TypeOK
  <2>4. stream[Handshake(s)] \in Stream /\ stream[Request(s)] \in Stream
    BY <2>3, StreamNames
  <2>5. [stream[Handshake(s)] EXCEPT !.msg = "capability"] \in Stream
    BY <2>4 DEF Stream
  <2>6. call[s].conn \in Conns
    BY <1>6 DEF Signs, Wired, Unconnected
  <2>a. call' \in [Sends -> Call]
    BY <2>1, GoesTypes DEF Waits
  <2>b. stream' \in [Streams -> Stream]
    BY <2>2, <2>3, <2>5, StreamNames
  <2>c. /\ dial' \in [owner : Sends \union {NoSend}, failed : 0..(MaxAttempts - 1)]
        /\ link' \in [Conns -> {"unused", "open", "closed"}]
        /\ idle' \subseteq {d \in Conns : link'[d] = "open"}
        /\ victims' \subseteq Conns
        /\ out' \in [Conns -> Verdicts] /\ in' \in [Conns -> Verdicts]
        /\ handled' \subseteq Sends /\ vouched' \subseteq Conns /\ trusted' \subseteq Conns
        /\ contended' \subseteq Conns
    BY <1>6, <2>6 DEF TypeOK, Signs
  <2> QED
    BY <2>a, <2>b, <2>c DEF TypeOK
<1>7. ASSUME NEW s \in Sends, HandshakeAnswered(s) PROVE TypeOK'
  BY <1>7, StreamNames DEF HandshakeAnswered, Goes, TypeOK, Wired, Unconnected, Call, Stream,
     Verdicts, Waits, Outcomes, NewStream, ConnOf
<1>8. ASSUME NEW s \in Sends, NEW ok \in BOOLEAN, PeerVerified(s, ok) PROVE TypeOK'
  BY SMTT(30), <1>8, StreamNames DEF PeerVerified, Goes, Verdict, TypeOK, Wired, Unconnected, Call, Stream,
     Verdicts, Waits, Outcomes, NewStream, ConnOf
<1>9. ASSUME NEW s \in Sends, OpensRequest(s) PROVE TypeOK'
  <2>1. Goes(s, "requesting")
    BY <1>9 DEF OpensRequest
  <2>2. stream' = [stream EXCEPT ![Request(s)] = [@ EXCEPT !.pc = "opened", !.msg = "request"]]
    BY <1>9 DEF OpensRequest
  <2>3. stream \in [Streams -> Stream]
    BY DEF TypeOK
  <2>4. stream[Handshake(s)] \in Stream /\ stream[Request(s)] \in Stream
    BY <2>3, StreamNames
  <2>5. [stream[Request(s)] EXCEPT !.pc = "opened", !.msg = "request"] \in Stream
    BY <2>4 DEF Stream
  <2>6. call[s].conn \in Conns
    BY <1>9 DEF OpensRequest, Wired, Unconnected
  <2>a. call' \in [Sends -> Call]
    BY <2>1, GoesTypes DEF Waits
  <2>b. stream' \in [Streams -> Stream]
    BY <2>2, <2>3, <2>5, StreamNames
  <2>c. /\ dial' \in [owner : Sends \union {NoSend}, failed : 0..(MaxAttempts - 1)]
        /\ link' \in [Conns -> {"unused", "open", "closed"}]
        /\ idle' \subseteq {d \in Conns : link'[d] = "open"}
        /\ victims' \subseteq Conns
        /\ out' \in [Conns -> Verdicts] /\ in' \in [Conns -> Verdicts]
        /\ handled' \subseteq Sends /\ vouched' \subseteq Conns /\ trusted' \subseteq Conns
        /\ contended' \subseteq Conns
    BY <1>9, <2>6 DEF TypeOK, OpensRequest
  <2> QED
    BY <2>a, <2>b, <2>c DEF TypeOK
<1>10. ASSUME NEW s \in Sends, RequestAnswered(s) PROVE TypeOK'
  BY SMTT(30), <1>10, StreamNames DEF RequestAnswered, Goes, TypeOK, Wired, Unconnected, Call, Stream,
     Verdicts, Waits, Outcomes, NewStream, ConnOf
<1>11. ASSUME NEW s \in Sends, RequestTimesOut(s) PROVE TypeOK'
  BY <1>11, StreamNames DEF RequestTimesOut, Goes, TypeOK, Wired, Unconnected, Call, Stream,
     Verdicts, Waits, Outcomes, NewStream, ConnOf
<1>12. ASSUME NEW s \in Sends, SendFails(s) PROVE TypeOK'
  <2>1. Goes(s, "error")
    BY <1>12 DEF SendFails
  <2>a. call' \in [Sends -> Call]
    BY <2>1, GoesTypes DEF Outcomes
  <2>b. stream' \in [Streams -> Stream]
    BY <1>12 DEF TypeOK, SendFails
  <2>c. /\ dial' \in [owner : Sends \union {NoSend}, failed : 0..(MaxAttempts - 1)]
        /\ link' \in [Conns -> {"unused", "open", "closed"}]
        /\ idle' \subseteq {d \in Conns : link'[d] = "open"}
        /\ victims' \subseteq Conns
        /\ out' \in [Conns -> Verdicts] /\ in' \in [Conns -> Verdicts]
        /\ handled' \subseteq Sends /\ vouched' \subseteq Conns /\ trusted' \subseteq Conns
        /\ contended' \subseteq Conns
    BY <1>12 DEF TypeOK, SendFails
  <2> QED
    BY <2>a, <2>b, <2>c DEF TypeOK
<1>13. ASSUME NEW k \in Streams, Arrives(k) PROVE TypeOK'
  <2>1. stream[k].pc # "none"
    BY <1>13 DEF Arrives
  <2>2. ConnOf(k) \in Conns
    BY <2>1 DEF Wired
  <2>3. in[ConnOf(k)] \in Verdicts
    BY <2>2 DEF TypeOK
  <2>4. Serves(k, "handshaking") \/ Serves(k, "serving") \/ Serves(k, "closed")
    BY <1>13, <2>3 DEF Arrives, Verdicts
  <2>a. call' \in [Sends -> Call]
    BY <1>13 DEF TypeOK, Arrives
  <2>b. stream' \in [Streams -> Stream]
    BY <2>4, ServesTypes
  <2>c. /\ dial' \in [owner : Sends \union {NoSend}, failed : 0..(MaxAttempts - 1)]
        /\ link' \in [Conns -> {"unused", "open", "closed"}]
        /\ idle' \subseteq {d \in Conns : link'[d] = "open"}
        /\ victims' \subseteq Conns
        /\ out' \in [Conns -> Verdicts] /\ in' \in [Conns -> Verdicts]
        /\ handled' \subseteq Sends /\ vouched' \subseteq Conns /\ trusted' \subseteq Conns
        /\ contended' \subseteq Conns
    BY <1>13 DEF TypeOK, Arrives
  <2> QED
    BY <2>a, <2>b, <2>c DEF TypeOK
<1>14. ASSUME NEW k \in Streams, ReadsCapability(k) PROVE TypeOK'
  <2>1. Serves(k, "verifying")
    BY <1>14 DEF ReadsCapability
  <2>a. call' \in [Sends -> Call]
    BY <1>14 DEF TypeOK, ReadsCapability
  <2>b. stream' \in [Streams -> Stream]
    BY <2>1, ServesTypes
  <2>c. /\ dial' \in [owner : Sends \union {NoSend}, failed : 0..(MaxAttempts - 1)]
        /\ link' \in [Conns -> {"unused", "open", "closed"}]
        /\ idle' \subseteq {d \in Conns : link'[d] = "open"}
        /\ victims' \subseteq Conns
        /\ out' \in [Conns -> Verdicts] /\ in' \in [Conns -> Verdicts]
        /\ handled' \subseteq Sends /\ vouched' \subseteq Conns /\ trusted' \subseteq Conns
        /\ contended' \subseteq Conns
    BY <1>14 DEF TypeOK, ReadsCapability
  <2> QED
    BY <2>a, <2>b, <2>c DEF TypeOK
<1>15. ASSUME NEW k \in Streams, NEW ok \in BOOLEAN, Verifies(k, ok) PROVE TypeOK'
  <2>1. stream' = [stream EXCEPT ![k] = [@ EXCEPT !.pc = "recording", !.reply = "capability", !.ok = ok]]
    BY <1>15 DEF Verifies
  <2>2. stream \in [Streams -> Stream]
    BY DEF TypeOK
  <2>3. [stream[k] EXCEPT !.pc = "recording", !.reply = "capability", !.ok = ok] \in Stream
    BY <2>2 DEF Stream
  <2>4. ConnOf(k) \in Conns
    BY <1>15 DEF Verifies, Wired
  <2>a. call' \in [Sends -> Call]
    BY <1>15 DEF TypeOK, Verifies
  <2>b. stream' \in [Streams -> Stream]
    BY <2>1, <2>2, <2>3
  <2>c. /\ dial' \in [owner : Sends \union {NoSend}, failed : 0..(MaxAttempts - 1)]
        /\ link' \in [Conns -> {"unused", "open", "closed"}]
        /\ idle' \subseteq {d \in Conns : link'[d] = "open"}
        /\ victims' \subseteq Conns
        /\ out' \in [Conns -> Verdicts] /\ in' \in [Conns -> Verdicts]
        /\ handled' \subseteq Sends /\ vouched' \subseteq Conns /\ trusted' \subseteq Conns
        /\ contended' \subseteq Conns
    BY <1>15, <2>4 DEF TypeOK, Verifies
  <2> QED
    BY <2>a, <2>b, <2>c DEF TypeOK
<1>16. ASSUME NEW k \in Streams, VerifierThrows(k) PROVE TypeOK'
  <2>1. Serves(k, "closed")
    BY <1>16 DEF VerifierThrows
  <2>a. call' \in [Sends -> Call]
    BY <1>16 DEF TypeOK, VerifierThrows
  <2>b. stream' \in [Streams -> Stream]
    BY <2>1, ServesTypes
  <2>c. /\ dial' \in [owner : Sends \union {NoSend}, failed : 0..(MaxAttempts - 1)]
        /\ link' \in [Conns -> {"unused", "open", "closed"}]
        /\ idle' \subseteq {d \in Conns : link'[d] = "open"}
        /\ victims' \subseteq Conns
        /\ out' \in [Conns -> Verdicts] /\ in' \in [Conns -> Verdicts]
        /\ handled' \subseteq Sends /\ vouched' \subseteq Conns /\ trusted' \subseteq Conns
        /\ contended' \subseteq Conns
    BY <1>16 DEF TypeOK, VerifierThrows
  <2> QED
    BY <2>a, <2>b, <2>c DEF TypeOK
<1>17. ASSUME NEW k \in Streams, Records(k) PROVE TypeOK'
  <2>1. Serves(k, "done") \/ Serves(k, "closed")
    BY <1>17 DEF Records
  <2>2. in' \in [Conns -> Verdicts]
    BY <1>17 DEF TypeOK, Records, Verdict, Verdicts
  <2>a. call' \in [Sends -> Call]
    BY <1>17 DEF TypeOK, Records
  <2>b. stream' \in [Streams -> Stream]
    BY <2>1, ServesTypes
  <2>c. /\ dial' \in [owner : Sends \union {NoSend}, failed : 0..(MaxAttempts - 1)]
        /\ link' \in [Conns -> {"unused", "open", "closed"}]
        /\ idle' \subseteq {d \in Conns : link'[d] = "open"}
        /\ victims' \subseteq Conns
        /\ out' \in [Conns -> Verdicts] /\ in' \in [Conns -> Verdicts]
        /\ handled' \subseteq Sends /\ vouched' \subseteq Conns /\ trusted' \subseteq Conns
        /\ contended' \subseteq Conns
    BY <1>17, <2>2 DEF TypeOK, Records
  <2> QED
    BY <2>a, <2>b, <2>c DEF TypeOK
<1>18. ASSUME NEW k \in Streams, ReadsRequest(k) PROVE TypeOK'
  <2>1. Serves(k, "handling") \/ Serves(k, "closed")
    BY <1>18 DEF ReadsRequest
  <2>a. call' \in [Sends -> Call]
    BY <1>18 DEF TypeOK, ReadsRequest
  <2>b. stream' \in [Streams -> Stream]
    BY <2>1, ServesTypes
  <2>c. /\ dial' \in [owner : Sends \union {NoSend}, failed : 0..(MaxAttempts - 1)]
        /\ link' \in [Conns -> {"unused", "open", "closed"}]
        /\ idle' \subseteq {d \in Conns : link'[d] = "open"}
        /\ victims' \subseteq Conns
        /\ out' \in [Conns -> Verdicts] /\ in' \in [Conns -> Verdicts]
        /\ handled' \subseteq Sends /\ vouched' \subseteq Conns /\ trusted' \subseteq Conns
        /\ contended' \subseteq Conns
    BY <1>18, StreamNames DEF TypeOK, ReadsRequest
  <2> QED
    BY <2>a, <2>b, <2>c DEF TypeOK
<1>19. ASSUME NEW k \in Streams, HandlerAnswers(k) PROVE TypeOK'
  <2>1. stream' = [stream EXCEPT ![k] = [@ EXCEPT !.pc = "done", !.reply = "response"]]
    BY <1>19 DEF HandlerAnswers
  <2>2. stream \in [Streams -> Stream]
    BY DEF TypeOK
  <2>3. [stream[k] EXCEPT !.pc = "done", !.reply = "response"] \in Stream
    BY <2>2 DEF Stream
  <2>a. call' \in [Sends -> Call]
    BY <1>19 DEF TypeOK, HandlerAnswers
  <2>b. stream' \in [Streams -> Stream]
    BY <2>1, <2>2, <2>3
  <2>c. /\ dial' \in [owner : Sends \union {NoSend}, failed : 0..(MaxAttempts - 1)]
        /\ link' \in [Conns -> {"unused", "open", "closed"}]
        /\ idle' \subseteq {d \in Conns : link'[d] = "open"}
        /\ victims' \subseteq Conns
        /\ out' \in [Conns -> Verdicts] /\ in' \in [Conns -> Verdicts]
        /\ handled' \subseteq Sends /\ vouched' \subseteq Conns /\ trusted' \subseteq Conns
        /\ contended' \subseteq Conns
    BY <1>19 DEF TypeOK, HandlerAnswers
  <2> QED
    BY <2>a, <2>b, <2>c DEF TypeOK
<1>20. ASSUME NEW c \in Conns, ConnectionLost(c) PROVE TypeOK'
  <2>1. Closes(c)
    BY <1>20 DEF ConnectionLost
  <2>a. call' \in [Sends -> Call]
    BY <2>1, ClosesTypes
  <2>b. stream' \in [Streams -> Stream]
    BY <2>1, ClosesTypes
  <2>c. /\ dial' \in [owner : Sends \union {NoSend}, failed : 0..(MaxAttempts - 1)]
        /\ link' \in [Conns -> {"unused", "open", "closed"}]
        /\ idle' \subseteq {d \in Conns : link'[d] = "open"}
        /\ victims' \subseteq Conns
        /\ out' \in [Conns -> Verdicts] /\ in' \in [Conns -> Verdicts]
        /\ handled' \subseteq Sends /\ vouched' \subseteq Conns /\ trusted' \subseteq Conns
        /\ contended' \subseteq Conns
    BY <1>20, <2>1, ClosesTypes DEF TypeOK, ConnectionLost
  <2> QED
    BY <2>a, <2>b, <2>c DEF TypeOK
<1>21. ASSUME NEW c \in Conns, IdleElapses(c) PROVE TypeOK'
  BY <1>21, StreamNames DEF IdleElapses, TypeOK, Wired, Unconnected, Call, Stream, Verdicts,
     Waits, Outcomes, NewStream, ConnOf
<1>22. ASSUME Sweeps PROVE TypeOK'
  BY <1>22, StreamNames DEF Sweeps, TypeOK, Wired, Unconnected, Call, Stream, Verdicts, Waits,
     Outcomes, NewStream, ConnOf
<1>23. ASSUME NEW c \in Conns, SweepCloses(c) PROVE TypeOK'
  <2>1. Closes(c)
    BY <1>23 DEF SweepCloses
  <2>a. call' \in [Sends -> Call]
    BY <2>1, ClosesTypes
  <2>b. stream' \in [Streams -> Stream]
    BY <2>1, ClosesTypes
  <2>c. /\ dial' \in [owner : Sends \union {NoSend}, failed : 0..(MaxAttempts - 1)]
        /\ link' \in [Conns -> {"unused", "open", "closed"}]
        /\ idle' \subseteq {d \in Conns : link'[d] = "open"}
        /\ victims' \subseteq Conns
        /\ out' \in [Conns -> Verdicts] /\ in' \in [Conns -> Verdicts]
        /\ handled' \subseteq Sends /\ vouched' \subseteq Conns /\ trusted' \subseteq Conns
        /\ contended' \subseteq Conns
    BY <1>23, <2>1, ClosesTypes DEF TypeOK, SweepCloses
  <2> QED
    BY <2>a, <2>b, <2>c DEF TypeOK
<1>24. CASE UNCHANGED vars
  BY <1>24 DEF vars, TypeOK, Wired, Unconnected, Call, Stream, Verdicts, Waits, Outcomes,
     NewStream, ConnOf
<1> QED
  BY <1>1, <1>2, <1>3, <1>4, <1>5, <1>6, <1>7, <1>8, <1>9, <1>10, <1>11, <1>12, <1>13, <1>14,
     <1>15, <1>16, <1>17, <1>18, <1>19, <1>20, <1>21, <1>22, <1>23, <1>24
     DEF Next, Dials, Sending, Serving, Verifying

(* Every step moves calls as CallMove says. *)
LEMMA CallMoves ==
  ASSUME TypeOK, [Next]_vars
  PROVE  \A t \in Sends : CallMove(t)
<1>t. /\ handled \subseteq Sends
      /\ \A c \in Conns : in[c] \in Verdicts /\ out[c] \in Verdicts /\ link[c] \in {"unused", "open", "closed"}
      /\ DOMAIN in = Conns /\ DOMAIN out = Conns /\ DOMAIN link = Conns
  BY Typing
<1>s. \A k \in Streams : Sender(k) \in Sends
  BY StreamNames
<1>1. ASSUME NEW s \in Sends, Send(s) PROVE \A t \in Sends : CallMove(t)
  <2>1. call[s].pc = "idle"
    BY <1>1 DEF Send
  <2>2. Goes(s, "dialing") \/ Goes(s, "joined")
    BY <1>1 DEF Send
  <2> QED
    BY <2>1, <2>2, GoesEffect DEF CallMove, Unconnected
<1>2. ASSUME NEW c \in Conns, DialConnects(c) PROVE \A t \in Sends : CallMove(t)
  BY <1>2, DialConnectsEffect DEF CallMove, Unconnected, Dialing
<1>3. ASSUME DialRetries PROVE \A t \in Sends : CallMove(t)
  BY <1>3 DEF CallMove, DialRetries
<1>4. ASSUME DialFails PROVE \A t \in Sends : CallMove(t)
  BY <1>4, DialFailsEffect DEF CallMove, Unconnected, Dialing
<1>5. ASSUME NEW s \in Sends, OpensHandshake(s) PROVE \A t \in Sends : CallMove(t)
  <2>1. Goes(s, "signing")
    BY <1>5 DEF OpensHandshake
  <2>2. call[s].pc = "opening"
    BY <1>5 DEF OpensHandshake
  <2> QED
    BY <2>1, <2>2, GoesEffect DEF CallMove, Unconnected
<1>6. ASSUME NEW s \in Sends, Signs(s) PROVE \A t \in Sends : CallMove(t)
  <2>1. Goes(s, "handshaking")
    BY <1>6 DEF Signs
  <2>2. call[s].pc = "signing"
    BY <1>6 DEF Signs
  <2> QED
    BY <2>1, <2>2, GoesEffect DEF CallMove, Unconnected
<1>7. ASSUME NEW s \in Sends, HandshakeAnswered(s) PROVE \A t \in Sends : CallMove(t)
  <2>1. Goes(s, "verifying")
    BY <1>7 DEF HandshakeAnswered
  <2>2. call[s].pc = "handshaking"
    BY <1>7 DEF HandshakeAnswered
  <2> QED
    BY <2>1, <2>2, GoesEffect DEF CallMove, Unconnected
<1>8. ASSUME NEW s \in Sends, NEW ok \in BOOLEAN, PeerVerified(s, ok) PROVE \A t \in Sends : CallMove(t)
  <2>1. Goes(s, IF ok THEN "admitted" ELSE "denied")
    BY <1>8 DEF PeerVerified
  <2>2. call[s].pc = "verifying"
    BY <1>8 DEF PeerVerified
  <2>3. ok => call[s].conn \in trusted'
    BY <1>8 DEF PeerVerified
  <2> QED
    BY <2>1, <2>2, <2>3, GoesEffect DEF CallMove, Unconnected
<1>9. ASSUME NEW s \in Sends, OpensRequest(s) PROVE \A t \in Sends : CallMove(t)
  <2>1. Goes(s, "requesting")
    BY <1>9 DEF OpensRequest
  <2>2. call[s].pc = "admitted"
    BY <1>9 DEF OpensRequest
  <2> QED
    BY <2>1, <2>2, GoesEffect DEF CallMove, Unconnected
<1>10. ASSUME NEW s \in Sends, RequestAnswered(s) PROVE \A t \in Sends : CallMove(t)
  <2>1. Goes(s, "response")
    BY <1>10 DEF RequestAnswered
  <2>2. call[s].pc = "requesting" /\ stream[Request(s)].reply = "response"
    BY <1>10 DEF RequestAnswered
  <2> QED
    BY <2>1, <2>2, GoesEffect DEF CallMove, Unconnected
<1>11. ASSUME NEW s \in Sends, RequestTimesOut(s) PROVE \A t \in Sends : CallMove(t)
  <2>1. Goes(s, "timeout")
    BY <1>11 DEF RequestTimesOut
  <2>2. call[s].pc = "requesting"
    BY <1>11 DEF RequestTimesOut
  <2> QED
    BY <2>1, <2>2, GoesEffect DEF CallMove, Unconnected
<1>12. ASSUME NEW s \in Sends, SendFails(s) PROVE \A t \in Sends : CallMove(t)
  <2>1. Goes(s, "error")
    BY <1>12 DEF SendFails
  <2>2. call[s].pc \notin Unconnected \union {"error"}
    BY <1>12 DEF SendFails, Unconnected
  <2> QED
    BY <2>1, <2>2, GoesEffect DEF CallMove, Unconnected
<1>13. ASSUME NEW k \in Streams, Arrives(k) PROVE \A t \in Sends : CallMove(t)
  BY <1>13 DEF CallMove, Arrives
<1>14. ASSUME NEW k \in Streams, ReadsCapability(k) PROVE \A t \in Sends : CallMove(t)
  BY <1>14 DEF CallMove, ReadsCapability
<1>15. ASSUME NEW k \in Streams, NEW ok \in BOOLEAN, Verifies(k, ok) PROVE \A t \in Sends : CallMove(t)
  BY <1>15 DEF CallMove, Verifies
<1>16. ASSUME NEW k \in Streams, VerifierThrows(k) PROVE \A t \in Sends : CallMove(t)
  BY <1>16 DEF CallMove, VerifierThrows
<1>17. ASSUME NEW k \in Streams, Records(k) PROVE \A t \in Sends : CallMove(t)
  BY <1>17 DEF CallMove, Records
<1>18. ASSUME NEW k \in Streams, ReadsRequest(k) PROVE \A t \in Sends : CallMove(t)
  BY <1>18 DEF CallMove, ReadsRequest
<1>19. ASSUME NEW k \in Streams, HandlerAnswers(k) PROVE \A t \in Sends : CallMove(t)
  BY <1>19 DEF CallMove, HandlerAnswers
<1>20. ASSUME NEW c \in Conns, ConnectionLost(c) PROVE \A t \in Sends : CallMove(t)
  <2>1. Closes(c)
    BY <1>20 DEF ConnectionLost
  <2> QED
    BY <2>1, ClosesEffect DEF CallMove, Unconnected
<1>21. ASSUME NEW c \in Conns, IdleElapses(c) PROVE \A t \in Sends : CallMove(t)
  BY <1>21 DEF CallMove, IdleElapses
<1>22. ASSUME Sweeps PROVE \A t \in Sends : CallMove(t)
  BY <1>22 DEF CallMove, Sweeps
<1>23. ASSUME NEW c \in Conns, SweepCloses(c) PROVE \A t \in Sends : CallMove(t)
  <2>1. Closes(c)
    BY <1>23 DEF SweepCloses
  <2> QED
    BY <2>1, ClosesEffect DEF CallMove, Unconnected
<1>24. CASE UNCHANGED vars
  BY <1>24, <1>s DEF vars, CallMove
<1> QED
  BY <1>1, <1>2, <1>3, <1>4, <1>5, <1>6, <1>7, <1>8, <1>9, <1>10, <1>11, <1>12, <1>13, <1>14,
     <1>15, <1>16, <1>17, <1>18, <1>19, <1>20, <1>21, <1>22, <1>23, <1>24
  DEF Next, Dials, Sending, Serving, Verifying

(* Every step moves streams as StreamMove says. *)
LEMMA StreamMoves ==
  ASSUME TypeOK, Wired, [Next]_vars
  PROVE  \A j \in Streams : StreamMove(j)
<1>t. /\ handled \subseteq Sends
      /\ \A c \in Conns : in[c] \in Verdicts /\ out[c] \in Verdicts /\ link[c] \in {"unused", "open", "closed"}
      /\ DOMAIN in = Conns /\ DOMAIN out = Conns /\ DOMAIN link = Conns
  BY Typing
<1>s. \A k \in Streams : Sender(k) \in Sends
  BY StreamNames
<1>1. ASSUME NEW s \in Sends, Send(s) PROVE \A j \in Streams : StreamMove(j)
  BY <1>1 DEF StreamMove, Send
<1>2. ASSUME NEW c \in Conns, DialConnects(c) PROVE \A j \in Streams : StreamMove(j)
  BY <1>2 DEF StreamMove, DialConnects
<1>3. ASSUME DialRetries PROVE \A j \in Streams : StreamMove(j)
  BY <1>3 DEF StreamMove, DialRetries
<1>4. ASSUME DialFails PROVE \A j \in Streams : StreamMove(j)
  BY <1>4 DEF StreamMove, DialFails
<1>5. ASSUME NEW s \in Sends, OpensHandshake(s) PROVE \A j \in Streams : StreamMove(j)
  <2>1. call[s].pc = "opening"
    BY <1>5 DEF OpensHandshake
  <2> QED
    BY <1>5, <2>1, OpensHandshakeEffect, StreamNames DEF StreamMove
<1>6. ASSUME NEW s \in Sends, Signs(s) PROVE \A j \in Streams : StreamMove(j)
  BY <1>6, SignsEffect, StreamNames DEF StreamMove
<1>7. ASSUME NEW s \in Sends, HandshakeAnswered(s) PROVE \A j \in Streams : StreamMove(j)
  BY <1>7 DEF StreamMove, HandshakeAnswered
<1>8. ASSUME NEW s \in Sends, NEW ok \in BOOLEAN, PeerVerified(s, ok) PROVE \A j \in Streams : StreamMove(j)
  BY <1>8 DEF StreamMove, PeerVerified
<1>9. ASSUME NEW s \in Sends, OpensRequest(s) PROVE \A j \in Streams : StreamMove(j)
  <2>1. call[s].pc = "admitted"
    BY <1>9 DEF OpensRequest
  <2> QED
    BY <1>9, <2>1, OpensRequestEffect, StreamNames DEF StreamMove
<1>10. ASSUME NEW s \in Sends, RequestAnswered(s) PROVE \A j \in Streams : StreamMove(j)
  BY <1>10 DEF StreamMove, RequestAnswered
<1>11. ASSUME NEW s \in Sends, RequestTimesOut(s) PROVE \A j \in Streams : StreamMove(j)
  BY <1>11 DEF StreamMove, RequestTimesOut
<1>12. ASSUME NEW s \in Sends, SendFails(s) PROVE \A j \in Streams : StreamMove(j)
  BY <1>12 DEF StreamMove, SendFails
<1>13. ASSUME NEW k \in Streams, Arrives(k) PROVE \A j \in Streams : StreamMove(j)
  <2>1. stream[k].pc # "none"
    BY <1>13 DEF Arrives
  <2>2. in[ConnOf(k)] \in Verdicts => \/ Serves(k, "handshaking")
                                      \/ Serves(k, "serving") /\ in[ConnOf(k)] = "accepted"
                                      \/ Serves(k, "closed")
    BY <1>13 DEF Arrives, Verdicts
  <2>3. ConnOf(k) \in Conns
    BY <2>1 DEF Wired
  <2> QED
    BY <2>1, <2>2, <2>3, <1>t, ServesEffect DEF StreamMove
<1>14. ASSUME NEW k \in Streams, ReadsCapability(k) PROVE \A j \in Streams : StreamMove(j)
  <2>1. Serves(k, "verifying") /\ stream[k].pc # "none"
    BY <1>14 DEF ReadsCapability
  <2> QED
    BY <2>1, ServesEffect DEF StreamMove
<1>15. ASSUME NEW k \in Streams, NEW ok \in BOOLEAN, Verifies(k, ok) PROVE \A j \in Streams : StreamMove(j)
  <2>1. stream[k].pc = "verifying" /\ (ok => ConnOf(k) \in vouched')
    BY <1>15 DEF Verifies
  <2> QED
    BY <1>15, <2>1, VerifiesEffect DEF StreamMove
<1>16. ASSUME NEW k \in Streams, VerifierThrows(k) PROVE \A j \in Streams : StreamMove(j)
  <2>1. Serves(k, "closed") /\ stream[k].pc # "none"
    BY <1>16 DEF VerifierThrows
  <2> QED
    BY <2>1, ServesEffect DEF StreamMove
<1>17. ASSUME NEW k \in Streams, Records(k) PROVE \A j \in Streams : StreamMove(j)
  <2>1. Serves(k, IF stream[k].ok THEN "done" ELSE "closed") /\ stream[k].pc # "none"
    BY <1>17 DEF Records
  <2> QED
    BY <2>1, ServesEffect DEF StreamMove
<1>18. ASSUME NEW k \in Streams, ReadsRequest(k) PROVE \A j \in Streams : StreamMove(j)
  <2>1. stream[k].pc = "serving"
    BY <1>18 DEF ReadsRequest
  <2>2. \/ Serves(k, "closed")
        \/ Serves(k, "handling") /\ stream[k].msg = "request" /\ Sender(k) \in handled'
    BY <1>18 DEF ReadsRequest
  <2> QED
    BY <2>1, <2>2, ServesEffect DEF StreamMove
<1>19. ASSUME NEW k \in Streams, HandlerAnswers(k) PROVE \A j \in Streams : StreamMove(j)
  <2>1. stream[k].pc = "handling"
    BY <1>19 DEF HandlerAnswers
  <2> QED
    BY <1>19, <2>1, HandlerAnswersEffect, StreamNames DEF StreamMove
<1>20. ASSUME NEW c \in Conns, ConnectionLost(c) PROVE \A j \in Streams : StreamMove(j)
  <2>1. Closes(c)
    BY <1>20 DEF ConnectionLost
  <2> QED
    BY <2>1, ClosesEffect DEF StreamMove
<1>21. ASSUME NEW c \in Conns, IdleElapses(c) PROVE \A j \in Streams : StreamMove(j)
  BY <1>21 DEF StreamMove, IdleElapses
<1>22. ASSUME Sweeps PROVE \A j \in Streams : StreamMove(j)
  BY <1>22 DEF StreamMove, Sweeps
<1>23. ASSUME NEW c \in Conns, SweepCloses(c) PROVE \A j \in Streams : StreamMove(j)
  <2>1. Closes(c)
    BY <1>23 DEF SweepCloses
  <2> QED
    BY <2>1, ClosesEffect DEF StreamMove
<1>24. CASE UNCHANGED vars
  BY <1>24, <1>s DEF vars, StreamMove
<1> QED
  BY <1>1, <1>2, <1>3, <1>4, <1>5, <1>6, <1>7, <1>8, <1>9, <1>10, <1>11, <1>12, <1>13, <1>14,
     <1>15, <1>16, <1>17, <1>18, <1>19, <1>20, <1>21, <1>22, <1>23, <1>24
  DEF Next, Dials, Sending, Serving, Verifying

(* Every step moves verdicts as VerdictsMove says. *)
LEMMA VerdictMoves ==
  ASSUME TypeOK, [Next]_vars
  PROVE  VerdictsMove
<1>t. /\ handled \subseteq Sends
      /\ \A c \in Conns : in[c] \in Verdicts /\ out[c] \in Verdicts /\ link[c] \in {"unused", "open", "closed"}
      /\ DOMAIN in = Conns /\ DOMAIN out = Conns /\ DOMAIN link = Conns
  BY Typing
<1>s. \A k \in Streams : Sender(k) \in Sends
  BY StreamNames
<1>1. ASSUME NEW s \in Sends, Send(s) PROVE VerdictsMove
  BY <1>1 DEF VerdictsMove, Send
<1>2. ASSUME NEW c \in Conns, DialConnects(c) PROVE VerdictsMove
  BY <1>2 DEF VerdictsMove, DialConnects
<1>3. ASSUME DialRetries PROVE VerdictsMove
  BY <1>3 DEF VerdictsMove, DialRetries
<1>4. ASSUME DialFails PROVE VerdictsMove
  BY <1>4 DEF VerdictsMove, DialFails
<1>5. ASSUME NEW s \in Sends, OpensHandshake(s) PROVE VerdictsMove
  BY <1>5 DEF VerdictsMove, OpensHandshake
<1>6. ASSUME NEW s \in Sends, Signs(s) PROVE VerdictsMove
  BY <1>6 DEF VerdictsMove, Signs
<1>7. ASSUME NEW s \in Sends, HandshakeAnswered(s) PROVE VerdictsMove
  BY <1>7 DEF VerdictsMove, HandshakeAnswered
<1>8. ASSUME NEW s \in Sends, NEW ok \in BOOLEAN, PeerVerified(s, ok) PROVE VerdictsMove
  <2>1. out' = [out EXCEPT ![call[s].conn] = Verdict(ok)] /\ (ok => call[s].conn \in trusted')
    BY <1>8 DEF PeerVerified
  <2>2. UNCHANGED <<in, vouched>> /\ trusted \subseteq trusted'
    BY <1>8 DEF PeerVerified
  <2> QED
    BY <2>1, <2>2, <1>t DEF VerdictsMove, Verdict
<1>9. ASSUME NEW s \in Sends, OpensRequest(s) PROVE VerdictsMove
  BY <1>9 DEF VerdictsMove, OpensRequest
<1>10. ASSUME NEW s \in Sends, RequestAnswered(s) PROVE VerdictsMove
  BY <1>10 DEF VerdictsMove, RequestAnswered
<1>11. ASSUME NEW s \in Sends, RequestTimesOut(s) PROVE VerdictsMove
  BY <1>11 DEF VerdictsMove, RequestTimesOut
<1>12. ASSUME NEW s \in Sends, SendFails(s) PROVE VerdictsMove
  BY <1>12 DEF VerdictsMove, SendFails
<1>13. ASSUME NEW k \in Streams, Arrives(k) PROVE VerdictsMove
  BY <1>13 DEF VerdictsMove, Arrives
<1>14. ASSUME NEW k \in Streams, ReadsCapability(k) PROVE VerdictsMove
  BY <1>14 DEF VerdictsMove, ReadsCapability
<1>15. ASSUME NEW k \in Streams, NEW ok \in BOOLEAN, Verifies(k, ok) PROVE VerdictsMove
  BY <1>15 DEF VerdictsMove, Verifies
<1>16. ASSUME NEW k \in Streams, VerifierThrows(k) PROVE VerdictsMove
  BY <1>16 DEF VerdictsMove, VerifierThrows
<1>17. ASSUME NEW k \in Streams, Records(k) PROVE VerdictsMove
  <2>1. stream[k].pc = "recording" /\ in' = [in EXCEPT ![ConnOf(k)] = Verdict(stream[k].ok)]
    BY <1>17 DEF Records
  <2>2. UNCHANGED <<out, vouched, trusted>>
    BY <1>17 DEF Records
  <2> QED
    BY <2>1, <2>2, <1>t DEF VerdictsMove, Verdict
<1>18. ASSUME NEW k \in Streams, ReadsRequest(k) PROVE VerdictsMove
  BY <1>18 DEF VerdictsMove, ReadsRequest
<1>19. ASSUME NEW k \in Streams, HandlerAnswers(k) PROVE VerdictsMove
  BY <1>19 DEF VerdictsMove, HandlerAnswers
<1>20. ASSUME NEW c \in Conns, ConnectionLost(c) PROVE VerdictsMove
  BY <1>20 DEF VerdictsMove, ConnectionLost
<1>21. ASSUME NEW c \in Conns, IdleElapses(c) PROVE VerdictsMove
  BY <1>21 DEF VerdictsMove, IdleElapses
<1>22. ASSUME Sweeps PROVE VerdictsMove
  BY <1>22 DEF VerdictsMove, Sweeps
<1>23. ASSUME NEW c \in Conns, SweepCloses(c) PROVE VerdictsMove
  BY <1>23 DEF VerdictsMove, SweepCloses
<1>24. CASE UNCHANGED vars
  BY <1>24, <1>s DEF vars, VerdictsMove
<1> QED
  BY <1>1, <1>2, <1>3, <1>4, <1>5, <1>6, <1>7, <1>8, <1>9, <1>10, <1>11, <1>12, <1>13, <1>14,
     <1>15, <1>16, <1>17, <1>18, <1>19, <1>20, <1>21, <1>22, <1>23, <1>24
  DEF Next, Dials, Sending, Serving, Verifying

(* Requests reach the handler one at a time. *)
LEMMA HandledMoves ==
  ASSUME TypeOK, [Next]_vars
  PROVE  HandledMove
<1>t. /\ handled \subseteq Sends
      /\ \A c \in Conns : in[c] \in Verdicts /\ out[c] \in Verdicts /\ link[c] \in {"unused", "open", "closed"}
      /\ DOMAIN in = Conns /\ DOMAIN out = Conns /\ DOMAIN link = Conns
  BY Typing
<1>s. \A k \in Streams : Sender(k) \in Sends
  BY StreamNames
<1>1. ASSUME NEW s \in Sends, Send(s) PROVE HandledMove
  BY <1>1 DEF HandledMove, Send
<1>2. ASSUME NEW c \in Conns, DialConnects(c) PROVE HandledMove
  BY <1>2 DEF HandledMove, DialConnects
<1>3. ASSUME DialRetries PROVE HandledMove
  BY <1>3 DEF HandledMove, DialRetries
<1>4. ASSUME DialFails PROVE HandledMove
  BY <1>4 DEF HandledMove, DialFails
<1>5. ASSUME NEW s \in Sends, OpensHandshake(s) PROVE HandledMove
  BY <1>5 DEF HandledMove, OpensHandshake
<1>6. ASSUME NEW s \in Sends, Signs(s) PROVE HandledMove
  BY <1>6 DEF HandledMove, Signs
<1>7. ASSUME NEW s \in Sends, HandshakeAnswered(s) PROVE HandledMove
  BY <1>7 DEF HandledMove, HandshakeAnswered
<1>8. ASSUME NEW s \in Sends, NEW ok \in BOOLEAN, PeerVerified(s, ok) PROVE HandledMove
  BY <1>8 DEF HandledMove, PeerVerified
<1>9. ASSUME NEW s \in Sends, OpensRequest(s) PROVE HandledMove
  BY <1>9 DEF HandledMove, OpensRequest
<1>10. ASSUME NEW s \in Sends, RequestAnswered(s) PROVE HandledMove
  BY <1>10 DEF HandledMove, RequestAnswered
<1>11. ASSUME NEW s \in Sends, RequestTimesOut(s) PROVE HandledMove
  BY <1>11 DEF HandledMove, RequestTimesOut
<1>12. ASSUME NEW s \in Sends, SendFails(s) PROVE HandledMove
  BY <1>12 DEF HandledMove, SendFails
<1>13. ASSUME NEW k \in Streams, Arrives(k) PROVE HandledMove
  BY <1>13 DEF HandledMove, Arrives
<1>14. ASSUME NEW k \in Streams, ReadsCapability(k) PROVE HandledMove
  BY <1>14 DEF HandledMove, ReadsCapability
<1>15. ASSUME NEW k \in Streams, NEW ok \in BOOLEAN, Verifies(k, ok) PROVE HandledMove
  BY <1>15 DEF HandledMove, Verifies
<1>16. ASSUME NEW k \in Streams, VerifierThrows(k) PROVE HandledMove
  BY <1>16 DEF HandledMove, VerifierThrows
<1>17. ASSUME NEW k \in Streams, Records(k) PROVE HandledMove
  BY <1>17 DEF HandledMove, Records
<1>18. ASSUME NEW k \in Streams, ReadsRequest(k) PROVE HandledMove
  BY <1>18 DEF HandledMove, ReadsRequest
<1>19. ASSUME NEW k \in Streams, HandlerAnswers(k) PROVE HandledMove
  BY <1>19 DEF HandledMove, HandlerAnswers
<1>20. ASSUME NEW c \in Conns, ConnectionLost(c) PROVE HandledMove
  BY <1>20 DEF HandledMove, ConnectionLost
<1>21. ASSUME NEW c \in Conns, IdleElapses(c) PROVE HandledMove
  BY <1>21 DEF HandledMove, IdleElapses
<1>22. ASSUME Sweeps PROVE HandledMove
  BY <1>22 DEF HandledMove, Sweeps
<1>23. ASSUME NEW c \in Conns, SweepCloses(c) PROVE HandledMove
  BY <1>23 DEF HandledMove, SweepCloses
<1>24. CASE UNCHANGED vars
  BY <1>24, <1>s DEF vars, HandledMove
<1> QED
  BY <1>1, <1>2, <1>3, <1>4, <1>5, <1>6, <1>7, <1>8, <1>9, <1>10, <1>11, <1>12, <1>13, <1>14,
     <1>15, <1>16, <1>17, <1>18, <1>19, <1>20, <1>21, <1>22, <1>23, <1>24
  DEF Next, Dials, Sending, Serving, Verifying

(* A dial keeps its owner until it settles for all that wait for it. *)
LEMMA DialStep ==
  ASSUME TypeOK, OneDialForAll, [Next]_vars
  PROVE  OneDialForAll'
<1>t. /\ handled \subseteq Sends
      /\ \A c \in Conns : in[c] \in Verdicts /\ out[c] \in Verdicts /\ link[c] \in {"unused", "open", "closed"}
      /\ DOMAIN in = Conns /\ DOMAIN out = Conns /\ DOMAIN link = Conns
  BY Typing
<1>s. \A k \in Streams : Sender(k) \in Sends
  BY StreamNames
<1>1. ASSUME NEW s \in Sends, Send(s) PROVE OneDialForAll'
  <2>1. call[s].pc = "idle"
    BY <1>1 DEF Send
  <2>2. CASE dial.owner = NoSend
    <3>1. Goes(s, "dialing") /\ dial' = [owner |-> s, failed |-> 0]
      BY <1>1, <2>2 DEF Send
    <3> QED
      BY <2>1, <2>2, <3>1, GoesEffect, ConnectionParameters DEF OneDialForAll
  <2>3. CASE dial.owner # NoSend
    <3>1. Goes(s, "joined") /\ dial' = dial
      BY <1>1, <2>3 DEF Send
    <3> QED
      BY <2>1, <2>3, <3>1, GoesEffect DEF OneDialForAll
  <2> QED
    BY <2>2, <2>3
<1>2. ASSUME NEW c \in Conns, DialConnects(c) PROVE OneDialForAll'
  <2>1. dial'.owner = NoSend
    BY <1>2 DEF DialConnects
  <2>2. \A t \in Sends : call'[t].pc \notin {"dialing", "joined"}
    BY <1>2, DialConnectsEffect DEF Dialing
  <2> QED
    BY <2>1, <2>2, ConnectionParameters DEF OneDialForAll
<1>3. ASSUME DialRetries PROVE OneDialForAll'
  BY <1>3, <1>t, <1>s
  DEF DialRetries, OneDialForAll, Dialing
<1>4. ASSUME DialFails PROVE OneDialForAll'
  <2>1. dial'.owner = NoSend
    BY <1>4 DEF DialFails
  <2>2. \A t \in Sends : call'[t].pc \notin {"dialing", "joined"}
    BY <1>4, DialFailsEffect DEF Dialing
  <2> QED
    BY <2>1, <2>2, ConnectionParameters DEF OneDialForAll
<1>5. ASSUME NEW s \in Sends, OpensHandshake(s) PROVE OneDialForAll'
  <2>1. Goes(s, "signing") /\ dial' = dial
    BY <1>5 DEF OpensHandshake
  <2>2. call[s].pc = "opening"
    BY <1>5 DEF OpensHandshake
  <2>3. \A t \in Sends : /\ call'[t].pc = "dialing" <=> call[t].pc = "dialing"
                         /\ call'[t].pc = "joined" <=> call[t].pc = "joined"
    BY <2>1, <2>2, GoesEffect DEF Unconnected
  <2> QED
    BY <2>1, <2>3 DEF OneDialForAll
<1>6. ASSUME NEW s \in Sends, Signs(s) PROVE OneDialForAll'
  <2>1. Goes(s, "handshaking") /\ dial' = dial
    BY <1>6 DEF Signs
  <2>2. call[s].pc = "signing"
    BY <1>6 DEF Signs
  <2>3. \A t \in Sends : /\ call'[t].pc = "dialing" <=> call[t].pc = "dialing"
                         /\ call'[t].pc = "joined" <=> call[t].pc = "joined"
    BY <2>1, <2>2, GoesEffect DEF Unconnected
  <2> QED
    BY <2>1, <2>3 DEF OneDialForAll
<1>7. ASSUME NEW s \in Sends, HandshakeAnswered(s) PROVE OneDialForAll'
  <2>1. Goes(s, "verifying") /\ dial' = dial
    BY <1>7 DEF HandshakeAnswered
  <2>2. call[s].pc = "handshaking"
    BY <1>7 DEF HandshakeAnswered
  <2>3. \A t \in Sends : /\ call'[t].pc = "dialing" <=> call[t].pc = "dialing"
                         /\ call'[t].pc = "joined" <=> call[t].pc = "joined"
    BY <2>1, <2>2, GoesEffect DEF Unconnected
  <2> QED
    BY <2>1, <2>3 DEF OneDialForAll
<1>8. ASSUME NEW s \in Sends, NEW ok \in BOOLEAN, PeerVerified(s, ok) PROVE OneDialForAll'
  <2>1. Goes(s, IF ok THEN "admitted" ELSE "denied") /\ dial' = dial
    BY <1>8 DEF PeerVerified
  <2>2. call[s].pc = "verifying"
    BY <1>8 DEF PeerVerified
  <2>3. \A t \in Sends : /\ call'[t].pc = "dialing" <=> call[t].pc = "dialing"
                         /\ call'[t].pc = "joined" <=> call[t].pc = "joined"
    BY <2>1, <2>2, GoesEffect DEF Unconnected
  <2> QED
    BY <2>1, <2>3 DEF OneDialForAll
<1>9. ASSUME NEW s \in Sends, OpensRequest(s) PROVE OneDialForAll'
  <2>1. Goes(s, "requesting") /\ dial' = dial
    BY <1>9 DEF OpensRequest
  <2>2. call[s].pc = "admitted"
    BY <1>9 DEF OpensRequest
  <2>3. \A t \in Sends : /\ call'[t].pc = "dialing" <=> call[t].pc = "dialing"
                         /\ call'[t].pc = "joined" <=> call[t].pc = "joined"
    BY <2>1, <2>2, GoesEffect DEF Unconnected
  <2> QED
    BY <2>1, <2>3 DEF OneDialForAll
<1>10. ASSUME NEW s \in Sends, RequestAnswered(s) PROVE OneDialForAll'
  <2>1. Goes(s, "response") /\ dial' = dial
    BY <1>10 DEF RequestAnswered
  <2>2. call[s].pc = "requesting" /\ stream[Request(s)].reply = "response"
    BY <1>10 DEF RequestAnswered
  <2>3. \A t \in Sends : /\ call'[t].pc = "dialing" <=> call[t].pc = "dialing"
                         /\ call'[t].pc = "joined" <=> call[t].pc = "joined"
    BY <2>1, <2>2, GoesEffect DEF Unconnected
  <2> QED
    BY <2>1, <2>3 DEF OneDialForAll
<1>11. ASSUME NEW s \in Sends, RequestTimesOut(s) PROVE OneDialForAll'
  <2>1. Goes(s, "timeout") /\ dial' = dial
    BY <1>11 DEF RequestTimesOut
  <2>2. call[s].pc = "requesting"
    BY <1>11 DEF RequestTimesOut
  <2>3. \A t \in Sends : /\ call'[t].pc = "dialing" <=> call[t].pc = "dialing"
                         /\ call'[t].pc = "joined" <=> call[t].pc = "joined"
    BY <2>1, <2>2, GoesEffect DEF Unconnected
  <2> QED
    BY <2>1, <2>3 DEF OneDialForAll
<1>12. ASSUME NEW s \in Sends, SendFails(s) PROVE OneDialForAll'
  <2>1. Goes(s, "error") /\ dial' = dial
    BY <1>12 DEF SendFails
  <2>2. call[s].pc \notin Unconnected \union {"error"}
    BY <1>12 DEF SendFails, Unconnected
  <2>3. \A t \in Sends : /\ call'[t].pc = "dialing" <=> call[t].pc = "dialing"
                         /\ call'[t].pc = "joined" <=> call[t].pc = "joined"
    BY <2>1, <2>2, GoesEffect DEF Unconnected
  <2> QED
    BY <2>1, <2>3 DEF OneDialForAll
<1>13. ASSUME NEW k \in Streams, Arrives(k) PROVE OneDialForAll'
  BY <1>13, <1>t, <1>s, ServesEffect
  DEF Arrives, OneDialForAll, Dialing
<1>14. ASSUME NEW k \in Streams, ReadsCapability(k) PROVE OneDialForAll'
  BY <1>14, <1>t, <1>s, ServesEffect
  DEF ReadsCapability, OneDialForAll, Dialing
<1>15. ASSUME NEW k \in Streams, NEW ok \in BOOLEAN, Verifies(k, ok) PROVE OneDialForAll'
  BY <1>15, <1>t, <1>s, VerifiesEffect
  DEF Verifies, OneDialForAll, Dialing
<1>16. ASSUME NEW k \in Streams, VerifierThrows(k) PROVE OneDialForAll'
  BY <1>16, <1>t, <1>s, ServesEffect
  DEF VerifierThrows, OneDialForAll, Dialing
<1>17. ASSUME NEW k \in Streams, Records(k) PROVE OneDialForAll'
  BY <1>17, <1>t, <1>s, ServesEffect
  DEF Records, OneDialForAll, Dialing
<1>18. ASSUME NEW k \in Streams, ReadsRequest(k) PROVE OneDialForAll'
  BY <1>18, <1>t, <1>s, ServesEffect
  DEF ReadsRequest, OneDialForAll, Dialing
<1>19. ASSUME NEW k \in Streams, HandlerAnswers(k) PROVE OneDialForAll'
  BY <1>19, <1>t, <1>s, HandlerAnswersEffect
  DEF HandlerAnswers, OneDialForAll, Dialing
<1>20. ASSUME NEW c \in Conns, ConnectionLost(c) PROVE OneDialForAll'
  BY <1>20, <1>t, <1>s, ClosesEffect
  DEF ConnectionLost, Closes, OneDialForAll, Dialing
<1>21. ASSUME NEW c \in Conns, IdleElapses(c) PROVE OneDialForAll'
  BY <1>21, <1>t, <1>s
  DEF IdleElapses, OneDialForAll, Dialing
<1>22. ASSUME Sweeps PROVE OneDialForAll'
  BY <1>22, <1>t, <1>s
  DEF Sweeps, OneDialForAll, Dialing
<1>23. ASSUME NEW c \in Conns, SweepCloses(c) PROVE OneDialForAll'
  BY <1>23, <1>t, <1>s, ClosesEffect
  DEF SweepCloses, Closes, OneDialForAll, Dialing
<1>24. CASE UNCHANGED vars
  BY <1>24, <1>s DEF vars, OneDialForAll
<1> QED
  BY <1>1, <1>2, <1>3, <1>4, <1>5, <1>6, <1>7, <1>8, <1>9, <1>10, <1>11, <1>12, <1>13, <1>14,
     <1>15, <1>16, <1>17, <1>18, <1>19, <1>20, <1>21, <1>22, <1>23, <1>24
  DEF Next, Dials, Sending, Serving, Verifying

LEMMA StepMoves ==
  ASSUME TypeOK, Wired, [Next]_vars
  PROVE  Moves
  BY CallMoves, StreamMoves, VerdictMoves, HandledMoves DEF Moves

(* Calls keep the connection they opened streams on. *)
LEMMA ConnKept ==
  ASSUME Wired, Moves
  PROVE  /\ \A s \in Sends : call[s].pc \notin Unconnected =>
              call'[s].pc \notin Unconnected /\ call'[s].conn = call[s].conn
         /\ \A k \in Streams : stream[k].pc # "none" => ConnOf(k)' = ConnOf(k)
<1>1. ASSUME NEW s \in Sends, call[s].pc \notin Unconnected
      PROVE  call'[s].pc \notin Unconnected /\ call'[s].conn = call[s].conn
  BY <1>1 DEF Moves, CallMove
<1>2. ASSUME NEW k \in Streams, stream[k].pc # "none"
      PROVE  ConnOf(k)' = ConnOf(k)
  <2>1. Sender(k) \in Sends
    BY StreamNames
  <2>2. call[Sender(k)].pc \notin Unconnected
    BY <1>2 DEF Wired
  <2> QED
    BY <2>1, <2>2, <1>1 DEF ConnOf
<1> QED BY <1>1, <1>2

LEMMA WiredStep ==
  ASSUME TypeOK, Wired, Moves
  PROVE  Wired'
<1>1. ASSUME NEW k \in Streams, call'[Sender(k)].pc \in Unconnected
      PROVE  stream'[k].pc = "none"
  <2>1. Sender(k) \in Sends
    BY StreamNames
  <2>2. call[Sender(k)].pc \in Unconnected
    BY <1>1, <2>1, ConnKept
  <2>3. stream[k].pc = "none"
    BY <2>2 DEF Wired
  <2>4. StreamMove(k)
    BY DEF Moves
  <2> QED
    BY <2>2, <2>3, <2>4 DEF StreamMove, Unconnected
<1>2. ASSUME NEW s \in Sends, call'[s].pc \notin Unconnected \union {"error"}
      PROVE  call'[s].conn \in Conns
  <2>1. CallMove(s)
    BY DEF Moves
  <2> QED
    BY <1>2, <2>1 DEF CallMove, Wired, Unconnected
<1>3. ASSUME NEW k \in Streams, stream'[k].pc # "none"
      PROVE  ConnOf(k)' \in Conns
  <2>1. Sender(k) \in Sends
    BY StreamNames
  <2>2. CASE stream[k].pc # "none"
    BY <2>2, ConnKept DEF Wired
  <2>3. CASE stream[k].pc = "none"
    <3>1. call[Sender(k)].pc \in {"opening", "admitted"}
      BY <1>3, <2>3 DEF Moves, StreamMove
    <3>2. call[Sender(k)].conn \in Conns
      BY <2>1, <3>1 DEF Wired, Unconnected
    <3>3. call'[Sender(k)].conn = call[Sender(k)].conn
      BY <2>1, <3>1, ConnKept DEF Unconnected
    <3> QED
      BY <3>2, <3>3 DEF ConnOf
  <2> QED
    BY <2>2, <2>3
<1>4. ASSUME NEW k \in Streams, stream'[k].msg = "request"
      PROVE  IsRequest(k) /\ stream'[k].pc # "none"
  <2>1. StreamMove(k)
    BY DEF Moves
  <2>2. stream[k].msg = "request" => IsRequest(k) /\ stream[k].pc # "none"
    BY DEF Wired
  <2> QED
    BY <1>4, <2>1, <2>2 DEF StreamMove
<1>5. ASSUME NEW s \in handled'
      PROVE  call'[s].pc \notin Unconnected
  <2>1. handled \subseteq Sends
    BY DEF TypeOK
  <2>2. CASE s \in handled
    BY <2>1, <2>2, ConnKept DEF Wired
  <2>3. CASE s \notin handled
    <3>1. PICK k \in Streams : stream[k].pc = "serving" /\ s = Sender(k)
      BY <1>5, <2>3 DEF Moves, HandledMove
    <3>2. s \in Sends /\ call[s].pc \notin Unconnected
      BY <3>1, StreamNames DEF Wired
    <3> QED
      BY <3>2, ConnKept
  <2> QED
    BY <2>2, <2>3
<1> QED
  BY <1>1, <1>2, <1>3, <1>4, <1>5 DEF Wired

LEMMA VouchedStep ==
  ASSUME TypeOK, Wired, Vouched, Moves
  PROVE  Vouched'
<1>1. vouched \subseteq vouched'
  BY DEF Moves, VerdictsMove
<1>2. ASSUME NEW c \in Conns, in'[c] = "accepted"
      PROVE  c \in vouched'
  BY <1>1, <1>2 DEF Moves, VerdictsMove, Vouched
<1>3. ASSUME NEW k \in Streams,
             stream'[k].pc = "serving" \/ (stream'[k].pc = "recording" /\ stream'[k].ok)
      PROVE  ConnOf(k)' \in vouched'
  <2>1. StreamMove(k)
    BY DEF Moves
  <2>2. stream[k].pc # "none"
    BY <1>3, <2>1 DEF StreamMove
  <2>3. ConnOf(k)' = ConnOf(k) /\ ConnOf(k) \in Conns
    BY <2>2, ConnKept DEF Wired
  <2>4. ConnOf(k) \in vouched'
    BY <1>1, <1>3, <2>1, <2>3 DEF StreamMove, Vouched
  <2> QED
    BY <2>3, <2>4
<1>4. ASSUME NEW s \in handled'
      PROVE  call'[s].conn \in vouched'
  <2>1. handled \subseteq Sends
    BY DEF TypeOK
  <2>2. CASE s \in handled
    BY <1>1, <2>1, <2>2, ConnKept DEF Wired, Vouched
  <2>3. CASE s \notin handled
    <3>1. PICK k \in Streams : stream[k].pc = "serving" /\ s = Sender(k)
      BY <1>4, <2>3 DEF Moves, HandledMove
    <3>2. s \in Sends /\ call[s].pc \notin Unconnected /\ call[s].conn \in vouched
      BY <3>1, StreamNames DEF Wired, Vouched, ConnOf
    <3> QED
      BY <1>1, <3>2, ConnKept
  <2> QED
    BY <2>2, <2>3
<1> QED
  BY <1>2, <1>3, <1>4 DEF Vouched

LEMMA TrustedStep ==
  ASSUME TypeOK, Wired, Trusted, Moves
  PROVE  Trusted'
<1>1. trusted \subseteq trusted'
  BY DEF Moves, VerdictsMove
<1>2. ASSUME NEW c \in Conns, out'[c] = "accepted"
      PROVE  c \in trusted'
  BY <1>1, <1>2 DEF Moves, VerdictsMove, Trusted
<1>3. ASSUME NEW s \in Sends, call'[s].pc = "admitted"
      PROVE  call'[s].conn \in trusted'
  <2>1. CallMove(s)
    BY DEF Moves
  <2> QED
    BY <1>1, <1>3, <2>1 DEF CallMove, Trusted
<1>4. ASSUME NEW k \in Streams, IsRequest(k), stream'[k].pc # "none"
      PROVE  ConnOf(k)' \in trusted'
  <2>1. Sender(k) \in Sends
    BY StreamNames
  <2>2. CASE stream[k].pc # "none"
    BY <1>1, <1>4, <2>2, ConnKept DEF Trusted
  <2>3. CASE stream[k].pc = "none"
    <3>1. call[Sender(k)].pc = "admitted"
      BY <1>4, <2>3 DEF Moves, StreamMove
    <3>2. call'[Sender(k)].conn = call[Sender(k)].conn
      BY <2>1, <3>1, ConnKept DEF Unconnected
    <3> QED
      BY <1>1, <2>1, <3>1, <3>2 DEF ConnOf, Trusted
  <2> QED
    BY <2>2, <2>3
<1>5. ASSUME NEW s \in handled'
      PROVE  call'[s].conn \in trusted'
  <2>1. handled \subseteq Sends
    BY DEF TypeOK
  <2>2. CASE s \in handled
    BY <1>1, <2>1, <2>2, ConnKept DEF Wired, Trusted
  <2>3. CASE s \notin handled
    <3>1. PICK k \in Streams : stream[k].pc = "serving" /\ stream[k].msg = "request" /\ s = Sender(k)
      BY <1>5, <2>3 DEF Moves, HandledMove
    <3>2. s \in Sends /\ call[s].pc \notin Unconnected
      BY <3>1, StreamNames DEF Wired
    <3>3. call[s].conn \in trusted
      BY <3>1 DEF Wired, Trusted, ConnOf
    <3> QED
      BY <1>1, <3>2, <3>3, ConnKept
  <2> QED
    BY <2>2, <2>3
<1> QED
  BY <1>2, <1>3, <1>4, <1>5 DEF Trusted

LEMMA AnsweredStep ==
  ASSUME TypeOK, Wired, Answered, Moves
  PROVE  Answered'
<1>1. handled \subseteq handled'
  BY DEF Moves, HandledMove
<1>2. ASSUME NEW k \in Streams, stream'[k].pc = "handling" \/ stream'[k].reply = "response"
      PROVE  Sender(k) \in handled'
  <2>1. StreamMove(k)
    BY DEF Moves
  <2> QED
    BY <1>1, <1>2, <2>1 DEF StreamMove, Answered
<1>3. ASSUME NEW s \in Sends, call'[s].pc = "response"
      PROVE  s \in handled'
  <2>1. CallMove(s)
    BY DEF Moves
  <2>2. stream[Request(s)].reply = "response" => s \in handled
    BY StreamNames DEF Answered
  <2> QED
    BY <1>1, <1>3, <2>1, <2>2 DEF CallMove, Answered
<1> QED
  BY <1>2, <1>3, StreamNames DEF Answered, Sender

LEMMA StepPreserves == IInv /\ [Next]_vars => IInv'
<1> SUFFICES ASSUME IInv, [Next]_vars
             PROVE  IInv'
  OBVIOUS
<1>1. TypeOK /\ OneDialForAll /\ Wired /\ Vouched /\ Trusted /\ Answered
  BY DEF IInv
<1>2. Moves
  BY <1>1, StepMoves
<1> QED
  BY <1>1, <1>2, TypeStep, DialStep, WiredStep, VouchedStep, TrustedStep, AnsweredStep DEF IInv

(* The inductive invariant holds of every behaviour. *)
THEOREM Invariance == Spec => []IInv
<1>1. Init => IInv
  BY InitEstablishes
<1>2. IInv /\ [Next]_vars => IInv'
  BY StepPreserves
<1> QED
  BY <1>1, <1>2, PTL DEF Spec

(* Every reachable state has its types. *)
THEOREM TypeCorrect == Spec => []TypeOK
<1>1. IInv => TypeOK
  BY DEF IInv
<1> QED
  BY <1>1, Invariance, PTL

(* However many calls share dials, one of them drives the dial that the    *)
(* others wait for, and none waits without a dial (dialer.ts:42-54).       *)
THEOREM DialsAreShared == Spec => []OneDialForAll
<1>1. IInv => OneDialForAll
  BY DEF IInv
<1> QED
  BY <1>1, Invariance, PTL

(* No request reaches the handler on a connection that either end's        *)
(* verifier has not accepted, whatever the verifiers are, however          *)
(* handshakes overlap (transport.ts:130-152, 237-279).                     *)
THEOREM RequestsAreVouchedFor == Spec => []HandledOnlyAfterHandshakes
<1>1. IInv => HandledOnlyAfterHandshakes
  BY DEF IInv, Vouched, Trusted, HandledOnlyAfterHandshakes
<1> QED
  BY <1>1, Invariance, PTL

(* A call returns only what the handler answered to its own request        *)
(* (transport.ts:279-296).                                                 *)
THEOREM ResponsesAreAnswers == Spec => []ResponsesAreTheHandlers
<1>1. IInv => ResponsesAreTheHandlers
  BY DEF IInv, Answered, ResponsesAreTheHandlers
<1> QED
  BY <1>1, Invariance, PTL

(* send and the stream handler: no dial forgets a call, a request is       *)
(* handled only after both ends accepted each other, and its answer is the *)
(* handler's.                                                              *)
THEOREM RequestsAreVouched == Spec => []RequestsVouchedFor
<1>1. TypeOK /\ OneDialForAll /\ HandledOnlyAfterHandshakes /\ ResponsesAreTheHandlers
        => RequestsVouchedFor
  BY DEF RequestsVouchedFor
<1> QED BY <1>1, TypeCorrect, DialsAreShared, RequestsAreVouchedFor, ResponsesAreAnswers, PTL

-----------------------------------------------------------------------------
(* When the ends disagree on what a stream carries.                        *)

Ended(k) == stream[k].pc \in {"done", "closed"}

(* The responder has answered a handshake on c. *)
Shaken(c) ==
  \E k \in Streams : ~ IsRequest(k) /\ ConnOf(k) = c /\ stream[k].reply = "capability"

(* A verdict the initiator knows is about to be recorded or is, unless the *)
(* connection was lost; next to no other handshake a request finds it, and *)
(* the only handshake finds none.                                          *)
Told ==
  /\ \A k \in Streams : stream[k].pc # "none" => link[ConnOf(k)] # "unused"
  /\ \A k \in Streams :
       stream[k].reply = "capability" =>
         \/ stream[k].pc = "recording"
         \/ Ended(k) /\ (in[ConnOf(k)] # "none" \/ link[ConnOf(k)] = "closed")
  /\ \A k \in Streams :
       IsRequest(k) /\ ConnOf(k) \notin contended /\ Unfinished(k) =>
         stream[k].pc = "opened" /\ in[ConnOf(k)] # "none"
  /\ \A c \in Conns \ contended :
       in[c] # "none" => \E k \in Streams : ~ IsRequest(k) /\ ConnOf(k) = c /\ Ended(k)
  /\ \A j, k \in Streams :
       ~ IsRequest(j) /\ ~ IsRequest(k) /\ ConnOf(j) = ConnOf(k) /\ ConnOf(k) \notin contended
         /\ stream[j].pc # "none" /\ stream[k].pc # "none" => j = k
  /\ \A k \in Streams : ~ IsRequest(k) /\ ConnOf(k) \notin contended => stream[k].pc # "serving"

Beginning == {"opening", "signing", "handshaking", "verifying", "admitted"}

(* What the calls know of the handshakes, and what they have not opened.   *)
Known ==
  /\ \A s \in Sends : call[s].pc = "verifying" => stream[Handshake(s)].reply = "capability"
  /\ \A s \in Sends : call[s].pc = "admitted" => Shaken(call[s].conn)
  /\ \A c \in Conns : out[c] = "accepted" => Shaken(c)
  /\ \A s \in Sends : call[s].pc = "opening" => stream[Handshake(s)].pc = "none"
  /\ \A s \in Sends : call[s].pc \in Beginning => stream[Request(s)].pc = "none"

(* What a step that opens no stream may do to one.                         *)
ServeMove(k) ==
  \/ stream'[k].pc = stream[k].pc /\ stream'[k].reply = stream[k].reply
  \/ /\ stream[k].pc = "opened" /\ stream'[k].reply = stream[k].reply
     /\ \/ in[ConnOf(k)] = "none" /\ stream'[k].pc = "handshaking"
        \/ in[ConnOf(k)] = "accepted" /\ stream'[k].pc = "serving"
  \/ /\ stream[k].pc \in {"opened", "handshaking", "verifying", "serving", "handling"}
     /\ stream'[k].pc \in {"closed", "handling"} /\ stream'[k].reply = stream[k].reply
  \/ stream[k].pc = "handshaking" /\ stream'[k].pc = "verifying" /\ stream'[k].reply = stream[k].reply
  \/ stream[k].pc = "verifying" /\ stream'[k].pc = "recording" /\ stream'[k].reply = "capability"
  \/ /\ stream[k].pc = "recording" /\ stream'[k].pc \in {"done", "closed"}
     /\ stream'[k].reply = stream[k].reply
     /\ in'[ConnOf(k)] # "none" \/ link'[ConnOf(k)] = "closed"
  \/ stream[k].pc = "handling" /\ stream'[k].pc = "done" /\ stream'[k].reply = "response"

ServeMoves ==
  /\ \A k \in Streams : ServeMove(k)
  /\ \A c \in Conns :
       \/ in'[c] = in[c]
       \/ in'[c] # "none" /\ \E k \in Streams : ConnOf(k) = c /\ stream[k].pc = "recording"
                                                  /\ stream'[k].pc \in {"done", "closed"}
  /\ \A c \in Conns : /\ link'[c] = "unused" => link[c] = "unused"
                      /\ link[c] = "closed" => link'[c] = "closed"
  /\ contended' = contended

LEMMA TellingStep ==
  ASSUME Wired, Told, Moves, ServeMoves
  PROVE  Told' /\ \A c \in Conns : Shaken(c) => Shaken(c)'
<1>1. \A k \in Streams : stream'[k].pc # "none" <=> stream[k].pc # "none"
  BY DEF ServeMoves, ServeMove
<1>2. \A k \in Streams : stream[k].pc # "none" => ConnOf(k)' = ConnOf(k) /\ ConnOf(k) \in Conns
  BY ConnKept DEF Wired
<1>3. \A c \in Conns : in[c] # "none" => in'[c] # "none"
  BY DEF ServeMoves
<1>4. \A k \in Streams : Ended(k) => Ended(k)' /\ stream'[k].reply = stream[k].reply
  BY DEF ServeMoves, ServeMove, Ended
<1>5. \A k \in Streams : stream'[k].pc # "none" => link'[ConnOf(k)'] # "unused"
  BY <1>1, <1>2 DEF ServeMoves, Told
<1>6. ASSUME NEW k \in Streams, stream'[k].reply = "capability"
      PROVE  \/ stream'[k].pc = "recording"
             \/ Ended(k)' /\ (in'[ConnOf(k)'] # "none" \/ link'[ConnOf(k)'] = "closed")
  <2>1. CASE stream[k].reply = "capability"
    <3>1. stream[k].pc # "none" /\ ConnOf(k)' = ConnOf(k) /\ ConnOf(k) \in Conns
      BY <1>2, <2>1 DEF Told, Ended
    <3>2. CASE stream[k].pc = "recording"
      BY <3>1, <3>2 DEF ServeMoves, ServeMove, Ended
    <3>3. CASE Ended(k) /\ (in[ConnOf(k)] # "none" \/ link[ConnOf(k)] = "closed")
      BY <1>3, <1>4, <3>1, <3>3 DEF ServeMoves
    <3> QED BY <2>1, <3>2, <3>3 DEF Told
  <2>2. CASE stream[k].reply # "capability"
    BY <1>6, <2>2 DEF ServeMoves, ServeMove
  <2> QED BY <2>1, <2>2
<1>7. ASSUME NEW k \in Streams, IsRequest(k), ConnOf(k)' \notin contended', Unfinished(k)'
      PROVE  stream'[k].pc = "opened" /\ in'[ConnOf(k)'] # "none"
  <2>1. stream[k].pc # "none" /\ ConnOf(k)' = ConnOf(k) /\ ConnOf(k) \in Conns /\ ConnOf(k) \notin contended
    BY <1>1, <1>2, <1>7 DEF Unfinished, ServeMoves
  <2>2. Unfinished(k)
    BY <1>7 DEF Unfinished, ServeMoves, ServeMove
  <2>3. stream[k].pc = "opened" /\ in[ConnOf(k)] # "none"
    BY <1>7, <2>1, <2>2 DEF Told
  <2> QED BY <1>3, <1>7, <2>1, <2>3 DEF Unfinished, ServeMoves, ServeMove
<1>8. ASSUME NEW c \in Conns \ contended', in'[c] # "none"
      PROVE  \E k \in Streams : ~ IsRequest(k) /\ ConnOf(k)' = c /\ Ended(k)'
  <2>1. c \notin contended
    BY DEF ServeMoves
  <2>2. CASE in[c] # "none"
    <3>1. PICK k \in Streams : ~ IsRequest(k) /\ ConnOf(k) = c /\ Ended(k)
      BY <2>1, <2>2 DEF Told
    <3> QED BY <1>2, <1>4, <3>1 DEF Ended
  <2>3. CASE in[c] = "none"
    <3>1. PICK k \in Streams : ConnOf(k) = c /\ stream[k].pc = "recording" /\ stream'[k].pc \in {"done", "closed"}
      BY <1>8, <2>3 DEF ServeMoves
    <3>2. ~ IsRequest(k)
      BY <2>1, <3>1 DEF Told, Unfinished
    <3> QED BY <1>2, <3>1, <3>2 DEF Ended
  <2> QED BY <2>2, <2>3
<1>9. ASSUME NEW j \in Streams, NEW k \in Streams, ~ IsRequest(j), ~ IsRequest(k), ConnOf(j)' = ConnOf(k)',
             ConnOf(k)' \notin contended', stream'[j].pc # "none", stream'[k].pc # "none"
      PROVE  j = k
  BY <1>1, <1>2, <1>9 DEF Told, ServeMoves
<1>10. ASSUME NEW k \in Streams, ~ IsRequest(k), ConnOf(k)' \notin contended', stream'[k].pc = "serving"
       PROVE  FALSE
  <2>1. stream[k].pc # "none" /\ ConnOf(k)' = ConnOf(k) /\ ConnOf(k) \in Conns /\ ConnOf(k) \notin contended
    BY <1>1, <1>2, <1>10 DEF ServeMoves
  <2>2. stream[k].pc # "serving"
    BY <1>10, <2>1 DEF Told
  <2>3. stream[k].pc = "opened" /\ in[ConnOf(k)] = "accepted"
    BY <1>10, <2>2 DEF ServeMoves, ServeMove
  <2>4. PICK j \in Streams : ~ IsRequest(j) /\ ConnOf(j) = ConnOf(k) /\ Ended(j)
    BY <2>1, <2>3 DEF Told
  <2>5. j = k
    BY <1>10, <2>1, <2>4 DEF Told, Ended
  <2> QED BY <2>3, <2>4, <2>5 DEF Ended
<1>11. ASSUME NEW c \in Conns, Shaken(c) PROVE Shaken(c)'
  <2>1. PICK k \in Streams : ~ IsRequest(k) /\ ConnOf(k) = c /\ stream[k].reply = "capability"
    BY <1>11 DEF Shaken
  <2>2. stream[k].pc \in {"recording", "done", "closed"}
    BY <2>1 DEF Told, Ended
  <2>3. ConnOf(k)' = c /\ stream'[k].reply = "capability"
    BY <1>2, <2>1, <2>2 DEF ServeMoves, ServeMove
  <2> QED BY <2>1, <2>3 DEF Shaken
<1> QED BY <1>5, <1>6, <1>7, <1>8, <1>9, <1>10, <1>11 DEF Told

LEMMA OpensHandshakeTells ==
  ASSUME TypeOK, Wired, Told, Known, Moves, NEW s \in Sends, OpensHandshake(s)
  PROVE  Told' /\ \A c \in Conns : Shaken(c) => Shaken(c)'
<1> DEFINE h == Handshake(s)
<1>1. /\ call[s].pc = "opening" /\ link[call[s].conn] = "open" /\ call[s].conn \in Conns
      /\ call'[s].conn = call[s].conn
      /\ UNCHANGED <<link, in>> /\ contended \subseteq contended'
      /\ contended' = IF \E t \in Sends : call[t].conn = call[s].conn /\ stream[Handshake(t)].pc # "none"
                        THEN contended \union {call[s].conn} ELSE contended
  BY ConnKept DEF OpensHandshake, Wired, Unconnected
<1>2. /\ h \in Streams /\ Sender(h) = s /\ ~ IsRequest(h)
      /\ stream[h].pc = "none" /\ stream'[h].pc = "opened" /\ stream'[h].reply = stream[h].reply
      /\ \A j \in Streams \ {h} : stream'[j].pc = stream[j].pc /\ stream'[j].reply = stream[j].reply
  BY <1>1, StreamNames, OpensHandshakeEffect DEF Known
<1>3. ConnOf(h) = call[s].conn /\ ConnOf(h)' = call[s].conn
  BY <1>1, <1>2 DEF ConnOf
<1>4. \A k \in Streams : stream[k].pc # "none" => ConnOf(k)' = ConnOf(k) /\ ConnOf(k) \in Conns
  BY ConnKept DEF Wired
<1> HIDE DEF h
<1>5. \A k \in Streams : stream'[k].pc # "none" => link'[ConnOf(k)'] # "unused"
  BY <1>1, <1>2, <1>3, <1>4 DEF Told
<1>6. ASSUME NEW k \in Streams, stream'[k].reply = "capability"
      PROVE  \/ stream'[k].pc = "recording"
             \/ Ended(k)' /\ (in'[ConnOf(k)'] # "none" \/ link'[ConnOf(k)'] = "closed")
  <2>1. stream[k].reply = "capability" /\ stream[k].pc # "none"
    BY <1>2, <1>6 DEF Told, Ended
  <2>2. k # h
    BY <1>2, <2>1
  <2> QED BY <1>1, <1>2, <1>4, <2>1, <2>2 DEF Told, Ended
<1>7. ASSUME NEW k \in Streams, IsRequest(k), ConnOf(k)' \notin contended', Unfinished(k)'
      PROVE  stream'[k].pc = "opened" /\ in'[ConnOf(k)'] # "none"
  <2>1. k # h /\ Unfinished(k) /\ stream'[k].pc = stream[k].pc
    BY <1>2, <1>7 DEF Unfinished
  <2>2. ConnOf(k)' = ConnOf(k)
    BY <1>4, <2>1 DEF Unfinished
  <2> QED BY <1>1, <1>7, <2>1, <2>2 DEF Told
<1>8. ASSUME NEW c \in Conns \ contended', in'[c] # "none"
      PROVE  \E k \in Streams : ~ IsRequest(k) /\ ConnOf(k)' = c /\ Ended(k)'
  <2>1. PICK k \in Streams : ~ IsRequest(k) /\ ConnOf(k) = c /\ Ended(k)
    BY <1>1, <1>8 DEF Told
  <2>2. k # h /\ stream[k].pc # "none"
    BY <1>2, <2>1 DEF Ended
  <2> QED BY <1>2, <1>4, <2>1, <2>2 DEF Ended
<1>9. ASSUME NEW j \in Streams, NEW k \in Streams, ~ IsRequest(j), ~ IsRequest(k), ConnOf(j)' = ConnOf(k)',
             ConnOf(k)' \notin contended', stream'[j].pc # "none", stream'[k].pc # "none", j # k
      PROVE  FALSE
  <2>1. ASSUME NEW x \in Streams \ {h}, ~ IsRequest(x), ConnOf(x)' = call[s].conn, stream'[x].pc # "none"
        PROVE  call[s].conn \in contended'
    <3>1. stream[x].pc # "none" /\ Sender(x) \in Sends /\ x = Handshake(Sender(x))
      BY <1>2, <2>1, StreamNames
    <3>2. call[Sender(x)].conn = call[s].conn
      BY <1>4, <2>1, <3>1 DEF ConnOf
    <3> QED BY <1>1, <3>1, <3>2
  <2>2. j # h /\ k # h
    BY <1>3, <1>9, <2>1
  <2>3. stream[j].pc # "none" /\ stream[k].pc # "none"
    BY <1>2, <1>9, <2>2
  <2> QED BY <1>1, <1>4, <1>9, <2>3 DEF Told
<1>10. ASSUME NEW k \in Streams, ~ IsRequest(k), ConnOf(k)' \notin contended', stream'[k].pc = "serving"
       PROVE  FALSE
  <2>1. k # h /\ stream[k].pc = "serving"
    BY <1>2, <1>10
  <2> QED BY <1>1, <1>4, <1>10, <2>1 DEF Told
<1>11. ASSUME NEW c \in Conns, Shaken(c) PROVE Shaken(c)'
  <2>1. PICK k \in Streams : ~ IsRequest(k) /\ ConnOf(k) = c /\ stream[k].reply = "capability"
    BY <1>11 DEF Shaken
  <2>2. stream[k].pc # "none"
    BY <2>1 DEF Told, Ended
  <2> QED BY <1>2, <1>4, <2>1, <2>2 DEF Shaken
<1> QED BY <1>5, <1>6, <1>7, <1>8, <1>9, <1>10, <1>11 DEF Told

LEMMA OpensRequestTells ==
  ASSUME TypeOK, Wired, Told, Known, Moves, NEW s \in Sends, OpensRequest(s)
  PROVE  Told' /\ \A c \in Conns : Shaken(c) => Shaken(c)'
<1> DEFINE q == Request(s)
<1>1. /\ call[s].pc = "admitted" /\ link[call[s].conn] = "open" /\ call[s].conn \in Conns
      /\ call'[s].conn = call[s].conn
      /\ UNCHANGED <<link, in>> /\ contended \subseteq contended'
      /\ contended' = IF \E t \in Sends : call[t].conn = call[s].conn /\ Unfinished(Handshake(t))
                        THEN contended \union {call[s].conn} ELSE contended
  BY ConnKept DEF OpensRequest, Wired, Unconnected
<1>2. /\ q \in Streams /\ Sender(q) = s /\ IsRequest(q)
      /\ stream[q].pc = "none" /\ stream'[q].pc = "opened" /\ stream'[q].reply = stream[q].reply
      /\ \A j \in Streams \ {q} : stream'[j].pc = stream[j].pc /\ stream'[j].reply = stream[j].reply
  BY <1>1, StreamNames, OpensRequestEffect DEF Known, Beginning
<1>3. ConnOf(q) = call[s].conn /\ ConnOf(q)' = call[s].conn
  BY <1>1, <1>2 DEF ConnOf
<1>4. \A k \in Streams : stream[k].pc # "none" => ConnOf(k)' = ConnOf(k) /\ ConnOf(k) \in Conns
  BY ConnKept DEF Wired
<1> HIDE DEF q
<1>5. \A k \in Streams : stream'[k].pc # "none" => link'[ConnOf(k)'] # "unused"
  BY <1>1, <1>2, <1>3, <1>4 DEF Told
<1>6. ASSUME NEW k \in Streams, stream'[k].reply = "capability"
      PROVE  \/ stream'[k].pc = "recording"
             \/ Ended(k)' /\ (in'[ConnOf(k)'] # "none" \/ link'[ConnOf(k)'] = "closed")
  <2>1. stream[k].reply = "capability" /\ stream[k].pc # "none"
    BY <1>2, <1>6 DEF Told, Ended
  <2>2. k # q
    BY <1>2, <2>1
  <2> QED BY <1>1, <1>2, <1>4, <2>1, <2>2 DEF Told, Ended
<1>7. ASSUME NEW k \in Streams, IsRequest(k), ConnOf(k)' \notin contended', Unfinished(k)'
      PROVE  stream'[k].pc = "opened" /\ in'[ConnOf(k)'] # "none"
  <2>1. CASE k # q
    <3>1. Unfinished(k) /\ stream'[k].pc = stream[k].pc
      BY <1>2, <1>7, <2>1 DEF Unfinished
    <3>2. ConnOf(k)' = ConnOf(k)
      BY <1>4, <3>1 DEF Unfinished
    <3> QED BY <1>1, <1>7, <3>1, <3>2 DEF Told
  <2>2. CASE k = q
    <3>1. PICK h \in Streams : ~ IsRequest(h) /\ ConnOf(h) = call[s].conn /\ stream[h].reply = "capability"
      BY <1>1 DEF Known, Shaken
    <3>2. h = Handshake(Sender(h)) /\ Sender(h) \in Sends /\ call[Sender(h)].conn = call[s].conn
      BY <3>1, StreamNames DEF ConnOf
    <3>3. ~ Unfinished(h)
      BY <1>1, <1>3, <1>7, <2>2, <3>2
    <3>4. in[call[s].conn] # "none"
      BY <1>1, <3>1, <3>3 DEF Told, Unfinished
    <3> QED BY <1>1, <1>2, <1>3, <2>2, <3>4
  <2> QED BY <2>1, <2>2
<1>8. ASSUME NEW c \in Conns \ contended', in'[c] # "none"
      PROVE  \E k \in Streams : ~ IsRequest(k) /\ ConnOf(k)' = c /\ Ended(k)'
  <2>1. PICK k \in Streams : ~ IsRequest(k) /\ ConnOf(k) = c /\ Ended(k)
    BY <1>1, <1>8 DEF Told
  <2>2. k # q /\ stream[k].pc # "none"
    BY <1>2, <2>1 DEF Ended
  <2> QED BY <1>2, <1>4, <2>1, <2>2 DEF Ended
<1>9. ASSUME NEW j \in Streams, NEW k \in Streams, ~ IsRequest(j), ~ IsRequest(k), ConnOf(j)' = ConnOf(k)',
             ConnOf(k)' \notin contended', stream'[j].pc # "none", stream'[k].pc # "none"
      PROVE  j = k
  <2>1. stream[j].pc # "none" /\ stream[k].pc # "none"
    BY <1>2, <1>9
  <2> QED BY <1>1, <1>4, <1>9, <2>1 DEF Told
<1>10. ASSUME NEW k \in Streams, ~ IsRequest(k), ConnOf(k)' \notin contended', stream'[k].pc = "serving"
       PROVE  FALSE
  <2>1. stream[k].pc = "serving"
    BY <1>2, <1>10
  <2> QED BY <1>1, <1>4, <1>10, <2>1 DEF Told
<1>11. ASSUME NEW c \in Conns, Shaken(c) PROVE Shaken(c)'
  <2>1. PICK k \in Streams : ~ IsRequest(k) /\ ConnOf(k) = c /\ stream[k].reply = "capability"
    BY <1>11 DEF Shaken
  <2>2. stream[k].pc # "none"
    BY <2>1 DEF Told, Ended
  <2> QED BY <1>2, <1>4, <2>1, <2>2 DEF Shaken
<1> QED BY <1>5, <1>6, <1>7, <1>8, <1>9, <1>10, <1>11 DEF Told

LEMMA ServeMovesStep ==
  ASSUME TypeOK, Wired, Told, [Next]_vars
  PROVE  ServeMoves \/ \E s \in Sends : OpensHandshake(s) \/ OpensRequest(s)
<1> SUFFICES ASSUME \A s \in Sends : ~ OpensHandshake(s) /\ ~ OpensRequest(s) PROVE ServeMoves
  OBVIOUS
<1>t. /\ \A c \in Conns : in[c] \in Verdicts /\ link[c] \in {"unused", "open", "closed"}
      /\ DOMAIN in = Conns /\ DOMAIN link = Conns
  BY Typing
<1>k. \A k \in Streams : Sender(k) \in Sends /\ (stream[k].pc # "none" => ConnOf(k) \in Conns)
  BY StreamNames DEF Wired
<1>1. ASSUME UNCHANGED <<stream, in, link, contended>> PROVE ServeMoves
  BY <1>1 DEF ServeMoves, ServeMove
<1>2. ASSUME NEW s \in Sends, Sending(s) PROVE ServeMoves
  <2>1. CASE Signs(s)
    BY <2>1, SignsEffect DEF ServeMoves, ServeMove, Signs
  <2>2. CASE ~ Signs(s)
    BY <1>1, <1>2, <2>2 DEF Sending, HandshakeAnswered, PeerVerified, RequestAnswered, RequestTimesOut, SendFails
  <2> QED BY <2>1, <2>2
<1>3. ASSUME NEW s \in Sends, Send(s) PROVE ServeMoves
  BY <1>1, <1>3 DEF Send
<1>4. ASSUME Dials PROVE ServeMoves
  <2>1. ASSUME NEW c \in Conns, DialConnects(c) PROVE ServeMoves
    BY <1>t, <2>1 DEF DialConnects, ServeMoves, ServeMove
  <2> QED BY <1>1, <1>4, <2>1 DEF Dials, DialRetries, DialFails
<1>5. ASSUME NEW k \in Streams, Arrives(k) PROVE ServeMoves
  <2>1. PICK pc \in {"handshaking", "serving", "closed"} :
          /\ Serves(k, pc)
          /\ pc = "handshaking" => in[ConnOf(k)] = "none"
          /\ pc = "serving" => in[ConnOf(k)] = "accepted"
    <3>1. in[ConnOf(k)] \in {"none", "accepted", "rejected"}
      BY <1>5, <1>t, <1>k DEF Arrives, Verdicts
    <3> QED BY <1>5, <3>1 DEF Arrives
  <2>2. stream[k].pc = "opened" /\ UNCHANGED <<in, link, contended>>
    BY <1>5 DEF Arrives
  <2> QED BY <2>1, <2>2, ServesEffect DEF ServeMoves, ServeMove
<1>6. ASSUME NEW k \in Streams, ReadsCapability(k) PROVE ServeMoves
  BY <1>6, ServesEffect DEF ReadsCapability, ServeMoves, ServeMove
<1>7. ASSUME NEW k \in Streams, Records(k) PROVE ServeMoves
  <2>1. /\ stream[k].pc = "recording" /\ in' = [in EXCEPT ![ConnOf(k)] = Verdict(stream[k].ok)]
        /\ \E pc \in {"done", "closed"} : Serves(k, pc)
        /\ UNCHANGED <<link, contended>>
    BY <1>7 DEF Records
  <2>2. /\ in'[ConnOf(k)] # "none" /\ \A c \in Conns : in'[c] = in[c] \/ c = ConnOf(k)
    BY <1>t, <1>k, <2>1 DEF Verdict
  <2>3. /\ stream'[k].pc \in {"done", "closed"} /\ stream'[k].reply = stream[k].reply
        /\ \A j \in Streams \ {k} : stream'[j].pc = stream[j].pc /\ stream'[j].reply = stream[j].reply
    BY <2>1, ServesEffect
  <2> QED BY <2>1, <2>2, <2>3 DEF ServeMoves, ServeMove
<1>8. ASSUME NEW k \in Streams, ReadsRequest(k) PROVE ServeMoves
  <2>1. /\ stream[k].pc = "serving" /\ \E pc \in {"closed", "handling"} : Serves(k, pc)
        /\ UNCHANGED <<in, link, contended>>
    BY <1>8 DEF ReadsRequest
  <2> QED BY <2>1, ServesEffect DEF ServeMoves, ServeMove
<1>9. ASSUME NEW k \in Streams, Verifying(k) PROVE ServeMoves
  <2>1. CASE VerifierThrows(k)
    BY <2>1, ServesEffect DEF VerifierThrows, ServeMoves, ServeMove
  <2>2. ASSUME NEW ok \in BOOLEAN, Verifies(k, ok) PROVE ServeMoves
    <3>1. stream[k].pc = "verifying" /\ UNCHANGED <<in, link, contended>>
      BY <2>2 DEF Verifies
    <3> QED BY <2>2, <3>1, VerifiesEffect DEF ServeMoves, ServeMove
  <2> QED BY <1>9, <2>1, <2>2 DEF Verifying
<1>10. ASSUME NEW k \in Streams, HandlerAnswers(k) PROVE ServeMoves
  <2>1. stream[k].pc = "handling" /\ UNCHANGED <<in, link, contended>>
    BY <1>10 DEF HandlerAnswers
  <2> QED BY <1>10, <2>1, HandlerAnswersEffect DEF ServeMoves, ServeMove
<1>11. ASSUME NEW c \in Conns, Closes(c), UNCHANGED <<in, contended>> PROVE ServeMoves
  <2>1. \A k \in Streams : stream[k] \in Stream
    BY Typing
  <2>2. \A k \in Streams : stream[k].pc = "recording" /\ ConnOf(k) = c => link'[c] = "closed"
    BY <1>11, <1>t, <1>k, ClosesEffect DEF Told
  <2>3. \A k \in Streams : ServeMove(k)
    BY <1>11, <2>1, <2>2, ClosesEffect DEF ServeMove, Stream
  <2> QED BY <1>11, <1>t, <2>3, ClosesEffect DEF ServeMoves
<1>12. ASSUME NEW c \in Conns, ConnectionLost(c) \/ SweepCloses(c) PROVE ServeMoves
  BY <1>11, <1>12 DEF ConnectionLost, SweepCloses
<1>13. ASSUME NEW c \in Conns, IdleElapses(c) PROVE ServeMoves
  BY <1>1, <1>13 DEF IdleElapses
<1>14. CASE Sweeps \/ UNCHANGED vars
  BY <1>1, <1>14 DEF Sweeps, vars
<1> QED BY <1>2, <1>3, <1>4, <1>5, <1>6, <1>7, <1>8, <1>9, <1>10, <1>12, <1>13, <1>14 DEF Next, Serving

(* What a step may do to a call that begins.                               *)
BeginMove(s) ==
  \/ call'[s].pc = call[s].pc /\ call'[s].conn = call[s].conn
  \/ call'[s].pc \notin Beginning
  \/ /\ call[s].pc \in Unconnected /\ call'[s].pc \in {"opening", "admitted"} /\ call'[s].conn \in Conns
     /\ call'[s].pc = "admitted" => out[call'[s].conn] = "accepted"
  \/ call[s].pc \in {"opening", "signing"} /\ call'[s].pc \in {"signing", "handshaking"}
  \/ call[s].pc = "handshaking" /\ call'[s].pc = "verifying" /\ stream[Handshake(s)].reply = "capability"
  \/ call[s].pc = "verifying" /\ call'[s].pc = "admitted" /\ call'[s].conn = call[s].conn

(* What a step opens, it opens for a call that then goes on. *)
OpenMoves ==
  /\ \A s \in Sends :
       stream[Handshake(s)].pc = "none" => stream'[Handshake(s)].pc = "none" \/ call'[s].pc # "opening"
  /\ \A s \in Sends :
       stream[Request(s)].pc = "none" => stream'[Request(s)].pc = "none" \/ call'[s].pc \notin Beginning
  /\ \A k \in Streams : stream[k].reply = "capability" => stream'[k].reply = "capability"

OutMoves ==
  \A c \in Conns :
    \/ out'[c] = out[c]
    \/ out'[c] # "accepted"
    \/ \E s \in Sends : call[s].pc = "verifying" /\ call[s].conn = c

LEMMA KnowingStep ==
  ASSUME Wired, Told, Known, \A s \in Sends : BeginMove(s), OpenMoves, OutMoves,
         \A c \in Conns : Shaken(c) => Shaken(c)'
  PROVE  Known'
<1>1. \A s \in Sends : /\ Handshake(s) \in Streams /\ Sender(Handshake(s)) = s /\ ~ IsRequest(Handshake(s))
                       /\ Request(s) \in Streams /\ Sender(Request(s)) = s
  BY StreamNames
<1>2. ASSUME NEW s \in Sends, call[s].pc = "verifying" PROVE Shaken(call[s].conn) /\ call[s].conn \in Conns
  BY <1>1, <1>2 DEF Known, Shaken, ConnOf, Wired, Unconnected
<1>3. \A c \in Conns : out'[c] = "accepted" => Shaken(c)'
  BY <1>2 DEF Known, OutMoves
<1>4. \A s \in Sends : call'[s].pc = "verifying" => stream'[Handshake(s)].reply = "capability"
  BY <1>1 DEF Known, BeginMove, OpenMoves, Beginning
<1>5. ASSUME NEW s \in Sends, call'[s].pc = "admitted" PROVE Shaken(call[s].conn)'
  <2>1. CASE call[s].pc = "admitted" /\ call'[s].conn = call[s].conn
    BY <2>1 DEF Known, Wired, Unconnected
  <2>2. CASE call[s].pc = "verifying" /\ call'[s].conn = call[s].conn
    BY <1>2, <2>2
  <2>3. CASE call'[s].conn \in Conns /\ out[call'[s].conn] = "accepted"
    BY <2>3 DEF Known
  <2> QED BY <1>5, <2>1, <2>2, <2>3 DEF BeginMove, Beginning
<1>6. \A s \in Sends : call'[s].pc = "opening" => stream'[Handshake(s)].pc = "none"
  BY <1>1 DEF Known, BeginMove, OpenMoves, Beginning, Wired
<1>7. \A s \in Sends : call'[s].pc \in Beginning => stream'[Request(s)].pc = "none"
  BY <1>1 DEF Known, BeginMove, OpenMoves, Beginning, Wired
<1> QED BY <1>3, <1>4, <1>5, <1>6, <1>7 DEF Known

LEMMA BeginMoves ==
  ASSUME TypeOK, Wired, Known, [Next]_vars, NEW t \in Sends
  PROVE  BeginMove(t)
<1>1. ASSUME NEW s \in Sends, NEW pc, Goes(s, pc),
             t # s \/ pc \notin Beginning \/ BeginMove(t)
      PROVE  BeginMove(t)
  BY <1>1, GoesEffect DEF BeginMove
<1>2. CASE UNCHANGED call
  BY <1>2 DEF BeginMove
<1>3. ASSUME NEW s \in Sends, Send(s) PROVE BeginMove(t)
  BY <1>1, <1>3 DEF Send, Beginning
<1>4. ASSUME NEW s \in Sends, Sending(s) PROVE BeginMove(t)
  <2>1. CASE OpensHandshake(s)
    <3>1. call[s].pc = "opening" /\ Goes(s, "signing")
      BY <2>1 DEF OpensHandshake
    <3> QED BY <1>1, <3>1, GoesEffect DEF BeginMove
  <2>2. CASE Signs(s)
    <3>1. call[s].pc = "signing" /\ Goes(s, "handshaking")
      BY <2>2 DEF Signs
    <3> QED BY <1>1, <3>1, GoesEffect DEF BeginMove
  <2>3. CASE HandshakeAnswered(s)
    <3>1. call[s].pc = "handshaking" /\ stream[Handshake(s)].reply = "capability" /\ Goes(s, "verifying")
      BY <2>3 DEF HandshakeAnswered
    <3> QED BY <1>1, <3>1, GoesEffect DEF BeginMove
  <2>4. CASE OpensRequest(s)
    BY <1>1, <2>4 DEF OpensRequest, Beginning
  <2>5. ASSUME NEW ok \in BOOLEAN, PeerVerified(s, ok) PROVE BeginMove(t)
    <3>1. call[s].pc = "verifying" /\ \E pc \in {"admitted", "denied"} : Goes(s, pc)
      BY <2>5 DEF PeerVerified
    <3> QED BY <1>1, <3>1, GoesEffect DEF BeginMove, Beginning
  <2>6. CASE RequestAnswered(s) \/ RequestTimesOut(s) \/ SendFails(s)
    BY <1>1, <2>6 DEF RequestAnswered, RequestTimesOut, SendFails, Beginning
  <2> QED BY <1>4, <2>1, <2>2, <2>3, <2>4, <2>5, <2>6 DEF Sending
<1>5. CASE Dials
  <2>1. ASSUME NEW c \in Conns, DialConnects(c) PROVE BeginMove(t)
    BY <2>1, DialConnectsEffect DEF BeginMove, Dialing, Unconnected, Beginning
  <2>2. CASE DialFails
    BY <2>2, DialFailsEffect DEF BeginMove, Beginning
  <2> QED BY <1>2, <1>5, <2>1, <2>2 DEF Dials, DialRetries
<1>6. ASSUME NEW c \in Conns, ConnectionLost(c) \/ SweepCloses(c) PROVE BeginMove(t)
  BY <1>6, ClosesEffect DEF ConnectionLost, SweepCloses, BeginMove, Beginning
<1>7. ASSUME NEW k \in Streams, Serving(k) \/ Verifying(k) \/ HandlerAnswers(k) PROVE BeginMove(t)
  BY <1>2, <1>7 DEF Serving, Verifying, HandlerAnswers, Arrives, ReadsCapability, Records, ReadsRequest,
     VerifierThrows, Verifies
<1>8. ASSUME NEW c \in Conns, IdleElapses(c) PROVE BeginMove(t)
  BY <1>2, <1>8 DEF IdleElapses
<1>9. CASE Sweeps \/ UNCHANGED vars
  BY <1>2, <1>9 DEF Sweeps, vars
<1> QED BY <1>3, <1>4, <1>5, <1>6, <1>7, <1>8, <1>9 DEF Next

LEMMA OutMovesStep ==
  ASSUME TypeOK, [Next]_vars
  PROVE  OutMoves
<1>1. CASE UNCHANGED out
  BY <1>1 DEF OutMoves
<1>2. ASSUME NEW s \in Sends, NEW ok \in BOOLEAN, PeerVerified(s, ok) PROVE OutMoves
  BY <1>2, Typing DEF PeerVerified, OutMoves
<1>3. ASSUME NEW s \in Sends, Sending(s) PROVE OutMoves
  BY <1>1, <1>2, <1>3 DEF Sending, OpensHandshake, Signs, HandshakeAnswered, OpensRequest, RequestAnswered,
     RequestTimesOut, SendFails
<1>4. ASSUME NEW k \in Streams, Serving(k) \/ Verifying(k) \/ HandlerAnswers(k) PROVE OutMoves
  BY <1>1, <1>4 DEF Serving, Verifying, HandlerAnswers, Arrives, ReadsCapability, Records, ReadsRequest,
     VerifierThrows, Verifies
<1>5. CASE Dials
  BY <1>1, <1>5 DEF Dials, DialRetries, DialFails, DialConnects
<1>6. ASSUME NEW c \in Conns, ConnectionLost(c) \/ SweepCloses(c) \/ IdleElapses(c) PROVE OutMoves
  BY <1>1, <1>6 DEF ConnectionLost, SweepCloses, IdleElapses
<1>7. CASE Sweeps \/ UNCHANGED vars
  BY <1>1, <1>7 DEF Sweeps, vars
<1>8. ASSUME NEW s \in Sends, Send(s) PROVE OutMoves
  BY <1>1, <1>8 DEF Send
<1> QED BY <1>3, <1>4, <1>5, <1>6, <1>7, <1>8 DEF Next

LEMMA OpenMovesStep ==
  ASSUME TypeOK, Wired, Told, [Next]_vars
  PROVE  OpenMoves
<1>1. CASE ServeMoves
  <2>1. \A k \in Streams : stream[k].pc = "none" => stream'[k].pc = "none"
    BY <1>1 DEF ServeMoves, ServeMove
  <2>2. \A k \in Streams : stream[k].reply = "capability" => stream'[k].reply = "capability"
    BY <1>1 DEF ServeMoves, ServeMove, Told, Ended
  <2> QED BY <2>1, <2>2, StreamNames DEF OpenMoves
<1>2. ASSUME NEW s \in Sends, OpensHandshake(s) PROVE OpenMoves
  <2>1. call'[s].pc = "signing"
    BY <1>2, GoesEffect DEF OpensHandshake
  <2>2. \A k \in Streams : /\ stream'[k].reply = stream[k].reply
                           /\ k # Handshake(s) => stream'[k].pc = stream[k].pc
    BY <1>2, OpensHandshakeEffect
  <2>3. \A u \in Sends : /\ Handshake(u) = Handshake(s) => u = s
                         /\ Request(u) # Handshake(s) /\ Handshake(u) \in Streams /\ Request(u) \in Streams
    BY StreamNames
  <2> QED BY <2>1, <2>2, <2>3 DEF OpenMoves, Beginning
<1>3. ASSUME NEW s \in Sends, OpensRequest(s) PROVE OpenMoves
  <2>1. call'[s].pc = "requesting"
    BY <1>3, GoesEffect DEF OpensRequest
  <2>2. \A k \in Streams : /\ stream'[k].reply = stream[k].reply
                           /\ k # Request(s) => stream'[k].pc = stream[k].pc
    BY <1>3, OpensRequestEffect
  <2>3. \A u \in Sends : /\ Request(u) = Request(s) => u = s
                         /\ Handshake(u) # Request(s) /\ Handshake(u) \in Streams /\ Request(u) \in Streams
    BY StreamNames
  <2> QED BY <2>1, <2>2, <2>3 DEF OpenMoves, Beginning
<1> QED BY <1>1, <1>2, <1>3, ServeMovesStep

(* For any calls, connections and verifiers: the ends disagree on what a   *)
(* stream carries only when it was opened next to another handshake.       *)
THEOREM MisreadWhenContended == Spec => []MisreadOnlyWhenContended
<1>1. Init => Told /\ Known
  <2> SUFFICES ASSUME Init PROVE Told /\ Known
    OBVIOUS
  <2>1. \A k \in Streams : stream[k].pc = "none" /\ stream[k].reply = "none"
    BY DEF Init, NewStream
  <2>2. \A c \in Conns : in[c] = "none" /\ out[c] = "none"
    BY DEF Init
  <2>3. \A s \in Sends : call[s].pc = "idle"
    BY DEF Init
  <2>4. Told
    BY <2>1, <2>2 DEF Told, Unfinished
  <2>5. Known
    BY <2>2, <2>3 DEF Known, Beginning
  <2> QED BY <2>4, <2>5
<1>2. IInv /\ Told /\ Known /\ [Next]_vars => (Told /\ Known)'
  <2> SUFFICES ASSUME IInv, Told, Known, [Next]_vars PROVE Told' /\ Known'
    OBVIOUS
  <2>1. TypeOK /\ Wired /\ Moves
    BY StepMoves DEF IInv
  <2>2. Told' /\ \A c \in Conns : Shaken(c) => Shaken(c)'
    BY <2>1, ServeMovesStep, TellingStep, OpensHandshakeTells, OpensRequestTells
  <2> QED BY <2>1, <2>2, KnowingStep, BeginMoves, OpenMovesStep, OutMovesStep
<1>3. IInv /\ Told => MisreadOnlyWhenContended
  BY DEF Told, MisreadOnlyWhenContended, Misread, Unfinished
<1> QED BY <1>1, <1>2, <1>3, Invariance, PTL DEF Spec
=============================================================================

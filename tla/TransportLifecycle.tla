------------------------- MODULE TransportLifecycle -------------------------
(***************************************************************************)
(* Starting and stopping a mesh transport: the state machine of            *)
(* packages/mesh-transport-core/src/state-machine.ts and the methods       *)
(* start, stop and onRequest of HttpMeshTransport                          *)
(* (packages/mesh-transport-http/src/transport.ts) and of                  *)
(* Libp2pMeshTransport (packages/mesh-transport-libp2p/src/transport.ts).  *)
(* Calls overlap: start yields while its server opens, stop while the      *)
(* server it took closes.  An action is the code between two awaits.       *)
(***************************************************************************)
EXTENDS Integers, FiniteSets

CONSTANTS
  Kinds,      (* kinds of transport: "http", "libp2p"                      *)
  Callers,    (* calls of start and stop that may be in progress together  *)
  Servers,    (* servers that exist at a time (bound of the model)         *)
  NoServer

ASSUME LifecycleParameters ==
  /\ Kinds \subseteq {"http", "libp2p"}
  /\ NoServer \notin Servers

VARIABLES
  kind,        (* the kind of the transport, for good                      *)
  state,       (* TransportLifecycle._state                                *)
  server,      (* the server (http) or node (libp2p) the transport holds   *)
  listening,   (* the servers that accept connections                      *)
  handler,     (* whether onRequest's handler is set                       *)
  call,        (* call[c]: the invocation of start or stop                 *)
  spoiled,     (* history: a stop began during a start, or a close failed  *)
  fresh        (* history: the handler was set after the last stop began   *)

vars == <<kind, state, server, listening, handler, call, spoiled, fresh>>

States == {"Created", "Starting", "Running", "Stopping", "Stopped", "Failed"}

Allowed ==
  [s \in States |->
     CASE s = "Created"  -> {"Starting", "Stopped"}
       [] s = "Starting" -> {"Running", "Failed", "Stopping"}
       [] s = "Running"  -> {"Stopping", "Failed"}
       [] s = "Stopping" -> {"Stopped"}
       [] s = "Stopped"  -> {"Starting"}
       [] s = "Failed"   -> {"Stopping"}]

Call == [pc : {"idle", "opening", "closing", "returned", "threw"},
         srv : Servers \union {NoServer}]

InProgress(c) == call[c].pc \in {"opening", "closing"}

Ends(c, outcome) == call' = [call EXCEPT ![c] = [pc |-> outcome, srv |-> NoServer]]

Awaits(c, pc, srv) == call' = [call EXCEPT ![c] = [pc |-> pc, srv |-> srv]]

(* A transition that the table does not allow throws and changes nothing.  *)
After(next) == IF next \in Allowed[state] THEN next ELSE state

Unused == {s \in Servers \ (listening \union {server}) : \A c \in Callers : call[c].srv # s}

Init ==
  /\ kind \in Kinds
  /\ state = "Created"
  /\ server = NoServer
  /\ listening = {}
  /\ handler = FALSE
  /\ call = [c \in Callers |-> [pc |-> "idle", srv |-> NoServer]]
  /\ spoiled = FALSE
  /\ fresh = FALSE

(* start(): nothing to do, refused, or a new server is asked to listen.    *)
StartIgnored(c) ==
  /\ ~ InProgress(c)
  /\ state \in {"Running", "Starting"}
  /\ Ends(c, "returned")
  /\ UNCHANGED <<kind, state, server, listening, handler, spoiled, fresh>>

StartRefused(c) ==
  /\ ~ InProgress(c)
  /\ state \in {"Stopping", "Failed"}
  /\ Ends(c, "threw")
  /\ UNCHANGED <<kind, state, server, listening, handler, spoiled, fresh>>

StartBegins(c, s) ==
  /\ ~ InProgress(c)
  /\ state \in {"Created", "Stopped"}
  /\ s \in Unused
  /\ state' = "Starting"
  /\ Awaits(c, "opening", s)
  /\ UNCHANGED <<kind, server, listening, handler, spoiled, fresh>>

(* The server listens: the transport holds it before it tries to go to     *)
(* Running; when that is not allowed, start tries Failed and throws.       *)
ServerOpened(c) ==
  /\ call[c].pc = "opening"
  /\ listening' = listening \union {call[c].srv}
  /\ server' = call[c].srv
  /\ IF "Running" \in Allowed[state]
       THEN state' = "Running" /\ Ends(c, "returned")
       ELSE state' = After("Failed") /\ Ends(c, "threw")
  /\ UNCHANGED <<kind, handler, spoiled, fresh>>

OpenFailed(c) ==
  /\ call[c].pc = "opening"
  /\ state' = After("Failed")
  /\ Ends(c, "threw")
  /\ UNCHANGED <<kind, server, listening, handler, spoiled, fresh>>

(* stop(): nothing to do, refused by the table (Created), or the server is *)
(* taken.  http has nothing to await when it holds none; libp2p forgets    *)
(* its handler first and drains its connections in any case.               *)
StopIgnored(c) ==
  /\ ~ InProgress(c)
  /\ state \in {"Stopped", "Stopping"}
  /\ Ends(c, "returned")
  /\ UNCHANGED <<kind, state, server, listening, handler, spoiled, fresh>>

StopRefused(c) ==
  /\ ~ InProgress(c)
  /\ state \notin {"Stopped", "Stopping"}
  /\ "Stopping" \notin Allowed[state]
  /\ Ends(c, "threw")
  /\ UNCHANGED <<kind, state, server, listening, handler, spoiled, fresh>>

StopBeginsLate(c) ==                    \* mutant: the state changes when the server has closed
  /\ ~ InProgress(c)
  /\ "Stopping" \in Allowed[state] /\ server # NoServer
  /\ server' = NoServer
  /\ spoiled' = (spoiled \/ \E o \in Callers : call[o].pc = "opening")
  /\ fresh' = FALSE
  /\ listening' = listening \ {server}
  /\ Awaits(c, "closing", server)
  /\ UNCHANGED <<kind, state, handler>>

StopBegins(c) ==
  /\ UNCHANGED kind
  /\ ~ InProgress(c)
  /\ state \notin {"Stopped", "Stopping"}
  /\ "Stopping" \in Allowed[state]
  /\ server' = NoServer
  /\ spoiled' = (spoiled \/ \E o \in Callers : call[o].pc = "opening")
  /\ fresh' = FALSE
  /\ CASE kind = "http" /\ server = NoServer ->
            /\ state' = "Stopped"
            /\ handler' = FALSE
            /\ listening' = listening
            /\ Ends(c, "returned")
       [] kind = "http" /\ server # NoServer ->
            /\ state' = "Stopping"
            /\ handler' = handler
            /\ listening' = listening \ {server}
            /\ Awaits(c, "closing", server)
       [] kind = "libp2p" ->
            /\ state' = "Stopping"
            /\ handler' = FALSE
            /\ listening' = listening
            /\ Awaits(c, "closing", server)

(* The end of stop: http's handler is cleared only now.                    *)
ServerClosed(c) ==
  /\ call[c].pc = "closing"
  /\ state' = After("Stopped")
  /\ handler' = IF kind = "http" THEN FALSE ELSE handler
  /\ listening' = listening \ {call[c].srv}
  /\ Ends(c, "returned")
  /\ UNCHANGED <<kind, server, spoiled, fresh>>

CloseFailedStays(c) ==                  \* mutant: no finally around the close
  /\ kind = "libp2p"
  /\ call[c].pc = "closing"
  /\ listening' \in {listening, listening \ {call[c].srv}}
  /\ spoiled' = TRUE
  /\ Ends(c, "threw")
  /\ UNCHANGED <<kind, state, server, handler, fresh>>

(* libp2p's node may reject its stop; http's close reports no error.       *)
CloseFailed(c) ==
  /\ kind = "libp2p"
  /\ call[c].pc = "closing"
  /\ state' = After("Stopped")
  /\ listening' \in {listening, listening \ {call[c].srv}}
  /\ spoiled' = TRUE
  /\ Ends(c, "threw")
  /\ UNCHANGED <<kind, server, handler, fresh>>

(* onRequest(): refused, without effect, in Stopping. *)
Register ==
  /\ state # "Stopping"
  /\ handler' = TRUE
  /\ fresh' = TRUE
  /\ UNCHANGED <<kind, state, server, listening, call, spoiled>>

Begin(c) ==
  \/ StartIgnored(c)
  \/ StartRefused(c)
  \/ \E s \in Servers : StartBegins(c, s)
  \/ StopIgnored(c)
  \/ StopRefused(c)
  \/ StopBegins(c)

Settle(c) == ServerOpened(c) \/ OpenFailed(c) \/ ServerClosed(c) \/ CloseFailed(c)

Next ==
  \/ \E c \in Callers : Begin(c)
  \/ \E c \in Callers : Settle(c)
  \/ Register

(* Opening and closing a server settle. *)
Fairness == \A c \in Callers : WF_vars(Settle(c))

Spec == Init /\ [][Next]_vars
FairSpec == Spec /\ Fairness
-----------------------------------------------------------------------------
(* The types, and which server a call waits for: start always for one,     *)
(* http's stop only for one.                                               *)
TypeOK ==
  /\ kind \in Kinds
  /\ state \in States
  /\ server \in Servers \union {NoServer}
  /\ listening \subseteq Servers
  /\ handler \in BOOLEAN
  /\ call \in [Callers -> Call]
  /\ \A c \in Callers : call[c].srv = NoServer =>
       ~ InProgress(c) \/ (kind = "libp2p" /\ call[c].pc = "closing")
  /\ spoiled \in BOOLEAN
  /\ fresh \in BOOLEAN

(* A transport that says it is Running holds a server that listens and     *)
(* that no stop has taken, however starts and stops overlap.               *)
RunningServes ==
  state = "Running" =>
    server \in listening /\ \A c \in Callers : call[c].pc # "closing" \/ call[c].srv # server

(* Stopping is left by the one stop that entered it: no two calls close at *)
(* a time, and Stopping never stays without its stop.                      *)
OneCloser ==
  state = "Stopping" <=> Cardinality({c \in Callers : call[c].pc = "closing"}) = 1

(* Unless a stop began during a start (or closing failed), no server is    *)
(* left behind: one that listens is the transport's or being closed.       *)
CleanWithoutOverlap ==
  spoiled \/ /\ listening \subseteq {server} \union {call[c].srv : c \in Callers}
             /\ state = "Stopped" => listening = {}

(* A handler that onRequest accepted after the last stop began is there    *)
(* until the next: http clears its handler at the end of a stop, libp2p at *)
(* the beginning.                                                          *)
EarlierStopKeepsHandler == fresh => handler

(* A stop that has begun ends in Stopped, also when the node rejects.      *)
StoppingEnds == state = "Stopping" ~> state = "Stopped"

(* Every start and stop comes to an end. *)
CallsReturn == \A c \in Callers : InProgress(c) ~> ~ InProgress(c)

(* However starts, stops and registrations overlap, the transport has      *)
(* one server, which listens while it is Running, one stop at a time       *)
(* that closes it, and the newest handler; and none is left behind.        *)
OneServerRuns ==
  TypeOK /\ RunningServes /\ OneCloser /\ EarlierStopKeepsHandler /\ CleanWithoutOverlap

(* No start, stop or state Stopping lasts for ever, also when the node     *)
(* rejects.                                                                *)
CallsEnd == StoppingEnds /\ CallsReturn
-----------------------------------------------------------------------------
(* packages/mesh-transport-http/test/server.test.ts:29 "start/stop is      *)
(* clean": a Stopped transport has no server that still listens.           *)
StoppedIsClean == state = "Stopped" => listening = {}

(* packages/mesh-transport-core/src/state-machine.ts:34 "start() is        *)
(* idempotent on Running": a start that returns leaves the transport       *)
(* Running.                                                                *)
StartReturnsRunning ==
  [][\A c \in Callers :
       (StartIgnored(c) \/ ServerOpened(c)) /\ call'[c].pc = "returned" => state' = "Running"]_vars
=============================================================================

---------------------- MODULE TransportLifecycleProofs ----------------------
(***************************************************************************)
(* Proofs about TransportLifecycle for both kinds of transport and any     *)
(* number of overlapping calls: type correctness, that Running serves,     *)
(* that one stop closes at a time, that a stop takes away no newer handler *)
(* and that nothing is left listening unless a stop overlapped a start.    *)
(***************************************************************************)
EXTENDS TransportLifecycle, FiniteSetTheorems, TLAPS

(* Somebody closes exactly in Stopping, and it is one call. *)
ClosingIsStopping ==
  /\ \A c \in Callers : call[c].pc = "closing" => state = "Stopping"
  /\ state = "Stopping" => \E c \in Callers : call[c].pc = "closing"
  /\ \A c, d \in Callers : call[c].pc = "closing" /\ call[d].pc = "closing" => c = d

(* From the beginning of a stop to its end no handler is registered. *)
StoppingForgets == state = "Stopping" => ~ fresh

RunningListens == state = "Running" => server \in listening

(* Where the listening server is, in each state, while no stop overlapped. *)
Tidy ==
  /\ \A c \in Callers : call[c].pc = "opening" => state = "Starting"
  /\ \A c, d \in Callers : call[c].pc = "opening" /\ call[d].pc = "opening" => c = d
  /\ state \in {"Created", "Starting", "Stopped", "Failed"} => listening = {} /\ server = NoServer
  /\ state = "Running" => listening = {server}
  /\ state = "Stopping" =>
       /\ server = NoServer
       /\ \A s \in listening : \E c \in Callers : call[c].pc = "closing" /\ call[c].srv = s

IInv == TypeOK /\ ClosingIsStopping /\ StoppingForgets /\ RunningListens /\ EarlierStopKeepsHandler /\ (spoiled \/ Tidy)

LEMMA Started == Init => IInv
<1> SUFFICES ASSUME Init PROVE IInv
  OBVIOUS
<1>1. TypeOK
  BY LifecycleParameters DEF Init, TypeOK, States, Call, InProgress
<1>2. ClosingIsStopping /\ StoppingForgets /\ RunningListens /\ EarlierStopKeepsHandler /\ Tidy
  BY DEF Init, ClosingIsStopping, StoppingForgets, RunningListens, EarlierStopKeepsHandler, Tidy
<1> QED BY <1>1, <1>2 DEF IInv

LEMMA TypeStep == TypeOK /\ [Next]_vars => TypeOK'
<1> SUFFICES ASSUME TypeOK, [Next]_vars PROVE TypeOK'
  OBVIOUS
<1> USE LifecycleParameters DEF TypeOK, States, Call, InProgress, LifecycleParameters
<1>0. \A next \in {"Failed", "Stopped"} : After(next) \in States
  BY DEF After
<1>1. ASSUME NEW c \in Callers, Begin(c) PROVE TypeOK'
  <2>1. CASE StartIgnored(c) \/ StartRefused(c) \/ StopIgnored(c) \/ StopRefused(c)
    BY <2>1 DEF StartIgnored, StartRefused, StopIgnored, StopRefused, Ends
  <2>2. ASSUME NEW s \in Servers, StartBegins(c, s) PROVE TypeOK'
    BY <2>2 DEF StartBegins, Awaits
  <2>3. CASE StopBegins(c)
    <3>0. /\ spoiled' \in BOOLEAN /\ fresh' \in BOOLEAN /\ server' \in Servers \union {NoServer}
          /\ kind' = kind
      BY <2>3, Zenon DEF StopBegins
    <3>1. CASE kind = "http" /\ server = NoServer
      <4>1. /\ state' = "Stopped" /\ handler' = FALSE /\ listening' = listening
            /\ call' = [call EXCEPT ![c] = [pc |-> "returned", srv |-> NoServer]]
        BY <2>3, <3>1 DEF StopBegins, Ends
      <4> QED BY <3>0, <4>1
    <3>2. CASE kind = "http" /\ server # NoServer
      <4>1. /\ state' = "Stopping" /\ handler' = handler /\ listening' = listening \ {server}
            /\ call' = [call EXCEPT ![c] = [pc |-> "closing", srv |-> server]]
        BY <2>3, <3>2 DEF StopBegins, Awaits
      <4> QED BY <3>0, <3>2, <4>1
    <3>3. CASE kind = "libp2p"
      <4>1. /\ state' = "Stopping" /\ handler' = FALSE /\ listening' = listening
            /\ call' = [call EXCEPT ![c] = [pc |-> "closing", srv |-> server]]
        BY <2>3, <3>3 DEF StopBegins, Awaits
      <4> QED BY <3>0, <3>3, <4>1
    <3> QED BY <3>1, <3>2, <3>3
  <2> QED BY <1>1, <2>1, <2>2, <2>3 DEF Begin
<1>2. ASSUME NEW c \in Callers, Settle(c) PROVE TypeOK'
  <2>1. CASE ServerOpened(c)
    BY <1>0, <2>1 DEF ServerOpened, Ends
  <2>2. CASE OpenFailed(c)
    BY <1>0, <2>2 DEF OpenFailed, Ends
  <2>3. CASE ServerClosed(c)
    BY <1>0, <2>3 DEF ServerClosed, Ends
  <2>4. CASE CloseFailed(c)
    BY <1>0, <2>4 DEF CloseFailed, Ends
  <2> QED BY <1>2, <2>1, <2>2, <2>3, <2>4 DEF Settle
<1>3. CASE Register
  BY <1>3 DEF Register
<1>4. CASE UNCHANGED vars
  BY <1>4 DEF vars
<1> QED BY <1>1, <1>2, <1>3, <1>4 DEF Next

(* The table, where the proofs look at it. *)
LEMMA Transitions ==
  ASSUME TypeOK
  PROVE  /\ "Running" \in Allowed[state] <=> state = "Starting"
         /\ "Stopping" \in Allowed[state] <=> state \in {"Starting", "Running", "Failed"}
         /\ "Failed" \in Allowed[state] <=> state \in {"Starting", "Running"}
         /\ "Stopped" \in Allowed[state] <=> state \in {"Created", "Stopping"}
  BY DEF TypeOK, States, Allowed

(* What a call's step leaves of the others. *)
LEMMA OneCall ==
  ASSUME TypeOK, NEW c \in Callers, NEW pc \in {"idle", "opening", "closing", "returned", "threw"},
         NEW s \in Servers \union {NoServer}, Awaits(c, pc, s)
  PROVE  /\ call'[c].pc = pc /\ call'[c].srv = s
         /\ \A x \in Callers : x # c => call'[x] = call[x]
  BY DEF TypeOK, Awaits

LEMMA HeldStep == IInv /\ [Next]_vars => (ClosingIsStopping /\ StoppingForgets /\ RunningListens /\ EarlierStopKeepsHandler)'
<1> SUFFICES ASSUME IInv, [Next]_vars
             PROVE  (ClosingIsStopping /\ StoppingForgets /\ RunningListens /\ EarlierStopKeepsHandler)'
  OBVIOUS
<1> DEFINE Held == ClosingIsStopping /\ StoppingForgets /\ RunningListens /\ EarlierStopKeepsHandler
<1> USE LifecycleParameters DEF LifecycleParameters
<1>a. TypeOK /\ ClosingIsStopping /\ StoppingForgets /\ RunningListens /\ EarlierStopKeepsHandler
  BY DEF IInv
<1>b. \A c \in Callers : ~ InProgress(c) => call[c].pc \notin {"opening", "closing"}
  BY DEF InProgress
<1>c. ASSUME NEW c \in Callers, NEW pc \in {"returned", "threw"}, Ends(c, pc)
      PROVE  call'[c].pc = pc /\ \A x \in Callers : x # c => call'[x] = call[x]
  BY <1>a, <1>c DEF TypeOK, Ends
<1>1. ASSUME NEW c \in Callers, Begin(c) PROVE Held'
  <2>1. CASE StartIgnored(c) \/ StartRefused(c) \/ StopIgnored(c) \/ StopRefused(c)
    <3>1. PICK pc \in {"returned", "threw"} :
            ~ InProgress(c) /\ Ends(c, pc) /\ UNCHANGED <<state, server, listening, handler, spoiled, fresh>>
      BY <2>1 DEF StartIgnored, StartRefused, StopIgnored, StopRefused
    <3> QED BY <1>a, <1>b, <1>c, <3>1 DEF ClosingIsStopping, StoppingForgets, RunningListens, EarlierStopKeepsHandler
  <2>2. ASSUME NEW s \in Servers, StartBegins(c, s) PROVE Held'
    <3>1. call'[c].pc = "opening" /\ \A x \in Callers : x # c => call'[x] = call[x]
      BY <1>a, <2>2, OneCall DEF StartBegins
    <3> QED BY <1>a, <2>2, <3>1
            DEF StartBegins, ClosingIsStopping, StoppingForgets, RunningListens, EarlierStopKeepsHandler
  <2>3. CASE StopBegins(c)
    <3>1. \A x \in Callers : call[x].pc # "closing"
      BY <1>a, <2>3 DEF StopBegins, ClosingIsStopping
    <3>2. CASE kind = "http" /\ server = NoServer
      <4>1. call'[c].pc = "returned" /\ \A x \in Callers : x # c => call'[x] = call[x]
        BY <1>c, <2>3, <3>2 DEF StopBegins
      <4> QED BY <2>3, <3>1, <3>2, <4>1
              DEF StopBegins, ClosingIsStopping, StoppingForgets, RunningListens, EarlierStopKeepsHandler
    <3>3. CASE ~ (kind = "http" /\ server = NoServer)
      <4>1. Awaits(c, "closing", server) /\ state' = "Stopping" /\ ~ fresh'
        BY <1>a, <2>3, <3>3 DEF StopBegins, TypeOK
      <4>2. call'[c].pc = "closing" /\ \A x \in Callers : x # c => call'[x] = call[x]
        BY <1>a, <4>1, OneCall DEF TypeOK
      <4> QED BY <3>1, <4>1, <4>2 DEF ClosingIsStopping, StoppingForgets, RunningListens, EarlierStopKeepsHandler
    <3> QED BY <3>2, <3>3
  <2> QED BY <1>1, <2>1, <2>2, <2>3 DEF Begin
<1>2. ASSUME NEW c \in Callers, ServerOpened(c) PROVE Held'
  <2>1. PICK pc \in {"returned", "threw"} : Ends(c, pc)
    BY <1>2 DEF ServerOpened
  <2>2. call'[c].pc \notin {"opening", "closing"} /\ \A x \in Callers : x # c => call'[x] = call[x]
    BY <1>c, <2>1
  <2>3. call[c].pc # "closing" /\ (state' = "Stopping" <=> state = "Stopping")
    BY <1>a, <1>2, Transitions DEF ServerOpened, After
  <2>4. server' \in listening'
    BY <1>2 DEF ServerOpened
  <2>5. ClosingIsStopping'
    BY <1>a, <2>2, <2>3 DEF ClosingIsStopping
  <2> QED BY <1>a, <1>2, <2>3, <2>4, <2>5 DEF ServerOpened, StoppingForgets, RunningListens, EarlierStopKeepsHandler
<1>3. ASSUME NEW c \in Callers, OpenFailed(c) PROVE Held'
  <2>1. call'[c].pc = "threw" /\ \A x \in Callers : x # c => call'[x] = call[x]
    BY <1>c, <1>3 DEF OpenFailed
  <2>2. call[c].pc = "opening" /\ (state' = state \/ (state' = "Failed" /\ state # "Stopping"))
    <3>1. "Failed" \in Allowed[state] => state # "Stopping"
      BY <1>a, Transitions
    <3> QED BY <1>3, <3>1 DEF OpenFailed, After
  <2>3. ClosingIsStopping'
    BY <1>a, <2>1, <2>2 DEF ClosingIsStopping
  <2> QED BY <1>a, <1>3, <2>2, <2>3 DEF OpenFailed, StoppingForgets, RunningListens, EarlierStopKeepsHandler
<1>4. ASSUME NEW c \in Callers, ServerClosed(c) \/ CloseFailed(c) PROVE Held'
  <2>1. PICK pc \in {"returned", "threw"} : Ends(c, pc)
    BY <1>4 DEF ServerClosed, CloseFailed
  <2>2. call'[c].pc # "closing" /\ \A x \in Callers : x # c => call'[x] = call[x]
    BY <1>c, <2>1
  <2>3. call[c].pc = "closing" /\ state = "Stopping" /\ state' = "Stopped"
    BY <1>a, <1>4, Transitions DEF ServerClosed, CloseFailed, After, ClosingIsStopping
  <2>4. ClosingIsStopping'
    BY <1>a, <2>2, <2>3 DEF ClosingIsStopping
  <2>5. (fresh => handler)'
    BY <1>a, <1>4, <2>3 DEF ServerClosed, CloseFailed, EarlierStopKeepsHandler, StoppingForgets
  <2> QED BY <2>3, <2>4, <2>5 DEF StoppingForgets, RunningListens, EarlierStopKeepsHandler
<1>5. CASE Register
  BY <1>a, <1>5 DEF Register, ClosingIsStopping, StoppingForgets, RunningListens, EarlierStopKeepsHandler
<1>6. CASE UNCHANGED vars
  BY <1>a, <1>6 DEF vars, ClosingIsStopping, StoppingForgets, RunningListens, EarlierStopKeepsHandler
<1> QED BY <1>1, <1>2, <1>3, <1>4, <1>5, <1>6 DEF Next, Settle

(* Tidy holds on until a stop overlaps a start or a close fails. *)
LEMMA TidyStep == IInv /\ [Next]_vars => (spoiled \/ Tidy)'
<1> SUFFICES ASSUME IInv, [Next]_vars, ~ spoiled' PROVE Tidy'
  OBVIOUS
<1> USE LifecycleParameters DEF LifecycleParameters
<1>a. TypeOK /\ ClosingIsStopping
  BY DEF IInv
<1>b. \A c \in Callers : ~ InProgress(c) => call[c].pc \notin {"opening", "closing"}
  BY DEF InProgress
<1>c. ASSUME NEW c \in Callers, NEW pc \in {"returned", "threw"}, Ends(c, pc)
      PROVE  call'[c].pc = pc /\ \A x \in Callers : x # c => call'[x] = call[x]
  BY <1>a, <1>c DEF TypeOK, Ends
<1>d. spoiled => spoiled'
  BY DEF Next, Begin, StartIgnored, StartRefused, StartBegins, StopIgnored, StopRefused, StopBegins, Settle,
     ServerOpened, OpenFailed, ServerClosed, CloseFailed, Register, vars
<1>e. Tidy
  BY <1>d DEF IInv
<1>f. state \in States /\ server \in Servers \union {NoServer} /\ listening \subseteq Servers
  BY <1>a DEF TypeOK
<1>k. kind \in {"http", "libp2p"}
  BY <1>a DEF TypeOK
<1>1. ASSUME NEW c \in Callers, Begin(c) PROVE Tidy'
  <2>1. CASE StartIgnored(c) \/ StartRefused(c) \/ StopIgnored(c) \/ StopRefused(c)
    <3>1. PICK pc \in {"returned", "threw"} :
            ~ InProgress(c) /\ Ends(c, pc) /\ UNCHANGED <<state, server, listening, handler, spoiled, fresh>>
      BY <2>1 DEF StartIgnored, StartRefused, StopIgnored, StopRefused
    <3>2. call'[c].pc = pc /\ \A x \in Callers : x # c => call'[x] = call[x]
      BY <1>c, <3>1
    <3> QED BY <1>b, <1>e, <3>1, <3>2 DEF Tidy
  <2>2. ASSUME NEW s \in Servers, StartBegins(c, s) PROVE Tidy'
    <3>1. call'[c].pc = "opening" /\ \A x \in Callers : x # c => call'[x] = call[x]
      BY <1>a, <2>2, OneCall DEF StartBegins
    <3>2. \A x \in Callers : call[x].pc # "opening"
      BY <1>e, <2>2 DEF Tidy, StartBegins
    <3> QED BY <1>e, <2>2, <3>1, <3>2 DEF Tidy, StartBegins
  <2>3. CASE StopBegins(c)
    <3>1. \A x \in Callers : call[x].pc # "opening"
      BY <2>3 DEF StopBegins
    <3>2. server' = NoServer /\ state \in {"Starting", "Running", "Failed"}
      BY <1>a, <2>3, Transitions DEF StopBegins
    <3>3. CASE kind = "http" /\ server = NoServer
      <4>1. /\ call'[c].pc = "returned" /\ \A x \in Callers : x # c => call'[x] = call[x]
            /\ state' = "Stopped" /\ listening' = listening
        BY <1>c, <2>3, <3>3 DEF StopBegins
      <4>2. listening = {}
        BY <1>e, <1>f, <3>2, <3>3 DEF Tidy
      <4> QED BY <3>1, <3>2, <4>1, <4>2 DEF Tidy
    <3>4. CASE ~ (kind = "http" /\ server = NoServer)
      <4>1. Awaits(c, "closing", server) /\ state' = "Stopping" /\ listening' \subseteq listening
        BY <1>k, <2>3, <3>4 DEF StopBegins
      <4>2. /\ call'[c].pc = "closing" /\ call'[c].srv = server
            /\ \A x \in Callers : x # c => call'[x] = call[x]
        BY <1>a, <1>f, <4>1, OneCall
      <4>3. \A s \in listening : s = server
        BY <1>e, <3>2 DEF Tidy
      <4> QED BY <3>1, <3>2, <4>1, <4>2, <4>3 DEF Tidy
    <3> QED BY <3>3, <3>4
  <2> QED BY <1>1, <2>1, <2>2, <2>3 DEF Begin
<1>2. ASSUME NEW c \in Callers, ServerOpened(c) PROVE Tidy'
  <2>1. state = "Starting" /\ listening = {} /\ call[c].pc = "opening"
    BY <1>e, <1>2 DEF Tidy, ServerOpened
  <2>2. state' = "Running" /\ Ends(c, "returned") /\ server' = call[c].srv /\ listening' = {call[c].srv}
    BY <1>a, <1>2, <2>1, Transitions DEF ServerOpened
  <2>3. call'[c].pc = "returned" /\ \A x \in Callers : x # c => call'[x] = call[x]
    BY <1>c, <2>2
  <2>4. \A x \in Callers : call'[x].pc # "opening"
    BY <1>e, <2>1, <2>3 DEF Tidy
  <2> QED BY <2>2, <2>4 DEF Tidy
<1>3. ASSUME NEW c \in Callers, OpenFailed(c) PROVE Tidy'
  <2>1. state = "Starting" /\ listening = {} /\ server = NoServer /\ call[c].pc = "opening"
    BY <1>e, <1>3 DEF Tidy, OpenFailed
  <2>2. state' = "Failed"
    BY <1>a, <1>3, <2>1, Transitions DEF OpenFailed, After
  <2>3. call'[c].pc = "threw" /\ \A x \in Callers : x # c => call'[x] = call[x]
    BY <1>c, <1>3 DEF OpenFailed
  <2>4. \A x \in Callers : call'[x].pc # "opening"
    BY <1>e, <2>1, <2>3 DEF Tidy
  <2> QED BY <1>3, <2>1, <2>2, <2>4 DEF Tidy, OpenFailed
<1>4. ASSUME NEW c \in Callers, ServerClosed(c) PROVE Tidy'
  <2>1. state = "Stopping" /\ state' = "Stopped" /\ call[c].pc = "closing"
    BY <1>a, <1>4, Transitions DEF ServerClosed, After, ClosingIsStopping
  <2>2. call'[c].pc = "returned" /\ \A x \in Callers : x # c => call'[x] = call[x]
    BY <1>c, <1>4 DEF ServerClosed
  <2>3. \A x \in Callers : call'[x].pc # "opening"
    BY <1>e, <2>1, <2>2 DEF Tidy
  <2>4. server' = NoServer /\ listening' = {}
    BY <1>a, <1>e, <1>4, <2>1 DEF Tidy, ClosingIsStopping, ServerClosed
  <2> QED BY <2>1, <2>3, <2>4 DEF Tidy
<1>5. ASSUME NEW c \in Callers, CloseFailed(c) PROVE Tidy'
  BY <1>5 DEF CloseFailed
<1>6. CASE Register \/ UNCHANGED vars
  BY <1>e, <1>6 DEF Tidy, Register, vars
<1> QED BY <1>1, <1>2, <1>3, <1>4, <1>5, <1>6 DEF Next, Settle

LEMMA Inductive == Spec => []IInv
<1>1. IInv /\ [Next]_vars => IInv'
  BY TypeStep, HeldStep, TidyStep DEF IInv
<1> QED BY <1>1, Started, PTL DEF Spec

(* Type correctness of a transport and the calls on it (state-machine.ts,  *)
(* start and stop of both transports).                                     *)
THEOREM TypeCorrect == Spec => []TypeOK
<1>1. IInv => TypeOK
  BY DEF IInv
<1> QED BY <1>1, Inductive, PTL

(* A Running transport serves, however starts and stops overlap            *)
(* (mesh-transport-http/src/transport.ts:82-122).                          *)
THEOREM RunningAlwaysServes == Spec => []RunningServes
<1>1. IInv => RunningServes
  BY DEF IInv, RunningListens, ClosingIsStopping, RunningServes
<1> QED BY <1>1, Inductive, PTL

(* Stopping has one stop that leaves it, whichever way the close ends      *)
(* (mesh-transport-libp2p/src/transport.ts:187-216).                       *)
THEOREM StoppingHasOneCloser == Spec => []OneCloser
<1> DEFINE Closing == {c \in Callers : call[c].pc = "closing"}
<1>1. IInv => OneCloser
  <2> SUFFICES ASSUME IInv PROVE state = "Stopping" <=> Cardinality(Closing) = 1
    BY DEF OneCloser
  <2>1. CASE state = "Stopping"
    <3>1. PICK c \in Callers : Closing = {c}
      BY <2>1 DEF IInv, ClosingIsStopping
    <3> QED BY <2>1, <3>1, FS_Singleton
  <2>2. CASE state # "Stopping"
    <3>1. Closing = {}
      BY <2>2 DEF IInv, ClosingIsStopping
    <3> QED BY <2>2, <3>1, FS_EmptySet
  <2> QED BY <2>1, <2>2
<1> QED BY <1>1, Inductive, PTL

(* A handler registered after the last stop began is not taken away        *)
(* (transport.ts:108-127).                                                 *)
THEOREM NewerHandlerStays == Spec => []EarlierStopKeepsHandler
<1>1. IInv => EarlierStopKeepsHandler
  BY DEF IInv
<1> QED BY <1>1, Inductive, PTL

(* Nothing is left listening unless a stop overlapped a start or a close   *)
(* failed (transport.ts:82-122).                                           *)
THEOREM NothingLeftListening == Spec => []CleanWithoutOverlap
<1>1. IInv => CleanWithoutOverlap
  <2> SUFFICES ASSUME TypeOK, Tidy, NEW s \in listening
               PROVE  s \in {server} \union {call[c].srv : c \in Callers} /\ state # "Stopped"
    BY DEF IInv, CleanWithoutOverlap
  <2>1. state \in {"Running", "Stopping"}
    BY DEF TypeOK, States, Tidy
  <2> QED BY <2>1 DEF Tidy
<1> QED BY <1>1, Inductive, PTL

(* start, stop and onRequest: a Running transport serves, one stop closes, *)
(* a stop never takes away a handler registered after it began, and        *)
(* nothing is left listening without an overlap.                           *)
THEOREM ServerIsOne == Spec => []OneServerRuns
<1>1. TypeOK /\ RunningServes /\ OneCloser /\ EarlierStopKeepsHandler /\ CleanWithoutOverlap => OneServerRuns
  BY DEF OneServerRuns
<1> QED BY <1>1, TypeCorrect, RunningAlwaysServes, StoppingHasOneCloser, NewerHandlerStays,
          NothingLeftListening, PTL
=============================================================================

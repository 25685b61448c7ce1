---------------------------- MODULE PeerDiscovery ----------------------------
(***************************************************************************)
(* How a node learns of its peers: MeshDiscovery                           *)
(* (packages/mesh-discovery/src/discovery.ts) over its state machine of    *)
(* peers (events.ts) and its bootstrap attempts with backoff.              *)
(*                                                                         *)
(* A timer that another one has replaced in its slot still fires: stop     *)
(* clears the timers the slots hold, and no other.  How long a timer runs  *)
(* (nextReconnectDelay) is left out: it may fire at any time.              *)
(***************************************************************************)
EXTENDS Naturals

CONSTANTS
  Peers,
  Addresses,  (* multiaddrs of bootstrap.yaml                              *)
  MaxAsked    (* bound of the model: schedulings per address               *)

ASSUME DiscoveryParameters == MaxAsked \in Nat

VARIABLES
  peer,        (* byScope; "unknown" when it has no entry                  *)
  discoveryStopped,
  armed,       (* the addresses whose slot holds a timer                   *)
  strays,      (* strays[m]: the timers of m no slot holds                 *)
  attempting,  (* attempts[m]: the calls of attemptFn in progress          *)
  asked,       (* history: the schedulings asked of discovery              *)
  reached,     (* history: the attempts that succeeded                     *)
  cut          (* history: the chains of attempts that stop ended          *)

slots == <<armed, strays, attempting, asked, reached, cut>>
discVars == <<peer, discoveryStopped, slots>>

PeerStates == {"Discovered", "Connecting", "Connected", "Stale", "Lost"}

PeerAllowed ==
  [s \in PeerStates |->
     CASE s = "Discovered" -> {"Connecting", "Lost"}
       [] s = "Connecting" -> {"Connected", "Lost"}
       [] s = "Connected"  -> {"Stale", "Lost"}
       [] s = "Stale"      -> {"Connected", "Lost"}
       [] s = "Lost"       -> {"Discovered"}]

DiscInit ==
  /\ peer = [p \in Peers |-> "unknown"]
  /\ discoveryStopped = FALSE
  /\ armed = {}
  /\ strays = [m \in Addresses |-> 0]
  /\ attempting = [m \in Addresses |-> 0]
  /\ asked = [m \in Addresses |-> 0]
  /\ reached = [m \in Addresses |-> 0]
  /\ cut = [m \in Addresses |-> 0]

(* A transition outside the table throws before it changes anything.       *)
Transition(p, next) ==
  /\ next \in PeerAllowed[peer[p]]
  /\ peer' = [peer EXCEPT ![p] = next]

(* mDNS, or a dialer, reports on a peer. *)
PeerFound(p) ==
  /\ ~ discoveryStopped
  /\ \/ peer[p] = "unknown" /\ peer' = [peer EXCEPT ![p] = "Discovered"]
     \/ peer[p] = "Lost" /\ Transition(p, "Discovered")
  /\ UNCHANGED <<discoveryStopped, slots>>

Mark(p, from, next) ==
  /\ ~ discoveryStopped
  /\ peer[p] \in from
  /\ Transition(p, next)
  /\ UNCHANGED <<discoveryStopped, slots>>

MarkConnecting(p) == Mark(p, {"Discovered", "Stale"}, "Connecting")
MarkConnected(p)  == Mark(p, {"Connecting", "Stale"}, "Connected")
MarkStale(p)      == Mark(p, {"Connected"}, "Stale")
MarkLost(p)       == Mark(p, PeerStates \ {"Lost"}, "Lost")

Plus(f, m, n) == [f EXCEPT ![m] = @ + n]
Minus(f, m, n) == [f EXCEPT ![m] = @ - n]

(* The slot of m gets a new timer; the one it held, if any, goes astray.   *)
Arm(m) ==
  /\ armed' = armed \union {m}
  /\ strays' = IF m \in armed THEN Plus(strays, m, 1) ELSE strays

ScheduleBootstrapAttempt(m) ==
  /\ ~ discoveryStopped
  /\ asked[m] < MaxAsked
  /\ asked' = Plus(asked, m, 1)
  /\ Arm(m)
  /\ UNCHANGED <<peer, discoveryStopped, attempting, reached, cut>>

AttemptTimerFires(m) ==
  /\ m \in armed
  /\ armed' = armed \ {m}
  /\ attempting' = Plus(attempting, m, 1)
  /\ UNCHANGED <<peer, discoveryStopped, strays, asked, reached, cut>>

(* A stray one clears the slot's timer too, which so goes astray itself.   *)
StrayFires(m) ==
  /\ strays[m] > 0
  /\ armed' = armed \ {m}
  /\ strays' = IF m \in armed THEN strays ELSE Minus(strays, m, 1)
  /\ attempting' = Plus(attempting, m, 1)
  /\ UNCHANGED <<peer, discoveryStopped, asked, reached, cut>>

AttemptSucceeds(m) ==
  /\ attempting[m] > 0
  /\ attempting' = Minus(attempting, m, 1)
  /\ reached' = Plus(reached, m, 1)
  /\ UNCHANGED <<peer, discoveryStopped, armed, strays, asked, cut>>

AttemptFailsOnce(m) ==                  \* mutant: a failed attempt is the last
  /\ attempting[m] > 0
  /\ attempting' = Minus(attempting, m, 1)
  /\ UNCHANGED <<peer, discoveryStopped, armed, strays, asked, reached, cut>>

AttemptFailsRearms(m) ==                \* mutant: stopped is not looked at after the attempt
  /\ attempting[m] > 0
  /\ attempting' = Minus(attempting, m, 1)
  /\ Arm(m)
  /\ UNCHANGED <<peer, discoveryStopped, asked, reached, cut>>

(* attemptFn has answered false or thrown: the next attempt is scheduled.  *)
AttemptFails(m) ==
  /\ attempting[m] > 0
  /\ attempting' = Minus(attempting, m, 1)
  /\ IF discoveryStopped
       THEN UNCHANGED <<armed, strays>> /\ cut' = Plus(cut, m, 1)
       ELSE Arm(m) /\ UNCHANGED cut
  /\ UNCHANGED <<peer, discoveryStopped, asked, reached>>

(* stop may be called again: it finds no slot then. *)
DiscoveryStop ==
  /\ discoveryStopped' = TRUE
  /\ armed' = {}
  /\ cut' = [m \in Addresses |-> cut[m] + (IF m \in armed THEN 1 ELSE 0)]
  /\ UNCHANGED <<peer, strays, attempting, asked, reached>>

DiscBootstrap(m) ==
  \/ AttemptTimerFires(m)
  \/ StrayFires(m)
  \/ AttemptSucceeds(m)
  \/ AttemptFails(m)

DiscNext ==
  \/ \E p \in Peers : PeerFound(p)
  \/ \E p \in Peers : MarkConnecting(p)
  \/ \E p \in Peers : MarkConnected(p)
  \/ \E p \in Peers : MarkStale(p)
  \/ \E p \in Peers : MarkLost(p)
  \/ \E m \in Addresses : ScheduleBootstrapAttempt(m)
  \/ \E m \in Addresses : DiscBootstrap(m)
  \/ DiscoveryStop

(* Timers fire and attempts settle. *)
DiscFairness ==
  \A m \in Addresses : WF_discVars(AttemptTimerFires(m)) /\ WF_discVars(StrayFires(m))

DiscSpec == DiscInit /\ [][DiscNext]_discVars /\ DiscFairness
-----------------------------------------------------------------------------
DiscTypeOK ==
  /\ peer \in [Peers -> PeerStates \union {"unknown"}]
  /\ discoveryStopped \in BOOLEAN
  /\ armed \subseteq Addresses
  /\ {strays, attempting, asked, reached, cut} \subseteq [Addresses -> Nat]

(* Every scheduling starts one chain of attempts and timers, which goes on *)
(* until an attempt succeeds or discovery is stopped: none is lost, and    *)
(* none splits in two, whichever timers overtake each other.               *)
ChainsAccounted ==
  \A m \in Addresses :
    asked[m] = (IF m \in armed THEN 1 ELSE 0) + strays[m] + attempting[m] + reached[m] + cut[m]

(* After stop nothing is attempted at an address unless its attempts were  *)
(* scheduled more than once: only then has a timer gone astray.  Peers     *)
(* keep the states they had.                                               *)
StopIsFinal ==
  [][discoveryStopped =>
       /\ peer' = peer
       /\ \A m \in Addresses : attempting'[m] > attempting[m] => asked[m] > 1]_discVars

(* Until it is stopped, discovery goes on attempting an address it has not *)
(* reached.                                                                *)
KeepsTrying ==
  \A m \in Addresses :
    [](reached[m] < asked[m] => <>(attempting[m] > 0 \/ discoveryStopped))

(* The attempts of an address: every chain that was asked for is           *)
(* accounted for, and peers keep to their states.                          *)
ChainsOfAttempts == DiscTypeOK /\ ChainsAccounted

(* Attempts go on until they succeed or discovery is stopped, and not      *)
(* after that.                                                             *)
AttemptsUntilStopped == StopIsFinal /\ KeepsTrying
=============================================================================

------------------------- MODULE PubSubConnection --------------------------
(***************************************************************************)
(* One opcua-pubsub-connection node: publishers and subscribers share its  *)
(* transport by reference count, and the last one to leave starts a grace  *)
(* timer so that a redeploy finds the transport still there                *)
(* (nodes/opcua-pubsub-connection.js).  Operators after "Mutant:" are not  *)
(* used by Spec: they are plausible mistakes the properties must notice.   *)
(***************************************************************************)
EXTENDS FiniteSets, Naturals

CONSTANTS Nodes,          \* publishers and subscribers
          Transports, None

ASSUME NodesAssumption == IsFiniteSet(Nodes)
ASSUME NoneAssumption == None \notin Transports

VARIABLES open,           \* is the connection node deployed?
          refCount, shared, connected, grace, callbacks,
          running,        \* the nodes deployed on it
          tr, ready,      \* a node's transport, and does it think it is connected?
          transport       \* what a transport really is

connection == <<open, refCount, shared, connected, grace, callbacks>>
consumers == <<running, tr, ready>>
connVars == <<connection, consumers, transport>>

ConnInit ==
  /\ open = TRUE /\ refCount = 0 /\ shared = None /\ connected = FALSE
  /\ grace = FALSE /\ callbacks = {} /\ running = {}
  /\ tr = [n \in Nodes |-> None] /\ ready = [n \in Nodes |-> FALSE]
  /\ transport = [t \in Transports |-> "closed"]

-----------------------------------------------------------------------------
(* A transport object that does not exist yet.                              *)
New(t) == transport[t] = "closed" /\ \A n \in Nodes : tr[n] # t

(* Mutant: the close of the previous consumer still pending.                *)
TimerLeft == grace

TimerCancelled == FALSE

(* acquireTransport(): the transport is created and connected on first use. *)
Acquire(t) ==
  /\ IF shared = None THEN New(t) ELSE t = shared
  /\ shared' = t
  /\ transport' = [transport EXCEPT ![t] = IF shared = None THEN "connecting" ELSE @]

(* registerStatusCallback(): what a new consumer is told at once.           *)
ToldAtOnce(n) == shared # None /\ connected

Deploy(n) ==
  /\ open /\ n \notin running
  /\ running' = running \cup {n} /\ callbacks' = callbacks \cup {n}
  /\ ready' = [ready EXCEPT ![n] = ToldAtOnce(n)]
  /\ refCount' = refCount + 1 /\ grace' = TimerCancelled
  /\ \E t \in Transports : Acquire(t) /\ tr' = [tr EXCEPT ![n] = t]
  /\ UNCHANGED <<open, connected>>

(* A publisher whose setup fails after it has acquired the transport gives  *)
(* it back and unregisters.                                                 *)
SetupFails(n) ==
  /\ open /\ n \notin running
  /\ \E t \in Transports : Acquire(t)
  /\ grace' = (refCount = 0)
  /\ UNCHANGED <<open, refCount, connected, callbacks, consumers>>

(* Mutant: one consumer is not counted.                                     *)
LastButOne(count) == count <= 1

Unused(count) == count = 0

(* releaseTransport() starts the grace timer.                               *)
Arms == Unused(refCount') /\ shared # None

CloseNode(n) ==
  /\ n \in running
  /\ running' = running \ {n} /\ callbacks' = callbacks \ {n}
  /\ tr' = [tr EXCEPT ![n] = None] /\ ready' = [ready EXCEPT ![n] = FALSE]
  /\ refCount' = IF refCount = 0 THEN 0 ELSE refCount - 1
  /\ grace' = (grace \/ Arms)
  /\ UNCHANGED <<open, shared, connected, transport>>

Closing(t) == [transport EXCEPT ![t] = "closing"]

(* The timer callback: detach the transport, then close it.                 *)
GraceFires ==
  /\ grace /\ grace' = FALSE
  /\ IF Unused(refCount) /\ shared # None
     THEN /\ transport' = Closing(shared)
          /\ shared' = None /\ connected' = FALSE /\ callbacks' = {}
     ELSE UNCHANGED <<transport, shared, connected, callbacks>>
  /\ UNCHANGED <<open, refCount, consumers>>

(* The connection node is closed after its consumers.                       *)
CloseConnection ==
  /\ open /\ running = {}
  /\ open' = FALSE /\ grace' = FALSE /\ shared' = None /\ connected' = FALSE
  /\ refCount' = 0 /\ callbacks' = {}
  /\ transport' = IF shared = None THEN transport ELSE Closing(shared)
  /\ UNCHANGED consumers

-----------------------------------------------------------------------------
(* The transports and their events.                                         *)

Told(ok) ==
  /\ connected' = ok
  /\ ready' = [n \in Nodes |-> IF n \in callbacks THEN ok ELSE ready[n]]

(* Mutant: any transport's events reach the consumers.                      *)
FanOutAll(t, ok) == Told(ok)

(* fanOut(): only the current transport's events reach the consumers.       *)
FanOut(t, ok) == IF shared = t THEN Told(ok) ELSE UNCHANGED <<connected, ready>>

Becomes(t, state) ==
  /\ transport' = [transport EXCEPT ![t] = state]
  /\ FanOut(t, state = "up")
  /\ UNCHANGED <<open, refCount, shared, grace, callbacks, running, tr>>

Connects(t) == transport[t] \in {"connecting", "down"} /\ Becomes(t, "up")
Drops(t) == transport[t] = "up" /\ Becomes(t, "down")
Closed(t) == transport[t] = "closing" /\ Becomes(t, "closed")

Lives == \E n \in Nodes : Deploy(n) \/ SetupFails(n) \/ CloseNode(n)
Events == \E t \in Transports : Connects(t) \/ Drops(t) \/ Closed(t)
ConnNext == Lives \/ GraceFires \/ CloseConnection \/ Events
ConnSpec == ConnInit /\ [][ConnNext]_connVars

-----------------------------------------------------------------------------
(* Properties.                                                              *)

ConnTypeOK ==
  /\ open \in BOOLEAN /\ refCount \in Nat /\ shared \in Transports \cup {None}
  /\ connected \in BOOLEAN /\ grace \in BOOLEAN
  /\ callbacks \subseteq Nodes /\ running \subseteq Nodes
  /\ tr \in [Nodes -> Transports \cup {None}] /\ ready \in [Nodes -> BOOLEAN]
  /\ transport \in [Transports -> {"closed", "connecting", "up", "down", "closing"}]

InUse(t) == transport[t] \in {"connecting", "up", "down"}

(* Every consumer has the one transport that is in use: none sends to, or   *)
(* listens on, one that the grace timer has closed.                         *)
ConsumersShare ==
  /\ refCount = Cardinality(running) /\ callbacks = running
  /\ \A n \in running : tr[n] = shared /\ shared # None
  /\ shared # None => InUse(shared)

(* No transport is left behind: one that is in use is the connection's, and *)
(* without consumers its grace timer runs.                                  *)
NoneLeftBehind ==
  /\ \A t \in Transports : InUse(t) => t = shared
  /\ grace <=> shared # None /\ running = {}

(* A consumer knows whether its transport is connected, however late it     *)
(* joined and whatever a closing transport still says: a publisher neither  *)
(* sends into the void nor queues for ever (HI-05).                         *)
ReadyIsTrue ==
  /\ connected <=> shared # None /\ transport[shared] = "up"
  /\ \A n \in running : ready[n] <=> transport[tr[n]] = "up"

=============================================================================

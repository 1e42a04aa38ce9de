-------------------------- MODULE EndpointSharing --------------------------
(***************************************************************************)
(* One opcua-endpoint node and the client nodes that share its manager     *)
(* (nodes/opcua-endpoint.js; the input loop and the close handler are      *)
(* those of nodes/opcua-client.js, which the other client nodes shorten).  *)
(*                                                                         *)
(* A manager is what OwnedConnection says of it: phase and live; late says *)
(* that it has been asked for a connection while it is being released, and *)
(* loop whether a reconnect() of it is under way, which ends by itself     *)
(* ("bounded") or only with a connection or with disconnect() ("endless"). *)
(* Operators after "Mutant:" are not used by Spec (see ClientManager).     *)
(***************************************************************************)
EXTENDS FiniteSets, Naturals

CONSTANTS Nodes, Managers, None,
          MaxRetries,       \* maxOperationRetries
          Patient           \* the nodes whose retryAttempts is 0: no limit

ASSUME NodesAssumption == IsFiniteSet(Nodes)
ASSUME PatientAssumption == Patient \subseteq Nodes
ASSUME NoneAssumption == None \notin Managers
ASSUME RetriesAssumption == MaxRetries \in Nat

VARIABLES open,             \* is the endpoint node itself deployed?
          refCount, shared, callbacks,
          node,             \* life of a client node
          mgr,              \* its clientManager
          input, tries,     \* where the message it handles is, and its attempts
          phase, live, late, loop,
          intruded          \* history: managers asked by a node that closed them

endpoint == <<open, refCount, shared, callbacks>>
clients == <<node, mgr>>
messages == <<input, tries>>
managers == <<phase, live, late, loop>>
vars == <<endpoint, clients, messages, managers, intruded>>

Init ==
  /\ open = TRUE /\ refCount = 0 /\ shared = None /\ callbacks = {}
  /\ node = [n \in Nodes |-> "absent"] /\ mgr = [n \in Nodes |-> None]
  /\ input = [n \in Nodes |-> "idle"] /\ tries = [n \in Nodes |-> 0]
  /\ phase = [m \in Managers |-> "released"]
  /\ live = [m \in Managers |-> FALSE] /\ late = [m \in Managers |-> FALSE]
  /\ loop = [m \in Managers |-> "none"]
  /\ intruded = {}

Goes(n, where) == input' = [input EXCEPT ![n] = where]

-----------------------------------------------------------------------------
(* The manager: connect() and reconnect(), and what comes of them.          *)

Ask(m) ==
  /\ phase' = [phase EXCEPT ![m] = IF @ = "released" THEN "used" ELSE @]
  /\ late' = [late EXCEPT ![m] = @ \/ phase[m] = "releasing"]

AskFor(n) ==
  /\ Ask(mgr[n])
  /\ intruded' = intruded \cup ({mgr[n]} \ {shared})

(* reconnect(): a call joins the loop that runs, whatever limit that has;   *)
(* one within the cool-down finds the connection back; any other drops the  *)
(* connection and starts a loop with the limit of the caller.               *)
JoinLoop(n) ==
  /\ loop[mgr[n]] # "none"
  /\ Goes(n, "reconnect") /\ UNCHANGED <<managers, intruded>>

CoolDown(n) ==
  /\ loop[mgr[n]] = "none" /\ live[mgr[n]]
  /\ Goes(n, "backoff") /\ UNCHANGED <<managers, intruded>>

StartLoop(n) ==
  /\ loop[mgr[n]] = "none"
  /\ Goes(n, "reconnect") /\ AskFor(n)
  /\ live' = [live EXCEPT ![mgr[n]] = FALSE]
  /\ loop' = [loop EXCEPT ![mgr[n]] = IF n \in Patient THEN "endless" ELSE "bounded"]

Connects(m) ==
  /\ phase[m] = "used" /\ ~live[m]
  /\ live' = [live EXCEPT ![m] = TRUE]
  /\ UNCHANGED <<endpoint, clients, messages, phase, late, loop, intruded>>

Loses(m) ==
  /\ live[m]
  /\ live' = [live EXCEPT ![m] = FALSE]
  /\ UNCHANGED <<endpoint, clients, messages, phase, late, loop, intruded>>

(* disconnect() begins with the end of the lifecycle, and so of its loop.   *)
StartDisconnect(m) ==
  /\ phase' = [phase EXCEPT ![m] = "releasing"]
  /\ loop' = [loop EXCEPT ![m] = IF @ = "none" THEN @ ELSE "bounded"]
  /\ UNCHANGED <<live, late>>

Disconnected(m) ==
  /\ phase[m] = "releasing"
  /\ phase' = [phase EXCEPT ![m] = IF late[m] THEN "used" ELSE "released"]
  /\ live' = [live EXCEPT ![m] = FALSE]
  /\ late' = [late EXCEPT ![m] = FALSE]
  /\ UNCHANGED <<endpoint, clients, messages, loop, intruded>>

(* The loop settles: with a connection, or for good if it has a limit or    *)
(* its lifecycle has ended.  Every message that waits for it goes on, or is *)
(* answered with the error if it has no attempt left.                       *)
Waiters(m) == {n \in Nodes : input[n] = "reconnect" /\ mgr[n] = m}

LoopEnds(m) ==
  /\ loop[m] # "none"
  /\ loop' = [loop EXCEPT ![m] = "none"]
  /\ \E connected \in BOOLEAN :
       LET givenUp == {n \in Waiters(m) : ~connected /\ tries[n] >= MaxRetries} IN
       /\ connected => live[m]
       /\ ~connected => loop[m] = "bounded"
       /\ input' = [n \in Nodes |-> IF n \in givenUp THEN "idle"
                                     ELSE IF n \in Waiters(m) THEN "backoff" ELSE input[n]]
       /\ tries' = [n \in Nodes |-> IF n \in givenUp THEN 0 ELSE tries[n]]
  /\ UNCHANGED <<endpoint, clients, phase, live, late, intruded>>

-----------------------------------------------------------------------------
(* The endpoint.                                                            *)

(* Mutant: whichever manager the event comes from.                          *)
ForwardedToAll(m) == callbacks

(* The nodes that an event of manager m is forwarded to.                    *)
Forwarded(m) == IF shared = m THEN callbacks ELSE {}

(* A manager object that does not exist yet.                                *)
New(m) ==
  /\ m # shared /\ m \notin intruded /\ phase[m] = "released"
  /\ \A n \in Nodes : mgr[n] # m

(* Mutant: only the node that creates the manager is counted.               *)
CountedOnce == IF shared = None THEN refCount + 1 ELSE refCount

Counted == refCount + 1

(* getSharedManager() and registerStatusCallback() by a new client node,    *)
(* which then connects, unless it is configured not to.                     *)
Deploy(n) ==
  /\ open /\ node[n] = "absent"
  /\ node' = [node EXCEPT ![n] = "running"]
  /\ refCount' = Counted
  /\ callbacks' = callbacks \cup {n}
  /\ \E m \in Managers :
       /\ IF shared = None THEN New(m) ELSE m = shared
       /\ shared' = m
       /\ mgr' = [mgr EXCEPT ![n] = m]
       /\ UNCHANGED managers \/ (~live[m] /\ Ask(m) /\ UNCHANGED <<live, loop>>)
  /\ UNCHANGED <<open, messages, intruded>>

Left == IF refCount = 0 THEN 0 ELSE refCount - 1

(* Mutant: the manager stays the endpoint's own while it is disconnected.   *)
ReleaseInPlace(n) ==
  /\ refCount' = Left
  /\ IF Left = 0 /\ shared # None
     THEN callbacks' = {} /\ StartDisconnect(shared)
     ELSE callbacks' = callbacks \ {n} /\ UNCHANGED managers
  /\ UNCHANGED shared

(* Mutant: a manager that is still reconnecting is not disconnected.        *)
ReleaseConnected(n) ==
  /\ refCount' = Left
  /\ IF Left = 0 /\ shared # None
     THEN /\ shared' = None /\ callbacks' = {}
          /\ IF live[shared] THEN StartDisconnect(shared) ELSE UNCHANGED managers
     ELSE callbacks' = callbacks \ {n} /\ UNCHANGED <<shared, managers>>

(* Unregister the callback, then releaseSharedManager() up to its await:    *)
(* the last node disconnects the manager, which is the endpoint's no more.  *)
ReleaseShared(n) ==
  /\ refCount' = Left
  /\ IF Left = 0 /\ shared # None
     THEN shared' = None /\ callbacks' = {} /\ StartDisconnect(shared)
     ELSE callbacks' = callbacks \ {n} /\ UNCHANGED <<shared, managers>>

(* The endpoint node itself is closed, when none of its nodes is running:   *)
(* Node-RED may still be waiting for some of them.                          *)
EndpointCloses ==
  /\ open /\ \A n \in Nodes : node[n] # "running"
  /\ open' = FALSE /\ shared' = None /\ refCount' = 0 /\ callbacks' = {}
  /\ IF shared # None THEN StartDisconnect(shared) ELSE UNCHANGED managers
  /\ UNCHANGED <<clients, messages, intruded>>

-----------------------------------------------------------------------------
(* The close handler of a client node: it terminates its subscriptions for  *)
(* at most two seconds, then leaves the endpoint.                           *)

StartClose(n) ==
  /\ node[n] = "running"
  /\ node' = [node EXCEPT ![n] = "terminating"]
  /\ UNCHANGED <<endpoint, mgr, messages, managers, intruded>>

LeaveEndpoint(n) ==
  /\ node[n] = "terminating"
  /\ ReleaseShared(n)
  /\ node' = [node EXCEPT ![n] = "releasing"]
  /\ UNCHANGED <<open, mgr, messages, intruded>>

(* Mutant: a node waits until nobody uses the manager any more.          *)
NobodyAsks(m) == phase[m] = "released"

(* Only the last node awaits the manager's disconnect().                    *)
DisconnectSettled(m) == phase[m] # "releasing"

Closed(n) ==
  /\ node[n] = "releasing" /\ DisconnectSettled(mgr[n])
  /\ node' = [node EXCEPT ![n] = "gone"]
  /\ UNCHANGED <<endpoint, mgr, messages, managers, intruded>>

(* The closed node is garbage once its message is handled.                  *)
Forget(n) ==
  /\ node[n] = "gone" /\ input[n] = "idle"
  /\ node' = [node EXCEPT ![n] = "absent"]
  /\ mgr' = [mgr EXCEPT ![n] = None]
  /\ UNCHANGED <<endpoint, messages, managers, intruded>>

-----------------------------------------------------------------------------
(* The input handler: connect if need be, operate, and after a lost         *)
(* connection reconnect, back off and start over, a bounded number of       *)
(* times.  Nothing ends it when its node is closed.                         *)

Keep == UNCHANGED <<endpoint, clients, managers, intruded>>

(* The head of the loop, ensureConnected().                                 *)
TryOperation(n) ==
  IF live[mgr[n]]
  THEN Goes(n, "operate") /\ UNCHANGED <<managers, intruded>>
  ELSE Goes(n, "connect") /\ AskFor(n) /\ UNCHANGED <<live, loop>>

Receive(n) ==
  /\ node[n] = "running" /\ input[n] = "idle"
  /\ tries' = [tries EXCEPT ![n] = 0]
  /\ TryOperation(n)
  /\ UNCHANGED <<endpoint, clients>>

ConnectResolves(n) ==
  /\ input[n] = "connect" /\ live[mgr[n]]
  /\ Goes(n, "operate")
  /\ UNCHANGED tries /\ Keep

(* The message is sent on, or its operation fails for a reason of its own.  *)
Answered(n) ==
  /\ input[n] \in {"connect", "operate"}
  /\ input[n] = "connect" => ~live[mgr[n]]
  /\ Goes(n, "idle") /\ tries' = [tries EXCEPT ![n] = 0]
  /\ Keep


Attempted(n) == tries[n] + 1

(* The connection is lost, or none is to be had.                            *)
ConnectionLost(n) ==
  /\ input[n] \in {"connect", "operate"}
  /\ input[n] = "connect" => ~live[mgr[n]]
  /\ IF tries[n] >= MaxRetries
     THEN /\ Goes(n, "idle") /\ tries' = [tries EXCEPT ![n] = 0]
          /\ UNCHANGED <<managers, intruded>>
     ELSE /\ tries' = [tries EXCEPT ![n] = Attempted(n)]
          /\ JoinLoop(n) \/ CoolDown(n) \/ StartLoop(n)
  /\ UNCHANGED <<endpoint, clients>>

BackoffOver(n) ==
  /\ input[n] = "backoff"
  /\ TryOperation(n)
  /\ UNCHANGED <<endpoint, clients, tries>>

-----------------------------------------------------------------------------
Handles(n) ==
  ConnectResolves(n) \/ Answered(n) \/ ConnectionLost(n) \/ BackoffOver(n)
Closes(n) == LeaveEndpoint(n) \/ Closed(n)

Next ==
  \/ \E n \in Nodes : Deploy(n) \/ StartClose(n) \/ Forget(n) \/ Receive(n)
  \/ \E n \in Nodes : Closes(n) \/ Handles(n)
  \/ \E m \in Managers : Connects(m) \/ Loses(m) \/ Disconnected(m) \/ LoopEnds(m)
  \/ EndpointCloses

Spec == Init /\ [][Next]_vars

(* Single attempts and timers settle; so do disconnect() (DisconnectSettles *)
(* of ClientManager, for a server that answers in the end) and a loop with  *)
(* a limit.  A loop without one ends only with a connection: nothing says   *)
(* that Connects ever happens.                                              *)
Fairness ==
  /\ \A n \in Nodes : WF_vars(Handles(n)) /\ WF_vars(Closes(n))
  /\ \A m \in Managers : WF_vars(Disconnected(m)) /\ WF_vars(LoopEnds(m))
LiveSpec == Spec /\ Fairness

-----------------------------------------------------------------------------
(* Properties.                                                              *)

Holders == {n \in Nodes : node[n] \in {"running", "terminating"}}

EndpointTypeOK ==
  /\ open \in BOOLEAN /\ refCount \in Nat
  /\ shared \in Managers \cup {None} /\ callbacks \subseteq Nodes
ClientsTypeOK ==
  /\ node \in [Nodes -> {"absent", "running", "terminating", "releasing", "gone"}]
  /\ mgr \in [Nodes -> Managers \cup {None}]
  /\ input \in [Nodes -> {"idle", "connect", "operate", "reconnect", "backoff"}]
  /\ tries \in [Nodes -> 0 .. MaxRetries]
ManagersTypeOK ==
  /\ phase \in [Managers -> {"released", "used", "releasing"}]
  /\ live \in [Managers -> BOOLEAN] /\ late \in [Managers -> BOOLEAN]
  /\ loop \in [Managers -> {"none", "bounded", "endless"}]
  /\ intruded \subseteq Managers

(* Every variable has its type; a message is retried MaxRetries times.      *)
TypeOK == EndpointTypeOK /\ ClientsTypeOK /\ ManagersTypeOK

(* refCount counts the nodes that use the endpoint, and while there is one  *)
(* they all hold its shared manager and that is not being disconnected:     *)
(* nobody's connection is closed by another node's close.                   *)
RefCountExact == open => refCount = Cardinality(Holders)
HoldersShare ==
  open => \A n \in Holders : mgr[n] = shared /\ phase[shared] # "releasing"
SharedInUse == RefCountExact /\ HoldersShare

(* A manager that no node uses is disconnected: unless a node that has left *)
(* it asked it again, only the endpoint's shared manager is in use.         *)
UnusedIsReleased ==
  \A m \in Managers : phase[m] = "used" => m = shared \/ m \in intruded

(* No exception: comments in scheduleReconnect() and _lifecycle of the      *)
(* client manager say that nothing reconnects after disconnect().           *)
NothingReconnects == \A m \in Managers : phase[m] = "used" => m = shared

(* While a manager disconnects it is not disconnected again, nor asked for  *)
(* a connection but for the same exception: what ClientManager requires of  *)
(* its users (Undisturbed, and no disconnect() while one is under way).     *)
CalmRelease ==
  \A m \in Managers : phase[m] = "releasing" => m # shared /\ (late[m] => m \in intruded)

(* An event of a manager reaches the nodes that use this manager, all of    *)
(* them and no other: not those of the next deploy.                         *)
EventsReachUsers ==
  open => \A m \in Managers : Forwarded(m) = {n \in Holders : mgr[n] = m}

(* The inductive invariant behind them.                                     *)
Registered == callbacks = IF open THEN Holders ELSE {}
OneShared ==
  /\ shared # None <=> open /\ Holders # {}
  /\ open => \A n \in Holders : mgr[n] = shared
  /\ \A n \in Nodes : node[n] # "absent" \/ input[n] # "idle" => mgr[n] # None
  /\ \A n \in Nodes : input[n] # "idle" => node[n] # "absent"
LateWhileReleasing == \A m \in Managers : late[m] => phase[m] = "releasing"
Sharing ==
  /\ RefCountExact /\ Registered /\ OneShared
  /\ UnusedIsReleased /\ CalmRelease /\ LateWhileReleasing

(* Every message is answered in the end, whatever happens to its node, with *)
(* one exception: it waits for ever in a reconnect() without a limit (its   *)
(* own, or the one of another node that it has joined) of a manager whose   *)
(* connection does not stay, and that nobody disconnects.                   *)
WaitsForServer(n) == input[n] = "reconnect" /\ loop[mgr[n]] = "endless"


(* Node-RED's close of a node completes.                                    *)
CloseCompletes ==
  \A n \in Nodes : node[n] \in {"terminating", "releasing"} ~> node[n] = "gone"

=============================================================================

---------------------------- MODULE BrowseCache -----------------------------
(***************************************************************************)
(* The connections of the editor's address-space tree, one for each        *)
(* endpoint, cached until they have not been asked for during 60 s         *)
(* (nodes/opcua-browse-client.js).  Operators after "Mutant:" are not used *)
(* by Spec: they are plausible mistakes the properties must notice.        *)
(***************************************************************************)
EXTENDS FiniteSets, Naturals

CONSTANTS Endpoints, Managers,
          Requests,     \* Bound: every request is made once
          None

ASSUME NoneAssumption == None \notin Managers

VARIABLES mgr,          \* a manager: "unused", "connecting", "up", "down", "closing", "closed"
          of,           \* the endpoint it is made for
          browseConnections, pendingConnections,    \* endpoints to managers
          timers,       \* managers whose entry has an idle timer running
          request       \* "none", the manager it waits for or uses, or "answered"

cache == <<browseConnections, pendingConnections, timers>>
vars == <<mgr, of, cache, request>>

Init ==
  /\ mgr = [m \in Managers |-> "unused"] /\ of = [m \in Managers |-> None]
  /\ browseConnections = [e \in Endpoints |-> None]
  /\ pendingConnections = [e \in Endpoints |-> None]
  /\ timers = {} /\ request = [r \in Requests |-> "none"]

-----------------------------------------------------------------------------
Is(m, state) == mgr' = [mgr EXCEPT ![m] = state]

(* Mutant: the attempts under way are not looked up.                        *)
NoneInFlight(e) == None

InFlight(e) == pendingConnections[e]

(* createBrowseConnection() up to its connect().                            *)
CreateBrowseConnection(e, m) ==
  /\ of' = [of EXCEPT ![m] = e]
  /\ pendingConnections' = [pendingConnections EXCEPT ![e] = m]

(* getBrowseConnection() with a connection in the cache that is up.         *)
UseCached(r, e) ==
  LET m == browseConnections[e] IN
  /\ m # None
  /\ mgr[m] = "up"
  /\ timers' = timers \cup {m} /\ request' = [request EXCEPT ![r] = m]
  /\ UNCHANGED <<mgr, of, browseConnections, pendingConnections>>

(* With none, or one that is lost: that one is dropped, its idle timer just *)
(* restarted, and the attempt in flight is joined or a new one is made.     *)
ConnectAnew(r, e) ==
  LET old == browseConnections[e] IN
  /\ IF old = None THEN TRUE ELSE mgr[old] # "up"
  /\ browseConnections' = [browseConnections EXCEPT ![e] = None]
  /\ timers' = IF old = None THEN timers ELSE timers \cup {old}
  /\ LET dropped == IF old = None THEN mgr ELSE [mgr EXCEPT ![old] = "closing"] IN
     IF InFlight(e) # None
     THEN /\ mgr' = dropped /\ request' = [request EXCEPT ![r] = InFlight(e)]
          /\ UNCHANGED <<of, pendingConnections>>
     ELSE \E m \in Managers :
            /\ mgr[m] = "unused" /\ mgr' = [dropped EXCEPT ![m] = "connecting"]
            /\ CreateBrowseConnection(e, m) /\ request' = [request EXCEPT ![r] = m]

Request(r, e) == request[r] = "none" /\ (UseCached(r, e) \/ ConnectAnew(r, e))

(* Mutant: the timer of a new connection is only started by a later request. *)
NotYet(m) == timers

(* The idle timer of an entry.                                              *)
Started(m) == timers \cup {m}

Connected(m) ==
  /\ mgr[m] = "connecting" /\ Is(m, "up")
  /\ pendingConnections' = [pendingConnections EXCEPT ![of[m]] = None]
  /\ browseConnections' = [browseConnections EXCEPT ![of[m]] = m]
  /\ timers' = Started(m)
  /\ UNCHANGED <<of, request>>

(* A failed attempt is not cached, and gives back what it had.              *)
ConnectFails(m) ==
  /\ mgr[m] = "connecting" /\ Is(m, "closing")
  /\ UNCHANGED <<of, cache, request>>

(* Its pending promise settles when disconnect() has.                       *)
Disconnected(m) ==
  /\ mgr[m] = "closing" /\ Is(m, "closed")
  /\ pendingConnections' = [e \in Endpoints |->
       IF pendingConnections[e] = m THEN None ELSE pendingConnections[e]]
  /\ UNCHANGED <<of, browseConnections, timers, request>>

(* The manager loses its connection, or has it back by itself.              *)
Lost(m) == mgr[m] = "up" /\ Is(m, "down") /\ UNCHANGED <<of, cache, request>>
Repaired(m) == mgr[m] = "down" /\ Is(m, "up") /\ UNCHANGED <<of, cache, request>>

(* The route has what it wanted from the manager, or an error.              *)
Answer(r) ==
  /\ request[r] \in Managers /\ \A e \in Endpoints : pendingConnections[e] # request[r]
  /\ request' = [request EXCEPT ![r] = "answered"]
  /\ UNCHANGED <<mgr, of, cache>>

(* closeBrowseConnection(), for a set of endpoints; fired is the timer that *)
(* asks for it.                                                             *)
CloseBrowseConnections(es, fired) ==
  LET closed == {browseConnections[e] : e \in es} \ {None} IN
  /\ browseConnections' = [e \in Endpoints |-> IF e \in es THEN None ELSE browseConnections[e]]
  /\ mgr' = [m \in Managers |-> IF m \in closed THEN "closing" ELSE mgr[m]]
  /\ timers' = timers \ (closed \cup fired)
  /\ UNCHANGED <<of, pendingConnections, request>>

(* A timer knows its endpoint, and closes what is cached for it by now.     *)
Expire(m) == m \in timers /\ CloseBrowseConnections({of[m]}, {m})

(* The route "disconnect".                                                  *)
Disconnect(e) == browseConnections[e] # None /\ CloseBrowseConnections({e}, {})

(* "flows:stopped" closes what is cached, but no attempt in flight.         *)
FlowsStopped == (\E e \in Endpoints : browseConnections[e] # None) /\ CloseBrowseConnections(Endpoints, {})

Goes(m) == Connected(m) \/ ConnectFails(m) \/ Disconnected(m)
Next ==
  \/ \E r \in Requests : Answer(r) \/ \E e \in Endpoints : Request(r, e)
  \/ \E m \in Managers : Goes(m) \/ Lost(m) \/ Repaired(m) \/ Expire(m)
  \/ FlowsStopped \/ \E e \in Endpoints : Disconnect(e)

(* Attempts and disconnects settle, and timers fire.                        *)
Fairness == \A m \in Managers : WF_vars(Goes(m)) /\ WF_vars(Expire(m))
Spec == Init /\ [][Next]_vars /\ Fairness

-----------------------------------------------------------------------------
(* Properties.                                                              *)

TypeOK ==
  /\ mgr \in [Managers -> {"unused", "connecting", "up", "down", "closing", "closed"}]
  /\ of \in [Managers -> Endpoints \cup {None}] /\ timers \subseteq Managers
  /\ browseConnections \in [Endpoints -> Managers \cup {None}]
  /\ pendingConnections \in [Endpoints -> Managers \cup {None}]
  /\ request \in [Requests -> Managers \cup {"none", "answered"}]

IsOpen(m) == mgr[m] \in {"connecting", "up", "down"}

(* No connection is orphaned by requests that expand the tree in parallel   *)
(* (issue #17): one that is open is the one cached for its endpoint, or the *)
(* one attempt in flight, and something is there that will close it.        *)
NoneOrphaned ==
  \A m \in Managers : IsOpen(m) =>
    \/ mgr[m] = "connecting" /\ pendingConnections[of[m]] = m
    \/ mgr[m] # "connecting" /\ browseConnections[of[m]] = m /\ m \in timers

(* A connection that is no longer asked for is closed, also one that was    *)
(* being opened when the flows were stopped.                                *)
IdleAreClosed == \A m \in Managers : mgr[m] = "connecting" ~> mgr[m] = "closed"

(* The idle timer of a connection closes no other.                          *)
OnlyIdleAreClosed == \A m \in timers : browseConnections[of[m]] \in {m, None}

=============================================================================

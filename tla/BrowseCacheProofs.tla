-------------------------- MODULE BrowseCacheProofs --------------------------
(***************************************************************************)
(* No connection of the editor is orphaned, for any number of endpoints,   *)
(* connections and requests.                                               *)
(***************************************************************************)
EXTENDS BrowseCache, TLAPS

(* A connection in the cache is its endpoint's, and has an idle timer.      *)
Cached ==
  \A e \in Endpoints : browseConnections[e] # None =>
    /\ of[browseConnections[e]] = e
    /\ mgr[browseConnections[e]] \in {"up", "down"}
    /\ browseConnections[e] \in timers

(* While an attempt is in flight, or fails, nothing is cached.              *)
Pending ==
  \A e \in Endpoints : pendingConnections[e] # None =>
    /\ of[pendingConnections[e]] = e
    /\ mgr[pendingConnections[e]] \in {"connecting", "closing"}
    /\ browseConnections[e] = None

Made == \A m \in Managers : mgr[m] # "unused" => of[m] \in Endpoints
TimersOfMade == \A m \in timers : mgr[m] # "unused"

IInv == TypeOK /\ Cached /\ Pending /\ Made /\ TimersOfMade /\ NoneOrphaned

LEMMA InitHolds == Init => IInv
BY DEF Init, IInv, TypeOK, Cached, Pending, Made, TimersOfMade, NoneOrphaned, IsOpen

LEMMA RequestStep ==
  ASSUME IInv, NEW r \in Requests, NEW e \in Endpoints, Request(r, e)
  PROVE  IInv'
<1>1. CASE UseCached(r, e)
  BY <1>1 DEF UseCached, IInv, TypeOK, Cached, Pending, Made, TimersOfMade, NoneOrphaned, IsOpen
<1>2. CASE ConnectAnew(r, e)
  <2> DEFINE old == browseConnections[e]
             dropped == IF old = None THEN mgr ELSE [mgr EXCEPT ![old] = "closing"]
  <2>0. /\ browseConnections' = [browseConnections EXCEPT ![e] = None]
        /\ timers' = IF old = None THEN timers ELSE timers \cup {old}
        /\ old \in Managers \cup {None} /\ dropped \in [Managers -> {"unused", "connecting", "up", "down", "closing", "closed"}]
    BY <1>2 DEF ConnectAnew, IInv, TypeOK
  <2>1. CASE InFlight(e) # None
    <3>1. mgr' = dropped /\ request' = [request EXCEPT ![r] = InFlight(e)]
          /\ of' = of /\ pendingConnections' = pendingConnections
      BY <1>2, <2>1 DEF ConnectAnew
    <3>2. old = None
      BY <2>1 DEF InFlight, IInv, Pending
    <3>3. mgr' = mgr /\ timers' = timers /\ browseConnections' = browseConnections
      BY <2>0, <3>1, <3>2 DEF IInv, TypeOK
    <3> QED
      BY <2>1, <3>1, <3>3 DEF InFlight, IInv, TypeOK, Cached, Pending, Made, TimersOfMade, NoneOrphaned, IsOpen
  <2>2. CASE InFlight(e) = None
    <3>1. PICK m \in Managers :
            /\ mgr[m] = "unused" /\ mgr' = [dropped EXCEPT ![m] = "connecting"]
            /\ CreateBrowseConnection(e, m) /\ request' = [request EXCEPT ![r] = m]
      BY <1>2, <2>2 DEF ConnectAnew
    <3>2. of' = [of EXCEPT ![m] = e] /\ pendingConnections' = [pendingConnections EXCEPT ![e] = m]
      BY <3>1 DEF CreateBrowseConnection
    <3>3. old # m /\ (old # None => mgr[old] \in {"up", "down"} /\ of[old] = e)
      BY <3>1, NoneAssumption DEF IInv, Cached
    <3>4. mgr'[m] = "connecting" /\ of'[m] = e
      BY <2>0, <3>1, <3>2 DEF IInv, TypeOK
    <3>5. \A n \in Managers : n # m => of'[n] = of[n] /\ mgr'[n] = IF n = old THEN "closing" ELSE mgr[n]
      BY <2>0, <3>1, <3>2, NoneAssumption DEF IInv, TypeOK
    <3>6. TypeOK'
      BY <2>0, <3>1, <3>2 DEF IInv, TypeOK
    <3>7. Cached'
      BY <2>0, <3>1, <3>3, <3>5 DEF IInv, TypeOK, Cached
    <3>8. Pending'
      BY <2>0, <3>1, <3>2, <3>3, <3>4, <3>5, NoneAssumption DEF IInv, TypeOK, Pending
    <3>9. Made' /\ TimersOfMade'
      BY <2>0, <3>1, <3>3, <3>4, <3>5 DEF IInv, TypeOK, Made, TimersOfMade
    <3>10. NoneOrphaned'
      BY <2>0, <2>2, <3>1, <3>2, <3>3, <3>4, <3>5, NoneAssumption DEF IInv, TypeOK, NoneOrphaned, IsOpen, Made, InFlight
    <3> QED
      BY <3>6, <3>7, <3>8, <3>9, <3>10 DEF IInv
  <2> QED
    BY <2>1, <2>2
<1> QED
  BY <1>1, <1>2 DEF Request

(* Its attempt was the one in flight, and nothing was cached meanwhile.     *)
LEMMA ConnectedStep ==
  ASSUME IInv, NEW m \in Managers, Connected(m)
  PROVE  IInv'
<1>1. of[m] \in Endpoints /\ pendingConnections[of[m]] = m /\ browseConnections[of[m]] = None
  BY NoneAssumption DEF Connected, IInv, NoneOrphaned, IsOpen, Made, Pending
<1>2. TypeOK'
  BY <1>1 DEF Connected, Is, Started, IInv, TypeOK
<1>3. Cached'
  BY <1>1, NoneAssumption DEF Connected, Is, Started, IInv, TypeOK, Cached
<1>4. Pending'
  BY <1>1 DEF Connected, Is, Started, IInv, TypeOK, Pending
<1>5. Made' /\ TimersOfMade'
  BY <1>1 DEF Connected, Is, Started, IInv, TypeOK, Made, TimersOfMade
<1>6. NoneOrphaned'
  <2>1. /\ mgr' = [mgr EXCEPT ![m] = "up"] /\ of' = of /\ timers' = timers \cup {m}
        /\ pendingConnections' = [pendingConnections EXCEPT ![of[m]] = None]
        /\ browseConnections' = [browseConnections EXCEPT ![of[m]] = m]
    BY DEF Connected, Is, Started
  <2>2. ASSUME NEW n \in Managers, n # m, IsOpen(n)
        PROVE  of[n] \in Endpoints /\ of[n] # of[m]
    BY <1>1, <2>2, NoneAssumption DEF IInv, NoneOrphaned, IsOpen, Made
  <2> QED
    BY <1>1, <2>1, <2>2 DEF IInv, TypeOK, NoneOrphaned, IsOpen
<1> QED
  BY <1>2, <1>3, <1>4, <1>5, <1>6 DEF IInv

(* A manager that is neither cached nor opened any more goes its way.       *)
LEMMA ManagerStep ==
  ASSUME IInv, NEW m \in Managers,
         ConnectFails(m) \/ Disconnected(m) \/ Lost(m) \/ Repaired(m)
  PROVE  IInv'
<1> USE NoneAssumption DEF Is, cache
<1>1. CASE ConnectFails(m)
  BY <1>1 DEF ConnectFails, IInv, TypeOK, Cached, Pending, Made, TimersOfMade, NoneOrphaned, IsOpen
<1>2. CASE Disconnected(m)
  <2>1. /\ mgr[m] = "closing" /\ mgr' = [mgr EXCEPT ![m] = "closed"]
        /\ UNCHANGED <<of, browseConnections, timers, request>>
        /\ pendingConnections' = [e \in Endpoints |->
             IF pendingConnections[e] = m THEN None ELSE pendingConnections[e]]
    BY <1>2 DEF Disconnected
  <2>2. TypeOK' /\ Cached' /\ Made' /\ TimersOfMade'
    BY <2>1 DEF IInv, TypeOK, Cached, Made, TimersOfMade
  <2>3. Pending' /\ NoneOrphaned'
    BY <2>1 DEF IInv, TypeOK, Pending, Made, NoneOrphaned, IsOpen
  <2> QED
    BY <2>2, <2>3 DEF IInv
<1>3. CASE Lost(m)
  BY <1>3 DEF Lost, IInv, TypeOK, Cached, Pending, Made, TimersOfMade, NoneOrphaned, IsOpen
<1>4. CASE Repaired(m)
  BY <1>4 DEF Repaired, IInv, TypeOK, Cached, Pending, Made, TimersOfMade, NoneOrphaned, IsOpen
<1> QED
  BY <1>1, <1>2, <1>3, <1>4

(* Closing: whose timer fires is not cached for another endpoint.           *)
LEMMA CloseStep ==
  ASSUME IInv, NEW es \in SUBSET Endpoints, NEW fired \in SUBSET Managers,
         \A m \in fired : of[m] \in es,
         CloseBrowseConnections(es, fired)
  PROVE  IInv'
<1> DEFINE closed == {browseConnections[e] : e \in es} \ {None}
<1>1. /\ browseConnections' = [e \in Endpoints |-> IF e \in es THEN None ELSE browseConnections[e]]
      /\ mgr' = [m \in Managers |-> IF m \in closed THEN "closing" ELSE mgr[m]]
      /\ timers' = timers \ (closed \cup fired)
      /\ UNCHANGED <<of, pendingConnections, request>>
  BY DEF CloseBrowseConnections
<1>2. closed \subseteq Managers
  BY DEF IInv, TypeOK
<1>3. \A m \in closed : mgr[m] \in {"up", "down"} /\ of[m] \in es
  BY DEF IInv, Cached
<1>4. \A e \in Endpoints \ es : browseConnections[e] # None => browseConnections[e] \notin closed \cup fired
  BY <1>3 DEF IInv, Cached
<1> HIDE DEF closed
<1>5. TypeOK'
  BY <1>1 DEF IInv, TypeOK
<1>6. Cached'
  BY <1>1, <1>4 DEF IInv, TypeOK, Cached
<1>7. Pending'
  BY <1>1, <1>3 DEF IInv, TypeOK, Pending
<1>8. Made' /\ TimersOfMade'
  BY <1>1, <1>3 DEF IInv, TypeOK, Made, TimersOfMade
<1>9. NoneOrphaned'
  <2>1. ASSUME NEW m \in Managers, IsOpen(m)'
        PROVE  /\ IsOpen(m) /\ mgr'[m] = mgr[m] /\ m \notin closed
    BY <1>1, <2>1 DEF IsOpen, IInv, TypeOK
  <2>2. ASSUME NEW m \in Managers, m \notin closed, browseConnections[of[m]] = m, of[m] \in Endpoints
        PROVE  of[m] \notin es
    BY <2>2, NoneAssumption DEF closed
  <2> QED
    BY <1>1, <2>1, <2>2 DEF IInv, TypeOK, NoneOrphaned, IsOpen, Made
<1> QED
  BY <1>5, <1>6, <1>7, <1>8, <1>9 DEF IInv

(* The inductive invariant: what the two maps hold, and the idle timers.    *)
THEOREM CacheInvariant == Spec => []IInv
<1>1. IInv /\ [Next]_vars => IInv'
  <2> SUFFICES ASSUME IInv, [Next]_vars PROVE IInv'
    OBVIOUS
  <2>1. ASSUME NEW r \in Requests, Answer(r) PROVE IInv'
    BY <2>1 DEF Answer, cache, IInv, TypeOK, Cached, Pending, Made, TimersOfMade, NoneOrphaned, IsOpen
  <2>2. ASSUME NEW r \in Requests, NEW e \in Endpoints, Request(r, e) PROVE IInv'
    BY <2>2, RequestStep
  <2>3. ASSUME NEW m \in Managers, Goes(m) \/ Lost(m) \/ Repaired(m) PROVE IInv'
    BY <2>3, ConnectedStep, ManagerStep DEF Goes
  <2>4. ASSUME NEW m \in Managers, Expire(m) PROVE IInv'
    <3>1. of[m] \in Endpoints
      BY <2>4 DEF Expire, IInv, Made, TimersOfMade
    <3> QED
      BY <2>4, <3>1, CloseStep DEF Expire
  <2>5. ASSUME NEW e \in Endpoints, Disconnect(e) PROVE IInv'
    BY <2>5, CloseStep DEF Disconnect
  <2>6. CASE FlowsStopped
    BY <2>6, CloseStep DEF FlowsStopped
  <2>7. CASE UNCHANGED vars
    BY <2>7 DEF vars, cache, IInv, TypeOK, Cached, Pending, Made, TimersOfMade, NoneOrphaned, IsOpen
  <2> QED
    BY <2>1, <2>2, <2>3, <2>4, <2>5, <2>6, <2>7 DEF Next
<1> QED
  BY <1>1, InitHolds, PTL DEF Spec

(* An open connection is the one cached for its endpoint, with a timer that *)
(* will close it, or the one attempt in flight (issue #17).                 *)
THEOREM NoneIsOrphaned == Spec => []NoneOrphaned
<1>1. IInv => NoneOrphaned
  BY DEF IInv
<1> QED
  BY <1>1, CacheInvariant, PTL

(* However many requests expand the tree, an endpoint has one connection.   *)
OnePerEndpoint == \A m, n \in Managers : IsOpen(m) /\ IsOpen(n) /\ of[m] = of[n] => m = n

THEOREM OneConnectionEach == Spec => []OnePerEndpoint
<1>1. IInv => OnePerEndpoint
  BY NoneAssumption DEF IInv, NoneOrphaned, OnePerEndpoint, IsOpen, Made, Pending
<1> QED
  BY <1>1, CacheInvariant, PTL

=============================================================================

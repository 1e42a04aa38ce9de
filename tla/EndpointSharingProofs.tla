------------------------ MODULE EndpointSharingProofs ----------------------
(***************************************************************************)
(* Theorems about EndpointSharing, for every finite set of client nodes.   *)
(***************************************************************************)
EXTENDS EndpointSharing, FiniteSetTheorems, TLAPS

IInv == TypeOK /\ Sharing

(* How many nodes use the endpoint after a node has come or gone.           *)
LEMMA HoldersCount ==
  /\ IsFiniteSet(Holders) /\ Cardinality(Holders) \in Nat
  /\ Cardinality(Holders) = 0 <=> Holders = {}
  /\ \A n \in Nodes \ Holders : Cardinality(Holders \cup {n}) = Cardinality(Holders) + 1
  /\ \A n \in Holders : Cardinality(Holders \ {n}) = Cardinality(Holders) - 1
<1>1. Holders \in SUBSET Nodes
  BY DEF Holders
<1>2. IsFiniteSet(Holders)
  BY <1>1, NodesAssumption, FS_Subset
<1> QED
  BY <1>1, <1>2, FS_CardinalityType, FS_EmptySet, FS_AddElement, FS_RemoveElement

-----------------------------------------------------------------------------
(* What a step that neither deploys nor closes a node leaves as it is.      *)

LEMMA HoldersKept ==
  ASSUME Sharing, UNCHANGED <<endpoint, clients>>,
         \A n \in Nodes : input'[n] # "idle" => input[n] # "idle" \/ node[n] = "running"
  PROVE  RefCountExact' /\ Registered' /\ OneShared'
<1>1. Holders' = Holders
  BY DEF clients, Holders
<1>2. RefCountExact' /\ Registered'
  BY <1>1 DEF Sharing, RefCountExact, Registered, endpoint
<1>3. OneShared'
  BY <1>1 DEF Sharing, OneShared, endpoint, clients
<1> QED
  BY <1>2, <1>3

LEMMA ManagersKept ==
  ASSUME Sharing, UNCHANGED <<shared, managers, intruded>>
  PROVE  UnusedIsReleased' /\ CalmRelease' /\ LateWhileReleasing'
BY DEF Sharing, UnusedIsReleased, CalmRelease, LateWhileReleasing, managers

(* connect() or reconnect() on behalf of a message.                         *)
LEMMA Asked ==
  ASSUME IInv, NEW n \in Nodes, mgr[n] # None, AskFor(n), UNCHANGED shared,
         UNCHANGED <<live, loop>> \/ StartLoop(n)
  PROVE  ManagersTypeOK' /\ UnusedIsReleased' /\ CalmRelease' /\ LateWhileReleasing'
<1>1. mgr[n] \in Managers
  BY DEF IInv, TypeOK, ClientsTypeOK
<1>2. ManagersTypeOK'
  BY <1>1 DEF IInv, TypeOK, ManagersTypeOK, AskFor, Ask, StartLoop
<1>3. UnusedIsReleased'
  BY <1>1 DEF IInv, TypeOK, ManagersTypeOK, AskFor, Ask, Sharing, UnusedIsReleased
<1>4. CalmRelease'
  BY <1>1 DEF IInv, TypeOK, ManagersTypeOK, AskFor, Ask, Sharing, CalmRelease
<1>5. LateWhileReleasing'
  BY <1>1 DEF IInv, TypeOK, ManagersTypeOK, AskFor, Ask, Sharing, LateWhileReleasing
<1> QED
  BY <1>2, <1>3, <1>4, <1>5

(* The endpoint detaches its manager m and disconnects it.                  *)
LEMMA Detached ==
  ASSUME IInv, shared # None, shared' = None, StartDisconnect(shared), UNCHANGED intruded
  PROVE  ManagersTypeOK' /\ UnusedIsReleased' /\ CalmRelease' /\ LateWhileReleasing'
<1>1. shared \in Managers
  BY DEF IInv, TypeOK, EndpointTypeOK
<1>2. ManagersTypeOK'
  BY <1>1 DEF IInv, TypeOK, ManagersTypeOK, StartDisconnect
<1>3. UnusedIsReleased'
  BY <1>1 DEF IInv, TypeOK, ManagersTypeOK, StartDisconnect, Sharing, UnusedIsReleased
<1>4. phase[shared] # "releasing"
  BY <1>1 DEF IInv, Sharing, CalmRelease
<1>5. ~late[shared]
  BY <1>1, <1>4 DEF IInv, Sharing, LateWhileReleasing
<1>6. CalmRelease'
  BY <1>1, <1>5, NoneAssumption
     DEF IInv, TypeOK, ManagersTypeOK, StartDisconnect, Sharing, CalmRelease
<1>7. LateWhileReleasing'
  BY <1>1 DEF IInv, TypeOK, ManagersTypeOK, StartDisconnect, Sharing, LateWhileReleasing
<1> QED
  BY <1>2, <1>3, <1>6, <1>7

-----------------------------------------------------------------------------
(* The steps of the nodes' lives.                                           *)

LEMMA DeployStep ==
  ASSUME IInv, NEW n \in Nodes, Deploy(n)
  PROVE  IInv'
<1> PICK m \in Managers :
      /\ IF shared = None THEN New(m) ELSE m = shared
      /\ shared' = m
      /\ mgr' = [mgr EXCEPT ![n] = m]
      /\ UNCHANGED managers \/ (~live[m] /\ Ask(m))
  BY DEF Deploy
<1> m # None
  BY NoneAssumption
<1> USE DEF IInv, TypeOK
<1>1. Holders' = Holders \cup {n} /\ n \notin Holders
  BY DEF Deploy, Holders, ClientsTypeOK
<1>2. RefCountExact'
  BY <1>1, HoldersCount DEF Deploy, Counted, Sharing, RefCountExact, EndpointTypeOK
<1>3. Registered'
  BY <1>1 DEF Deploy, Sharing, Registered
<1>4. \A k \in Holders : mgr[k] = m
  BY DEF Deploy, Sharing, OneShared
<1>5. OneShared'
  <2>1. shared' # None /\ open' /\ Holders' # {}
    BY <1>1 DEF Deploy
  <2>2. \A k \in Holders' : mgr'[k] = shared'
    BY <1>1, <1>4 DEF ClientsTypeOK, Holders
  <2>3. \A k \in Nodes : node'[k] # "absent" \/ input'[k] # "idle" => mgr'[k] # None
    BY DEF Deploy, messages, ClientsTypeOK, Sharing, OneShared
  <2>4. \A k \in Nodes : input'[k] # "idle" => node'[k] # "absent"
    BY DEF Deploy, messages, ClientsTypeOK, Sharing, OneShared
  <2> QED
    BY <2>1, <2>2, <2>3, <2>4 DEF OneShared
<1>6. phase[m] # "releasing" /\ ~late[m]
  <2>1. CASE shared = None
    BY <2>1 DEF New, Sharing, LateWhileReleasing
  <2>2. CASE shared # None
    BY <2>2 DEF Sharing, CalmRelease, LateWhileReleasing
  <2> QED
    BY <2>1, <2>2
<1>7. \A k \in Managers \ {m} : phase'[k] = phase[k] /\ late'[k] = late[k] /\ k # shared'
  BY DEF managers, Ask, ManagersTypeOK
<1>8. phase'[m] # "releasing" /\ ~late'[m]
  BY <1>6 DEF managers, Ask, ManagersTypeOK
<1>9. \A k \in Managers \ {m} : k # shared \/ shared = None
  OBVIOUS
<1>10. UnusedIsReleased'
  BY <1>7, <1>8, <1>9, NoneAssumption DEF Deploy, Sharing, UnusedIsReleased
<1>11. CalmRelease'
  BY <1>7, <1>8 DEF Deploy, Sharing, CalmRelease
<1>12. LateWhileReleasing'
  BY <1>7, <1>8 DEF Sharing, LateWhileReleasing
<1>13. TypeOK'
  <2>1. EndpointTypeOK'
    BY DEF Deploy, Counted, EndpointTypeOK
  <2>2. ClientsTypeOK'
    BY DEF Deploy, messages, ClientsTypeOK
  <2>3. ManagersTypeOK'
    BY DEF Deploy, managers, Ask, ManagersTypeOK
  <2> QED
    BY <2>1, <2>2, <2>3
<1> QED
  BY <1>2, <1>3, <1>5, <1>10, <1>11, <1>12, <1>13 DEF Sharing

LEMMA StartCloseStep ==
  ASSUME IInv, NEW n \in Nodes, StartClose(n)
  PROVE  IInv'
<1> USE DEF IInv, TypeOK
<1>1. Holders' = Holders
  BY DEF StartClose, Holders, ClientsTypeOK
<1>2. RefCountExact' /\ Registered'
  BY <1>1 DEF StartClose, endpoint, Sharing, RefCountExact, Registered
<1>3. OneShared'
  BY <1>1 DEF StartClose, endpoint, messages, Sharing, OneShared, ClientsTypeOK
<1>4. UnusedIsReleased' /\ CalmRelease' /\ LateWhileReleasing'
  BY ManagersKept DEF StartClose, endpoint
<1>5. TypeOK'
  BY DEF StartClose, endpoint, messages, managers, EndpointTypeOK, ClientsTypeOK, ManagersTypeOK
<1> QED
  BY <1>2, <1>3, <1>4, <1>5 DEF Sharing

(* The node that leaves is the last one exactly when refCount gets to 0.    *)
LEMMA LeaveEndpointStep ==
  ASSUME IInv, NEW n \in Nodes, LeaveEndpoint(n)
  PROVE  IInv'
<1> USE DEF IInv, TypeOK
<1>1. Holders' = Holders \ {n} /\ n \in Holders
  BY DEF LeaveEndpoint, Holders, ClientsTypeOK
<1>2. Cardinality(Holders') = Cardinality(Holders) - 1 /\ Cardinality(Holders) \in Nat
  BY <1>1, HoldersCount
<1>3. Left \in Nat /\ refCount' = Left /\ UNCHANGED open
  BY DEF LeaveEndpoint, ReleaseShared, Left, EndpointTypeOK
<1>4. Cardinality(Holders) # 0 /\ (Cardinality(Holders) = 1 <=> Holders' = {})
  <2>1. Cardinality(Holders) # 0
    BY <1>1, HoldersCount
  <2>2. IsFiniteSet(Holders')
    BY <1>1, HoldersCount, FS_RemoveElement
  <2>3. Cardinality(Holders') = 0 <=> Holders' = {}
    BY <2>2, FS_EmptySet
  <2> QED
    BY <1>2, <2>1, <2>3
<1>5. open => Left = Cardinality(Holders')
  BY <1>2, <1>4 DEF Left, Sharing, RefCountExact
<1>6. RefCountExact'
  BY <1>3, <1>5 DEF RefCountExact
<1>7. open => (Left = 0 <=> Holders' = {}) /\ shared # None
  BY <1>1, <1>2, <1>4, <1>5 DEF Sharing, OneShared
<1>8. ~open => shared = None /\ callbacks = {}
  BY DEF Sharing, OneShared, Registered
<1>9. Registered'
  BY <1>1, <1>3, <1>7, <1>8 DEF LeaveEndpoint, ReleaseShared, Sharing, Registered
<1>10. shared' = IF Left = 0 THEN None ELSE shared
  BY DEF LeaveEndpoint, ReleaseShared
<1>11. OneShared'
  BY <1>1, <1>3, <1>7, <1>8, <1>10 DEF LeaveEndpoint, messages, Sharing, OneShared, ClientsTypeOK
<1>12. ManagersTypeOK' /\ UnusedIsReleased' /\ CalmRelease' /\ LateWhileReleasing'
  <2>1. CASE Left = 0 /\ shared # None
    BY <2>1, Detached DEF LeaveEndpoint, ReleaseShared
  <2>2. CASE ~(Left = 0 /\ shared # None)
    BY <2>2, ManagersKept DEF LeaveEndpoint, ReleaseShared, managers, ManagersTypeOK
  <2> QED
    BY <2>1, <2>2
<1>13. EndpointTypeOK' /\ ClientsTypeOK'
  BY <1>3, <1>10 DEF LeaveEndpoint, ReleaseShared, messages, EndpointTypeOK, ClientsTypeOK
<1> QED
  BY <1>6, <1>9, <1>11, <1>12, <1>13 DEF Sharing

LEMMA ClosedStep ==
  ASSUME IInv, NEW n \in Nodes, Closed(n) \/ Forget(n)
  PROVE  IInv'
<1> USE DEF IInv, TypeOK
<1>1. Holders' = Holders
  BY DEF Closed, Forget, Holders, ClientsTypeOK
<1>2. RefCountExact' /\ Registered'
  BY <1>1 DEF Closed, Forget, endpoint, Sharing, RefCountExact, Registered
<1>3. OneShared'
  BY <1>1 DEF Closed, Forget, endpoint, messages, Sharing, OneShared, ClientsTypeOK, Holders
<1>4. UnusedIsReleased' /\ CalmRelease' /\ LateWhileReleasing'
  BY ManagersKept DEF Closed, Forget, endpoint
<1>5. TypeOK'
  BY DEF Closed, Forget, endpoint, messages, managers, EndpointTypeOK, ClientsTypeOK,
         ManagersTypeOK
<1> QED
  BY <1>2, <1>3, <1>4, <1>5 DEF Sharing

LEMMA EndpointClosesStep ==
  ASSUME IInv, EndpointCloses
  PROVE  IInv'
<1> USE DEF IInv, TypeOK
<1>1. RefCountExact' /\ Registered' /\ OneShared'
  BY DEF EndpointCloses, clients, messages, RefCountExact, Registered, Sharing, OneShared
<1>2. ManagersTypeOK' /\ UnusedIsReleased' /\ CalmRelease' /\ LateWhileReleasing'
  <2>1. CASE shared # None
    BY <2>1, Detached DEF EndpointCloses
  <2>2. CASE shared = None
    BY <2>2, ManagersKept DEF EndpointCloses, managers, ManagersTypeOK
  <2> QED
    BY <2>1, <2>2
<1>3. EndpointTypeOK' /\ ClientsTypeOK'
  BY DEF EndpointCloses, clients, messages, EndpointTypeOK, ClientsTypeOK
<1> QED
  BY <1>1, <1>2, <1>3 DEF Sharing

-----------------------------------------------------------------------------
(* The steps of the messages and of the managers.                           *)

LEMMA MessageStep ==
  ASSUME IInv, NEW n \in Nodes, Receive(n) \/ Handles(n)
  PROVE  IInv'
<1> USE DEF IInv, TypeOK
<1>1. mgr[n] # None /\ UNCHANGED <<endpoint, clients>>
  BY DEF Receive, Handles, ConnectResolves, Answered, ConnectionLost, BackoffOver, Keep,
         Sharing, OneShared
<1>2. \/ AskFor(n) /\ (UNCHANGED <<live, loop>> \/ StartLoop(n))
      \/ UNCHANGED <<managers, intruded>>
  BY DEF Receive, Handles, ConnectResolves, Answered, ConnectionLost, JoinLoop, CoolDown,
         StartLoop, BackoffOver, Keep, TryOperation
<1>3. ManagersTypeOK' /\ UnusedIsReleased' /\ CalmRelease' /\ LateWhileReleasing'
  <2>1. CASE AskFor(n) /\ (UNCHANGED <<live, loop>> \/ StartLoop(n))
    BY <1>1, <2>1, Asked DEF endpoint
  <2>2. CASE UNCHANGED <<managers, intruded>>
    BY <1>1, <2>2, ManagersKept DEF endpoint, managers, ManagersTypeOK
  <2> QED
    BY <1>2, <2>1, <2>2
<1>4. /\ input[n] # "idle" \/ node[n] = "running"
      /\ \E w \in {"idle", "connect", "operate", "reconnect", "backoff"} : Goes(n, w)
      /\ \E t \in 0 .. MaxRetries : tries' = [tries EXCEPT ![n] = t]
  <2>1. CASE Receive(n)
    <3>1. 0 \in 0 .. MaxRetries /\ tries' = [tries EXCEPT ![n] = 0]
      BY <2>1, RetriesAssumption DEF Receive
    <3>2. Goes(n, "operate") \/ Goes(n, "connect")
      BY <2>1 DEF Receive, TryOperation
    <3> QED
      BY <2>1, <3>1, <3>2 DEF Receive
  <2>2. CASE ConnectionLost(n)
    BY <2>2, RetriesAssumption
       DEF ConnectionLost, JoinLoop, CoolDown, StartLoop, Attempted, ClientsTypeOK
  <2>3. CASE Answered(n)
    <3>1. 0 \in 0 .. MaxRetries
      BY RetriesAssumption
    <3> QED
      BY <2>3, <3>1 DEF Answered
  <2>4. CASE ConnectResolves(n) \/ BackoffOver(n)
    <3>1. tries' = [tries EXCEPT ![n] = tries[n]] /\ tries[n] \in 0 .. MaxRetries
      BY <2>4 DEF ConnectResolves, BackoffOver, ClientsTypeOK
    <3> QED
      BY <2>4, <3>1 DEF ConnectResolves, BackoffOver, TryOperation
  <2> QED
    BY <2>1, <2>2, <2>3, <2>4 DEF Handles
<1>5. ClientsTypeOK'
  BY <1>1, <1>4 DEF Goes, clients, ClientsTypeOK
<1>6. RefCountExact' /\ Registered' /\ OneShared'
  <2>1. \A k \in Nodes : input'[k] # "idle" => input[k] # "idle" \/ node[k] = "running"
    BY <1>4 DEF Goes, ClientsTypeOK
  <2> QED
    BY <1>1, <2>1, HoldersKept
<1>7. EndpointTypeOK'
  BY <1>1 DEF endpoint, EndpointTypeOK
<1> QED
  BY <1>3, <1>5, <1>6, <1>7 DEF Sharing

LEMMA LoopStep ==
  ASSUME IInv, NEW m \in Managers, LoopEnds(m)
  PROVE  IInv'
<1> USE DEF IInv, TypeOK
<1>1. UNCHANGED <<endpoint, clients, phase, live, late, intruded>>
  BY DEF LoopEnds
<1> PICK givenUp \in SUBSET Waiters(m) :
      /\ input' = [n \in Nodes |-> IF n \in givenUp THEN "idle"
                                    ELSE IF n \in Waiters(m) THEN "backoff" ELSE input[n]]
      /\ tries' = [n \in Nodes |-> IF n \in givenUp THEN 0 ELSE tries[n]]
  BY DEF LoopEnds
<1>2. \A k \in Nodes : input'[k] # "idle" => input[k] # "idle"
  BY DEF Waiters
<1>3. RefCountExact' /\ Registered' /\ OneShared'
  BY <1>1, <1>2, HoldersKept
<1>4. UnusedIsReleased' /\ CalmRelease' /\ LateWhileReleasing'
  BY <1>1 DEF endpoint, Sharing, UnusedIsReleased, CalmRelease, LateWhileReleasing
<1>5. ClientsTypeOK'
  <2>1. tries' \in [Nodes -> 0 .. MaxRetries]
    <3>1. 0 \in 0 .. MaxRetries
      BY RetriesAssumption
    <3> QED
      BY <3>1 DEF ClientsTypeOK
  <2>2. input' \in [Nodes -> {"idle", "connect", "operate", "reconnect", "backoff"}]
    BY DEF ClientsTypeOK
  <2> QED
    BY <1>1, <2>1, <2>2 DEF clients, ClientsTypeOK
<1>6. EndpointTypeOK' /\ ManagersTypeOK'
  BY <1>1 DEF LoopEnds, endpoint, EndpointTypeOK, ManagersTypeOK
<1> QED
  BY <1>3, <1>4, <1>5, <1>6 DEF Sharing

LEMMA ManagerStep ==
  ASSUME IInv, NEW m \in Managers, Connects(m) \/ Loses(m) \/ Disconnected(m)
  PROVE  IInv'
<1> USE DEF IInv, TypeOK
<1>1. UNCHANGED <<endpoint, clients, messages, intruded>>
  BY DEF Connects, Loses, Disconnected
<1>2. RefCountExact' /\ Registered' /\ OneShared'
  BY <1>1, HoldersKept DEF messages
<1>3. EndpointTypeOK' /\ ClientsTypeOK'
  BY <1>1 DEF endpoint, clients, messages, EndpointTypeOK, ClientsTypeOK
<1>4. ManagersTypeOK'
  BY <1>1 DEF Connects, Loses, Disconnected, ManagersTypeOK
<1>5. UnusedIsReleased' /\ CalmRelease' /\ LateWhileReleasing'
  <2>1. CASE Connects(m) \/ Loses(m)
    BY <1>1, <2>1 DEF Connects, Loses, endpoint, Sharing, UnusedIsReleased, CalmRelease,
                      LateWhileReleasing
  <2>2. CASE Disconnected(m)
    BY <1>1, <2>2 DEF Disconnected, endpoint, ManagersTypeOK, Sharing, UnusedIsReleased,
                      CalmRelease, LateWhileReleasing
  <2> QED
    BY <2>1, <2>2
<1> QED
  BY <1>2, <1>3, <1>4, <1>5 DEF Sharing

-----------------------------------------------------------------------------
(* The inductive invariant: the reference count, the callbacks and the      *)
(* managers' phases agree with the lives of the nodes.                      *)
THEOREM SharingInvariant == Spec => []IInv
<1>1. Init => IInv
  <2> SUFFICES ASSUME Init
               PROVE  IInv
    OBVIOUS
  <2>1. TypeOK
    BY RetriesAssumption DEF Init, TypeOK, EndpointTypeOK, ClientsTypeOK, ManagersTypeOK
  <2>2. Holders = {}
    BY DEF Init, Holders
  <2>3. Sharing
    BY <2>2, FS_EmptySet DEF Init, Sharing, RefCountExact, Registered, OneShared,
                             UnusedIsReleased, CalmRelease, LateWhileReleasing
  <2> QED
    BY <2>1, <2>3 DEF IInv
<1>2. IInv /\ [Next]_vars => IInv'
  <2> SUFFICES ASSUME IInv, [Next]_vars
               PROVE  IInv'
    OBVIOUS
  <2>1. CASE \E n \in Nodes : Deploy(n) \/ StartClose(n) \/ Forget(n) \/ Receive(n)
    BY <2>1, DeployStep, StartCloseStep, ClosedStep, MessageStep
  <2>2. CASE \E n \in Nodes : Closes(n) \/ Handles(n)
    BY <2>2, LeaveEndpointStep, ClosedStep, MessageStep DEF Closes
  <2>3. CASE \E m \in Managers : Connects(m) \/ Loses(m) \/ Disconnected(m) \/ LoopEnds(m)
    BY <2>3, ManagerStep, LoopStep
  <2>4. CASE EndpointCloses
    BY <2>4, EndpointClosesStep
  <2>5. CASE UNCHANGED vars
    <3>1. UNCHANGED <<endpoint, clients, messages, managers, intruded>>
      BY <2>5 DEF vars
    <3>2. Sharing'
      BY <3>1, HoldersKept, ManagersKept DEF IInv, Sharing, endpoint, messages
    <3>3. TypeOK'
      BY <3>1 DEF IInv, TypeOK, EndpointTypeOK, ClientsTypeOK, ManagersTypeOK,
                  endpoint, clients, messages, managers
    <3> QED
      BY <3>2, <3>3 DEF IInv
  <2> QED
    BY <2>1, <2>2, <2>3, <2>4, <2>5 DEF Next
<1> QED
  BY <1>1, <1>2, PTL DEF Spec

(* Every variable keeps its type.                                           *)
THEOREM TypeCorrect == Spec => []TypeOK
<1>1. IInv => TypeOK
  BY DEF IInv
<1> QED
  BY <1>1, SharingInvariant, PTL

(* No node's connection is closed by another node's close.                  *)
THEOREM SharedInUseHolds == Spec => []SharedInUse
<1>1. IInv => SharedInUse
  BY DEF IInv, TypeOK, EndpointTypeOK, Sharing, OneShared, CalmRelease, SharedInUse,
         HoldersShare
<1> QED
  BY <1>1, SharingInvariant, PTL

(* A manager that no node uses is disconnected.                             *)
THEOREM UnusedAreReleased == Spec => []UnusedIsReleased
<1>1. IInv => UnusedIsReleased
  BY DEF IInv, Sharing
<1> QED
  BY <1>1, SharingInvariant, PTL

(* The endpoint meets the assumption of ClientManager's theorems.           *)
THEOREM ReleasesAreCalm == Spec => []CalmRelease
<1>1. IInv => CalmRelease
  BY DEF IInv, Sharing
<1> QED
  BY <1>1, SharingInvariant, PTL

(* A manager's events reach its users and nobody else.                      *)
THEOREM EventsReachTheUsers == Spec => []EventsReachUsers
<1>1. IInv => EventsReachUsers
  <2> SUFFICES ASSUME IInv, open, NEW m \in Managers
               PROVE  Forwarded(m) = {n \in Holders : mgr[n] = m}
    BY DEF EventsReachUsers
  <2> QED
    BY NoneAssumption DEF IInv, Sharing, Registered, OneShared, Forwarded, Holders
<1> QED
  BY <1>1, SharingInvariant, PTL

=============================================================================

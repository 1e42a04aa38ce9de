------------------------- MODULE ClientManagerProofs -------------------------
(***************************************************************************)
(* Theorems about ClientManager, for every set of clients.                 *)
(***************************************************************************)
EXTENDS ClientManager, TLAPS

-----------------------------------------------------------------------------
(* Type correctness.  What a helper leaves of each group of variables.      *)

(* A group of variables that a step leaves alone keeps its type.            *)
LEMMA UnchangedTypes ==
  ASSUME TypeOK
  PROVE  /\ UNCHANGED manager => ManagerTypeOK'
         /\ UNCHANGED attempt => AttemptTypeOK'
         /\ UNCHANGED loop => LoopTypeOK'
         /\ UNCHANGED waiter => WaiterTypeOK'
         /\ UNCHANGED disc => DiscTypeOK'
         /\ UNCHANGED external => ExternalTypeOK'
         /\ UNCHANGED history => HistoryTypeOK'
<1> USE DEF TypeOK
<1>1. UNCHANGED manager => ManagerTypeOK'
  BY DEF manager, ManagerTypeOK
<1>2. UNCHANGED attempt => AttemptTypeOK'
  BY DEF attempt, AttemptTypeOK
<1>3. UNCHANGED loop => LoopTypeOK'
  BY DEF loop, LoopTypeOK
<1>4. UNCHANGED waiter => WaiterTypeOK'
  BY DEF waiter, WaiterTypeOK
<1>5. UNCHANGED disc => DiscTypeOK'
  BY DEF disc, DiscTypeOK
<1>6. UNCHANGED external => ExternalTypeOK'
  BY DEF external, ExternalTypeOK
<1>7. UNCHANGED history => HistoryTypeOK'
  BY DEF history, HistoryTypeOK
<1> QED
  BY <1>1, <1>2, <1>3, <1>4, <1>5, <1>6, <1>7

(* _disposeClient(): a client's channel is closing, and is waited for.      *)
LEMMA DisposalTypes ==
  ASSUME TypeOK, NEW c \in ClientOrNone
  PROVE  DisposedChan(c) \in [Clients -> Channels] /\ Awaited(c) \in ClientOrNone
BY DEF TypeOK, ExternalTypeOK, DisposedChan, Awaited, Disposable, ClientOrNone, Channels

(* session.close() leaves every session in a state of its own.              *)
LEMMA CloseTypes ==
  ASSUME TypeOK, NEW s \in ClientOrNone, NEW held \in BOOLEAN, CloseSettles(s, held)
  PROVE  sess' \in [Clients -> {"closed", "open", "repairing"}]
BY DEF TypeOK, ExternalTypeOK, CloseSettles

(* The attempt settles.                                                     *)
LEMMA SettleTypes ==
  ASSUME TypeOK, NEW ok \in BOOLEAN, Settle(ok)
  PROVE  AttemptTypeOK' /\ LoopTypeOK' /\ DiscTypeOK'
BY DEF TypeOK, AttemptTypeOK, LoopTypeOK, DiscTypeOK, Settle, Await, ClientOrNone

(* The attempt throws.                                                      *)
LEMMA ThrowTypes ==
  ASSUME TypeOK, NEW ch \in [Clients -> Channels], Throw(ch), UNCHANGED sess
  PROVE  /\ timer' \in {"none", "live", "stale"}
         /\ AttemptTypeOK' /\ LoopTypeOK' /\ DiscTypeOK' /\ ExternalTypeOK'
<1>1. CASE cxAborted
  BY <1>1, ZenonT(30) DEF Throw, TypeOK, AttemptTypeOK, LoopTypeOK, DiscTypeOK, ExternalTypeOK,
              ManagerTypeOK, loop, disc, Await, Awaited, Disposable, ClientOrNone, Channels
<1>2. CASE ~cxAborted
  <2>1. Settle(FALSE) /\ chan' = ch /\ timer' = ArmedTimer /\ heard' = heard
    BY <1>2 DEF Throw
  <2>2. timer' \in {"none", "live", "stale"}
    BY <2>1 DEF TypeOK, ManagerTypeOK, ArmedTimer
  <2>3. ExternalTypeOK'
    BY <2>1 DEF TypeOK, ExternalTypeOK
  <2> QED
    BY <2>1, <2>2, <2>3, SettleTypes
<1> QED
  BY <1>1, <1>2

(* connect() leaves a client, an attempt, channels, listeners and races.    *)
LEMMA ConnectTypes ==
  ASSUME TypeOK, NEW conn \in BOOLEAN, NEW late \in {"lateCall", "lateRepair"},
         Connect(conn, late)
  PROVE  /\ client' \in ClientOrNone
         /\ AttemptTypeOK'
         /\ chan' \in [Clients -> Channels]
         /\ heard' \subseteq Clients
         /\ races' \subseteq {"lateCall", "lateRepair", "joinedAborted", "phantom"}
<1> USE DEF TypeOK, ManagerTypeOK, AttemptTypeOK, ExternalTypeOK, HistoryTypeOK
<1>1. races' \subseteq {"lateCall", "lateRepair", "joinedAborted", "phantom"}
  BY DEF Connect
<1>2. CASE conn \/ cxPc # "idle"
  BY <1>1, <1>2 DEF Connect, attempt
<1>3. CASE ~(conn \/ cxPc # "idle")
  <2>1. StartAttempt /\ cxAborted' = cxAborted
    BY <1>3 DEF Connect
  <2>2. ASSUME NEW c \in Clients, CreateClient(c)
        PROVE  /\ client' \in ClientOrNone /\ AttemptTypeOK'
               /\ chan' \in [Clients -> Channels] /\ heard' \subseteq Clients
    BY <2>1, <2>2 DEF CreateClient, Await, ClientOrNone, Channels
  <2>3. ASSUME heard' = heard \ {client},
               Await("closeSess", None, client, session, sess[session] = "repairing"),
               UNCHANGED <<client, chan>>
        PROVE  /\ client' \in ClientOrNone /\ AttemptTypeOK'
               /\ chan' \in [Clients -> Channels] /\ heard' \subseteq Clients
    BY <2>1, <2>3 DEF Await, ClientOrNone
  <2>4. ASSUME heard' = heard \ {client}, chan' = DisposedChan(client),
               Await("cleanup", None, client, Awaited(client), FALSE),
               UNCHANGED client
        PROVE  /\ client' \in ClientOrNone /\ AttemptTypeOK'
               /\ chan' \in [Clients -> Channels] /\ heard' \subseteq Clients
    BY <2>1, <2>4, DisposalTypes DEF Await, ClientOrNone
  <2> QED
    BY <1>1, <2>1, <2>2, <2>3, <2>4 DEF StartAttempt
<1> QED
  BY <1>2, <1>3

(* A disposal by disconnect().                                              *)
LEMMA DisposeTypes ==
  ASSUME TypeOK, NEW c \in ClientOrNone,
         NEW next \in {"dispose", "offline", "release"}, Dispose(c, next)
  PROVE  chan' \in [Clients -> Channels] /\ heard' \subseteq Clients /\ DiscTypeOK'
BY DisposalTypes DEF Dispose, TypeOK, ExternalTypeOK, DiscTypeOK

(* The offline branch of disconnect(), and its end.                         *)
LEMMA ReleaseTypes ==
  ASSUME TypeOK
  PROVE  /\ ReleaseOffline =>
              chan' \in [Clients -> Channels] /\ heard' \subseteq Clients /\ DiscTypeOK'
         /\ ReleaseClient =>
              /\ chan' \in [Clients -> Channels] /\ heard' \subseteq Clients /\ DiscTypeOK'
              /\ isConnected' \in BOOLEAN
<1>1. client \in ClientOrNone /\ isConnected \in BOOLEAN
      /\ chan \in [Clients -> Channels] /\ heard \subseteq Clients
  BY DEF TypeOK, ManagerTypeOK, ExternalTypeOK
<1>2. ASSUME dxPc' \in {"terminate", "idle"}, dxWait' = None, dxHeld' = FALSE,
             UNCHANGED <<chan, heard>>
      PROVE  chan' \in [Clients -> Channels] /\ heard' \subseteq Clients /\ DiscTypeOK'
  BY <1>1, <1>2 DEF DiscTypeOK, ClientOrNone
<1> QED
  BY <1>1, <1>2, DisposeTypes DEF ReleaseOffline, ReleaseClient

(* Every variable keeps its type (TypeOK), whatever the order of calls,     *)
(* awaits and network events.                                               *)
THEOREM TypeCorrect == Spec => []TypeOK
<1>1. Init => TypeOK
  <2> SUFFICES ASSUME Init PROVE TypeOK
    OBVIOUS
  <2> USE DEF Init, ClientOrNone
  <2>1. ManagerTypeOK
    BY DEF ManagerTypeOK
  <2>2. AttemptTypeOK
    BY DEF AttemptTypeOK
  <2>3. LoopTypeOK /\ WaiterTypeOK
    BY DEF LoopTypeOK, WaiterTypeOK
  <2>4. DiscTypeOK
    BY DEF DiscTypeOK
  <2>5. ExternalTypeOK
    BY DEF ExternalTypeOK, Channels
  <2>6. HistoryTypeOK
    BY DEF HistoryTypeOK
  <2> QED
    BY <2>1, <2>2, <2>3, <2>4, <2>5, <2>6 DEF TypeOK
<1>2. TypeOK /\ [Next]_vars => TypeOK'
  <2> SUFFICES ASSUME TypeOK, [Next]_vars PROVE TypeOK'
    OBVIOUS
  <2> USE UnchangedTypes DEF TypeOK, ClientOrNone, manager, coroutines, external, history
  <2>1. CASE NodeConnects
    BY <2>1, ConnectTypes DEF NodeConnects, ManagerTypeOK, ExternalTypeOK, HistoryTypeOK, LoopTypeOK, WaiterTypeOK, DiscTypeOK
  <2>2. CASE NodeReconnects
    BY <2>2, ConnectTypes DEF NodeReconnects, ManagerTypeOK, ExternalTypeOK, HistoryTypeOK, LoopTypeOK
  <2>3. CASE Disconnect
    BY <2>3, ReleaseTypes, DisposeTypes DEF Disconnect, ManagerTypeOK, AttemptTypeOK, LoopTypeOK, ExternalTypeOK, HistoryTypeOK
  <2>4. CASE PreviousSessionClosed
    BY <2>4, DisposalTypes, CloseTypes DEF PreviousSessionClosed, AttemptTypeOK, ExternalTypeOK, Await
  <2>5. CASE PreviousClientDisposed
    BY <2>5 DEF PreviousClientDisposed, ManagerTypeOK, AttemptTypeOK, ExternalTypeOK, SessionCleaned, CreateClient, Await, Channels
  <2>6. CASE CleanupAborted
    BY <2>6, SettleTypes DEF CleanupAborted, ManagerTypeOK, SessionCleaned
  <2>7. CASE CertificatePrepared
    BY <2>7, ThrowTypes, ZenonT(30) DEF CertificatePrepared, ManagerTypeOK, AttemptTypeOK, ExternalTypeOK, Await, Channels, Unpublished
  <2>8. CASE CertificateFails
    BY <2>8, ThrowTypes DEF CertificateFails, ManagerTypeOK, ExternalTypeOK, Unpublished
  <2>9. CASE ChannelOpens
    BY <2>9, ThrowTypes, ZenonT(30) DEF ChannelOpens, ManagerTypeOK, AttemptTypeOK, ExternalTypeOK, Await, Channels, Unpublished
  <2>10. CASE ChannelFails
    BY <2>10, ThrowTypes DEF ChannelFails, ManagerTypeOK, AttemptTypeOK, ExternalTypeOK, Unpublished, Channels
  <2>11. CASE SessionCreated
    BY <2>11, SettleTypes DEF SessionCreated, ManagerTypeOK, AttemptTypeOK, ExternalTypeOK, HistoryTypeOK, HandlesKept
  <2>12. CASE SessionCreatedTooLate
    BY <2>12 DEF SessionCreatedTooLate, AttemptTypeOK, ExternalTypeOK, Await
  <2>13. CASE SessionRefused
    BY <2>13, DisposalTypes DEF SessionRefused, AttemptTypeOK, ExternalTypeOK, Await
  <2>14. CASE RefusedClientDisposed
    BY <2>14, SettleTypes DEF RefusedClientDisposed, ManagerTypeOK, ArmedTimer
  <2>15. CASE AbortedSessionClosed
    BY <2>15, DisposalTypes, CloseTypes DEF AbortedSessionClosed, AttemptTypeOK, ExternalTypeOK, Await
  <2>16. CASE AbortedClientDisposed
    BY <2>16, SettleTypes DEF AbortedClientDisposed, ManagerTypeOK
  <2>17. CASE RetryLater
    BY <2>17 DEF RetryLater, LoopTypeOK
  <2>18. CASE LoopEnds
    BY <2>18 DEF LoopEnds, LoopTypeOK
  <2>19. CASE RetryDelayOver
    BY <2>19, ConnectTypes DEF RetryDelayOver, ManagerTypeOK, ExternalTypeOK, HistoryTypeOK, LoopTypeOK
  <2>20. CASE TimerFires
    BY <2>20, ConnectTypes DEF TimerFires, ManagerTypeOK, ExternalTypeOK, HistoryTypeOK
  <2>21. CASE StartOperation
    BY <2>21 DEF StartOperation, ManagerTypeOK, Usable
  <2>22. CASE FindSessionInvalid
    BY <2>22 DEF FindSessionInvalid, ManagerTypeOK
  <2>23. CASE Subscribe
    BY <2>23 DEF Subscribe, ManagerTypeOK, Usable
  <2>24. CASE RepairSettles
    BY <2>24, ConnectTypes DEF RepairSettles, ManagerTypeOK, WaiterTypeOK, ExternalTypeOK, HistoryTypeOK, AttemptTypeOK
  <2>25. CASE InFlightDisposed
    BY <2>25, ReleaseTypes DEF InFlightDisposed, DiscTypeOK, ExternalTypeOK
  <2>26. CASE AttemptSettled
    BY <2>26, ReleaseTypes DEF AttemptSettled, ExternalTypeOK
  <2>27. CASE OfflineDisposed
    BY <2>27 DEF OfflineDisposed, DiscTypeOK
  <2>28. CASE SubscriptionsTerminated
    BY <2>28, ReleaseTypes DEF SubscriptionsTerminated, ManagerTypeOK, DiscTypeOK, ExternalTypeOK
  <2>29. CASE SessionClosed
    BY <2>29, ReleaseTypes, CloseTypes DEF SessionClosed, ManagerTypeOK, DiscTypeOK, ExternalTypeOK
  <2>30. CASE Released
    BY <2>30 DEF Released, ManagerTypeOK, DiscTypeOK
  <2>31. ASSUME NEW s \in Clients, EndOperation(s) PROVE TypeOK'
    BY <2>31 DEF EndOperation, ManagerTypeOK
  <2>32. ASSUME NEW s \in Clients, OperationTimesOut(s) PROVE TypeOK'
    BY <2>32 DEF OperationTimesOut, ManagerTypeOK
  <2>33. ASSUME NEW s \in Clients, SubscriptionTerminated(s) PROVE TypeOK'
    BY <2>33 DEF SubscriptionTerminated, ManagerTypeOK
  <2>34. ASSUME NEW c \in Clients, LoseChannel(c) PROVE TypeOK'
    BY <2>34 DEF LoseChannel, ManagerTypeOK, ExternalTypeOK, Channels
  <2>35. ASSUME NEW c \in Clients, ConnectionFailed(c) PROVE TypeOK'
    BY <2>35 DEF ConnectionFailed, ManagerTypeOK, ExternalTypeOK, Channels, ArmedTimer
  <2>36. ASSUME NEW c \in Clients, RestoreUnheard(c) PROVE TypeOK'
    BY <2>36 DEF RestoreUnheard, ExternalTypeOK, Channels
  <2>37. ASSUME NEW c \in Clients, RestoreAndWait(c) PROVE TypeOK'
    BY <2>37 DEF RestoreAndWait, ManagerTypeOK, WaiterTypeOK, ExternalTypeOK, Channels
  <2>38. ASSUME NEW c \in Clients, RestoreSessionless(c) PROVE TypeOK'
    BY <2>38 DEF RestoreSessionless, ManagerTypeOK, ExternalTypeOK, Channels
  <2>39. ASSUME NEW c \in Clients, RepairEnds(c) PROVE TypeOK'
    BY <2>39 DEF RepairEnds, ExternalTypeOK
  <2>40. ASSUME NEW c \in Clients, ClientClosed(c) PROVE TypeOK'
    BY <2>40 DEF ClientClosed, ManagerTypeOK, ExternalTypeOK, Channels
  <2>41. CASE UNCHANGED vars
    BY <2>41 DEF vars, coroutines
  <2> QED
    BY <2>1, <2>2, <2>3, <2>4, <2>5, <2>6, <2>7, <2>8, <2>9, <2>10, <2>11, <2>12, <2>13, <2>14,
       <2>15, <2>16, <2>17, <2>18, <2>19, <2>20, <2>21, <2>22, <2>23, <2>24, <2>25, <2>26, <2>27, <2>28,
       <2>29, <2>30, <2>31, <2>32, <2>33, <2>34, <2>35, <2>36, <2>37, <2>38, <2>39, <2>40, <2>41
    DEF Next, Calls, Attempt, Loop, Operations, NodeOpcua, Disconnecting
<1>3. QED
  BY <1>1, <1>2, PTL DEF Spec

-----------------------------------------------------------------------------
(* Ownership.  Owns is the inductive invariant of an undisturbed manager:   *)
(* OwnsLive and OwnsSessions are inductive only together with what client   *)
(* and session are at the awaits of the attempt and of disconnect().        *)

Owns == OwnsLive /\ OwnsSessions /\ AttemptOwns /\ DisconnectOwns

(* A race is never forgotten, so a step into an undisturbed state was taken *)
(* in one.                                                                  *)
LEMMA RacesStay ==
  ASSUME [Next]_vars, Undisturbed'
  PROVE  Undisturbed
<1> USE DEF Undisturbed, history, coroutines, external, manager, Unpublished
<1>1. CASE UNCHANGED races
  BY <1>1
<1>2. ASSUME NEW conn, NEW late, Connect(conn, late) PROVE Undisturbed
  BY <1>2 DEF Connect
<1>3. CASE SessionCreated
  BY <1>3 DEF SessionCreated
<1>4. CASE Calls
  BY <1>1, <1>2, <1>4 DEF Calls, NodeConnects, NodeReconnects, Disconnect
<1>5. CASE Attempt
  BY <1>1, <1>3, <1>5 DEF Attempt, PreviousSessionClosed, PreviousClientDisposed,
     CleanupAborted, CertificatePrepared, CertificateFails, ChannelOpens, ChannelFails,
     SessionCreatedTooLate, SessionRefused, RefusedClientDisposed, AbortedSessionClosed,
     AbortedClientDisposed
<1>6. CASE Loop
  BY <1>1, <1>2, <1>6 DEF Loop, RetryLater, LoopEnds, RetryDelayOver, TimerFires
<1>7. CASE Operations
  BY <1>1, <1>7 DEF Operations, StartOperation, EndOperation, OperationTimesOut,
     FindSessionInvalid, Subscribe, SubscriptionTerminated
<1>8. CASE RepairSettles
  BY <1>2, <1>8 DEF RepairSettles
<1>9. ASSUME NEW c \in Clients,
             \/ LoseChannel(c) \/ ConnectionFailed(c)
             \/ RestoreUnheard(c) \/ RestoreAndWait(c) \/ RestoreSessionless(c)
             \/ RepairEnds(c) \/ ClientClosed(c)
      PROVE  Undisturbed
  BY <1>1, <1>9 DEF LoseChannel, ConnectionFailed, RestoreUnheard, RestoreAndWait,
     RestoreSessionless, RepairEnds, ClientClosed
<1>10. CASE Disconnecting
  BY <1>1, <1>10 DEF Disconnecting, InFlightDisposed, AttemptSettled, OfflineDisposed,
     SubscriptionsTerminated, SessionClosed, Released
<1>11. CASE UNCHANGED vars
  BY <1>1, <1>11 DEF vars
<1> QED
  BY <1>4, <1>5, <1>6, <1>7, <1>8, <1>9, <1>10, <1>11 DEF Next, NodeOpcua

(* Network events and operations: no channel or session comes alive.        *)
LEMMA NothingAppears ==
  ASSUME TypeOK, Owns, UNCHANGED <<client, session, attempt, dxPc>>,
         \A c \in Clients : Live(c)' => Live(c),
         \A c \in Clients : sess'[c] # "closed" /\ Live(c)' => sess[c] # "closed"
  PROVE  Owns'
<1> USE DEF Owns, attempt
<1>1. client \in ClientOrNone /\ cxClient \in ClientOrNone /\ cxPrev \in ClientOrNone
  BY DEF TypeOK, ManagerTypeOK, AttemptTypeOK
<1>2. OwnsLive'
  BY DEF OwnsLive
<1>3. OwnsSessions'
  BY DEF OwnsSessions
<1>4. AttemptOwns'
  BY <1>1 DEF AttemptOwns, ClientOrNone, Live
<1>5. DisconnectOwns'
  BY <1>1 DEF DisconnectOwns, ClientOrNone, Live
<1> QED
  BY <1>2, <1>3, <1>4, <1>5

(* connect() in an undisturbed manager runs beside no disconnect(): it      *)
(* disposes of the manager's own client or creates its only one.            *)
LEMMA ConnectOwns ==
  ASSUME TypeOK, Owns, Undisturbed', NEW conn \in BOOLEAN,
         NEW late \in {"lateCall", "lateRepair"}, Connect(conn, late),
         UNCHANGED <<session, sess, dxPc>>
  PROVE  Owns'
<1> USE NoneAssumption DEF ClientOrNone
<1>1. CASE conn \/ cxPc # "idle"
  BY <1>1, NothingAppears DEF Connect, Live
<1>2. CASE ~(conn \/ cxPc # "idle")
  <2>1. StartAttempt /\ cxPc = "idle" /\ dxPc = "idle"
    BY <1>2 DEF Connect, Undisturbed
  <2>2. client \in ClientOrNone /\ session \in ClientOrNone
        /\ chan \in [Clients -> Channels] /\ sess \in [Clients -> {"closed", "open", "repairing"}]
    BY DEF TypeOK, ManagerTypeOK, ExternalTypeOK
  <2> USE <2>2 DEF Owns, OwnsLive, OwnsSessions, AttemptOwns, DisconnectOwns, Live, Await
  <2>3. ASSUME client = None, NEW c \in Clients, CreateClient(c)
        PROVE  Owns'
    BY <2>1, <2>3 DEF CreateClient, Free
  <2>4. ASSUME client # None, session # None,
               Await("closeSess", None, client, session, sess[session] = "repairing"),
               UNCHANGED <<client, chan>>
        PROVE  Owns'
    BY <2>1, <2>4
  <2>5. ASSUME client # None, session = None, chan' = DisposedChan(client),
               Await("cleanup", None, client, Awaited(client), FALSE), UNCHANGED client
        PROVE  Owns'
    BY <2>1, <2>5 DEF DisposedChan, Disposable
  <2> QED
    BY <2>1, <2>3, <2>4, <2>5 DEF StartAttempt
<1> QED
  BY <1>1, <1>2

(* The steps of the attempt.                                                *)
LEMMA AttemptOwnsStep ==
  ASSUME TypeOK, Owns, Attempt
  PROVE  Owns'
<1>0. /\ client \in ClientOrNone /\ session \in ClientOrNone
      /\ cxClient \in ClientOrNone /\ cxPrev \in ClientOrNone
      /\ chan \in [Clients -> Channels] /\ sess \in [Clients -> {"closed", "open", "repairing"}]
  BY DEF TypeOK, ManagerTypeOK, AttemptTypeOK, ExternalTypeOK
<1> USE <1>0, NoneAssumption DEF ClientOrNone, manager, disc, external,
        Owns, OwnsLive, OwnsSessions, AttemptOwns, DisconnectOwns, Live, Await
<1>1. CASE PreviousSessionClosed
  BY <1>1 DEF PreviousSessionClosed, CloseSettles, DisposedChan, Disposable
<1>2. CASE PreviousClientDisposed
  BY <1>2 DEF PreviousClientDisposed, SessionCleaned, CreateClient, Free
<1>3. CASE CleanupAborted
  BY <1>3 DEF CleanupAborted, SessionCleaned, Settle
<1>4. CASE CertificatePrepared
  BY <1>4 DEF CertificatePrepared, Throw, Unpublished, Settle, Channels
<1>5. CASE CertificateFails
  BY <1>5 DEF CertificateFails, Throw, Unpublished, Settle, Channels
<1>6. CASE ChannelOpens
  BY <1>6 DEF ChannelOpens, Throw, Unpublished, Settle, Channels
<1>7. CASE ChannelFails
  BY <1>7 DEF ChannelFails, Throw, Unpublished, Settle, Channels
<1>8. CASE SessionCreated
  BY <1>8 DEF SessionCreated, Settle
<1>9. CASE SessionCreatedTooLate
  BY <1>9 DEF SessionCreatedTooLate
<1>10. CASE SessionRefused
  BY <1>10 DEF SessionRefused, DisposedChan, Disposable
<1>11. CASE RefusedClientDisposed
  BY <1>11 DEF RefusedClientDisposed, Settle
<1>12. CASE AbortedSessionClosed
  BY <1>12 DEF AbortedSessionClosed, CloseSettles, DisposedChan, Disposable
<1>13. CASE AbortedClientDisposed
  BY <1>13 DEF AbortedClientDisposed, Settle
<1> QED
  BY <1>1, <1>2, <1>3, <1>4, <1>5, <1>6, <1>7, <1>8, <1>9, <1>10, <1>11, <1>12, <1>13
     DEF Attempt

(* The steps of disconnect().                                               *)
LEMMA DisconnectOwnsStep ==
  ASSUME TypeOK, Owns, Disconnect \/ Disconnecting
  PROVE  Owns'
<1>0. /\ client \in ClientOrNone /\ session \in ClientOrNone
      /\ cxClient \in ClientOrNone /\ cxPrev \in ClientOrNone
      /\ chan \in [Clients -> Channels] /\ sess \in [Clients -> {"closed", "open", "repairing"}]
  BY DEF TypeOK, ManagerTypeOK, AttemptTypeOK, ExternalTypeOK
<1> USE <1>0, NoneAssumption DEF ClientOrNone, manager, attempt, external,
        Owns, OwnsLive, OwnsSessions, AttemptOwns, DisconnectOwns, Live
<1> USE DEF Dispose, DisposedChan, Disposable
<1>1. CASE Disconnect
  BY <1>1 DEF Disconnect, ReleaseOffline
<1>2. CASE InFlightDisposed
  BY <1>2 DEF InFlightDisposed, ReleaseOffline
<1>3. CASE AttemptSettled
  BY <1>3 DEF AttemptSettled, ReleaseOffline
<1>4. CASE OfflineDisposed
  BY <1>4 DEF OfflineDisposed
<1>5. CASE SubscriptionsTerminated
  BY <1>5 DEF SubscriptionsTerminated, ReleaseClient
<1>6. CASE SessionClosed
  BY <1>6 DEF SessionClosed, ReleaseClient, CloseSettles
<1>7. CASE Released
  BY <1>7 DEF Released
<1> QED
  BY <1>1, <1>2, <1>3, <1>4, <1>5, <1>6, <1>7 DEF Disconnecting

(* The steps of node-opcua and of the operations.                           *)
LEMMA EnvironmentOwnsStep ==
  ASSUME TypeOK, Owns, NEW c \in Clients,
         \/ StartOperation \/ FindSessionInvalid \/ Subscribe
         \/ EndOperation(c) \/ OperationTimesOut(c) \/ SubscriptionTerminated(c)
         \/ LoseChannel(c) \/ ConnectionFailed(c)
         \/ RestoreUnheard(c) \/ RestoreAndWait(c) \/ RestoreSessionless(c)
         \/ RepairEnds(c) \/ ClientClosed(c)
  PROVE  Owns'
<1>0. /\ client \in ClientOrNone /\ cxClient \in ClientOrNone /\ cxPrev \in ClientOrNone
      /\ chan \in [Clients -> Channels] /\ sess \in [Clients -> {"closed", "open", "repairing"}]
  BY DEF TypeOK, ManagerTypeOK, AttemptTypeOK, ExternalTypeOK
<1>1. /\ UNCHANGED <<client, session, attempt, dxPc>>
      /\ \A d \in Clients : Live(d)' => Live(d)
      /\ \A d \in Clients : sess'[d] # "closed" /\ Live(d)' => sess[d] # "closed"
  BY <1>0 DEF StartOperation, FindSessionInvalid, Subscribe, EndOperation, OperationTimesOut,
     SubscriptionTerminated, LoseChannel, ConnectionFailed, RestoreUnheard, RestoreAndWait,
     RestoreSessionless, RepairEnds, ClientClosed, Live, Channels,
     manager, coroutines, attempt, disc, external
<1> QED
  BY <1>0, <1>1, NothingAppears DEF ClientOrNone

(* Ownership holds of every undisturbed manager.                            *)
THEOREM OwnershipInvariant == Spec => []Ownership
<1>1. Init => Ownership
  BY DEF Init, Ownership, OwnsLive, OwnsSessions, AttemptOwns, DisconnectOwns, Live
<1>2. TypeOK /\ Ownership /\ [Next]_vars => Ownership'
  <2> SUFFICES ASSUME TypeOK, Ownership, [Next]_vars, Undisturbed'
               PROVE  Owns'
    BY DEF Ownership, Owns
  <2>1. Owns
    BY RacesStay DEF Ownership, Owns
  <2> USE <2>1, ConnectOwns
  <2>2. CASE NodeConnects
    BY <2>2 DEF NodeConnects, disc
  <2>3. CASE NodeReconnects
    BY <2>3 DEF NodeReconnects, disc
  <2>4. CASE RetryDelayOver
    BY <2>4 DEF RetryDelayOver, disc, TypeOK, ManagerTypeOK
  <2>5. CASE TimerFires
    BY <2>5 DEF TimerFires, disc, TypeOK, ManagerTypeOK
  <2>6. CASE RetryLater \/ LoopEnds
    BY <2>6, NothingAppears
       DEF RetryLater, LoopEnds, manager, disc, external, Live
  <2>7. CASE RepairSettles
    <3>1. UNCHANGED <<session, sess, dxPc>>
      BY <2>7 DEF RepairSettles, disc
    <3>2. \/ UNCHANGED <<client, attempt, chan>>
          \/ Connect(FALSE, "lateRepair")
      BY <2>7 DEF RepairSettles
    <3> QED
      BY <3>1, <3>2, NothingAppears DEF Live
  <2>8. CASE Disconnect \/ Disconnecting
    BY <2>8, DisconnectOwnsStep
  <2>9. CASE Attempt
    BY <2>9, AttemptOwnsStep
  <2>10. CASE Operations
    BY <2>10, EnvironmentOwnsStep DEF Operations, StartOperation, FindSessionInvalid, Subscribe,
       Usable, TypeOK, ManagerTypeOK, ClientOrNone
  <2>11. CASE NodeOpcua
    BY <2>7, <2>11, EnvironmentOwnsStep DEF NodeOpcua
  <2>12. CASE UNCHANGED vars
    BY <2>12, NothingAppears DEF vars, manager, coroutines, disc, external, Live
  <2> QED
    BY <2>2, <2>3, <2>4, <2>5, <2>6, <2>8, <2>9, <2>10, <2>11, <2>12
       DEF Next, Calls, Loop
<1>3. QED
  BY <1>1, <1>2, TypeCorrect, PTL DEF Spec

(* Issue #17: no client is orphaned in an undisturbed manager.              *)
THEOREM ClientsOwned == Spec => []NoOrphanClient
<1>1. Ownership => NoOrphanClient
  BY DEF Ownership, NoOrphanClient
<1> QED
  BY <1>1, OwnershipInvariant, PTL

(* Nor is a session.                                                        *)
THEOREM SessionsOwned == Spec => []NoOrphanSession
<1>1. Ownership => NoOrphanSession
  BY DEF Ownership, NoOrphanSession
<1> QED
  BY <1>1, OwnershipInvariant, PTL

(* A session is released before another one is published, and an aborted    *)
(* attempt publishes none.                                                  *)
THEOREM SessionsReleased == Spec => SessionsAreReleasedFirst
<1>1. Ownership /\ [Next]_vars =>
        [ session' # session /\ Undisturbed =>
            session' = None \/ (session = None /\ ~cxAborted) ]_vars
  <2> SUFFICES ASSUME Ownership, [Next]_vars, session' # session, Undisturbed
               PROVE  session' = None \/ (session = None /\ ~cxAborted)
    OBVIOUS
  <2>1. CASE SessionCreated
    BY <2>1 DEF SessionCreated, Ownership, AttemptOwns
  <2>2. CASE Attempt
    BY <2>1, <2>2 DEF Attempt, manager, Unpublished, PreviousSessionClosed,
       PreviousClientDisposed, CleanupAborted, SessionCleaned, CertificatePrepared, CertificateFails,
       ChannelOpens, ChannelFails, SessionCreatedTooLate, SessionRefused,
       RefusedClientDisposed, AbortedSessionClosed, AbortedClientDisposed
  <2>3. CASE Disconnecting
    BY <2>3 DEF Disconnecting, manager, InFlightDisposed, AttemptSettled, OfflineDisposed,
       SubscriptionsTerminated, SessionClosed, Released
  <2>4. CASE Calls \/ Loop \/ RepairSettles
    BY <2>4 DEF Calls, Loop, manager, NodeConnects, NodeReconnects, Disconnect, RetryLater,
       LoopEnds, RetryDelayOver, TimerFires, RepairSettles
  <2>5. CASE Operations
    BY <2>5 DEF Operations, StartOperation, EndOperation, OperationTimesOut,
       FindSessionInvalid, Subscribe, SubscriptionTerminated
  <2>6. ASSUME NEW c \in Clients,
               \/ LoseChannel(c) \/ ConnectionFailed(c)
               \/ RestoreUnheard(c) \/ RestoreAndWait(c) \/ RestoreSessionless(c)
               \/ RepairEnds(c) \/ ClientClosed(c)
        PROVE  session' = session
    BY <2>6 DEF LoseChannel, ConnectionFailed, RestoreUnheard, RestoreAndWait,
       RestoreSessionless, RepairEnds, ClientClosed, manager
  <2>7. CASE UNCHANGED vars
    BY <2>7 DEF vars, manager
  <2> QED
    BY <2>2, <2>3, <2>4, <2>5, <2>6, <2>7 DEF Next, NodeOpcua
<1> QED
  BY <1>1, OwnershipInvariant, PTL DEF Spec, SessionsAreReleasedFirst

-----------------------------------------------------------------------------
(* Winding down.  A lifecycle that disconnect() has ended stays ended.      *)

(* Only the attempt has a channel connecting; disposing of a client is what *)
(* happens to channels elsewhere.                                           *)
LEMMA ConnectingStep ==
  ASSUME TypeOK, ConnectingIsAwaited, [Next]_vars
  PROVE  ConnectingIsAwaited'
<1>0. chan \in [Clients -> Channels]
  BY DEF TypeOK, ExternalTypeOK
<1> USE <1>0 DEF ConnectingIsAwaited, DisposedChan, Disposable, Await
<1>1. ASSUME NEW conn, NEW late, Connect(conn, late)
      PROVE  ConnectingIsAwaited'
  BY <1>1 DEF Connect, StartAttempt, CreateClient, attempt
<1>2. ASSUME NEW ch \in [Clients -> Channels], Throw(ch),
             \A c \in Clients : ch[c] # "connecting"
      PROVE  ConnectingIsAwaited'
  BY <1>2 DEF Throw, Settle
<1>3. CASE PreviousSessionClosed \/ SessionCreatedTooLate \/ SessionRefused \/ AbortedSessionClosed
  BY <1>3 DEF PreviousSessionClosed, SessionCreatedTooLate, SessionRefused, AbortedSessionClosed
<1>4. CASE PreviousClientDisposed
  BY <1>4 DEF PreviousClientDisposed, CreateClient
<1>5. CASE CleanupAborted \/ SessionCreated \/ RefusedClientDisposed \/ AbortedClientDisposed
  BY <1>5 DEF CleanupAborted, SessionCreated, RefusedClientDisposed, AbortedClientDisposed,
     Settle, external
<1>6. CASE CertificatePrepared \/ CertificateFails
  BY <1>2, <1>6 DEF CertificatePrepared, CertificateFails
<1>7. CASE ChannelOpens
  BY <1>2, <1>7 DEF ChannelOpens, Channels
<1>8. CASE ChannelFails
  BY <1>2, <1>8 DEF ChannelFails, Channels
<1>9. CASE Calls \/ Loop \/ RepairSettles
  BY <1>1, <1>9 DEF Calls, Loop, NodeConnects, NodeReconnects, RetryLater, LoopEnds,
     RetryDelayOver, TimerFires, RepairSettles, Disconnect, ReleaseOffline, Dispose,
     attempt, external
<1>10. CASE Disconnecting
  BY <1>10 DEF Disconnecting, InFlightDisposed, AttemptSettled, OfflineDisposed,
     SubscriptionsTerminated, SessionClosed, Released, ReleaseOffline, ReleaseClient, Dispose,
     attempt, external
<1>11. CASE Operations
  BY <1>11 DEF Operations, StartOperation, EndOperation, OperationTimesOut, FindSessionInvalid,
     Subscribe, SubscriptionTerminated, coroutines, attempt, external
<1>12. ASSUME NEW c \in Clients,
              \/ LoseChannel(c) \/ ConnectionFailed(c)
              \/ RestoreUnheard(c) \/ RestoreAndWait(c) \/ RestoreSessionless(c)
              \/ RepairEnds(c) \/ ClientClosed(c)
       PROVE  ConnectingIsAwaited'
  BY <1>12 DEF LoseChannel, ConnectionFailed, RestoreUnheard, RestoreAndWait,
     RestoreSessionless, RepairEnds, ClientClosed, coroutines, attempt
<1>13. CASE UNCHANGED vars
  BY <1>13 DEF vars, coroutines, attempt, external
<1> QED
  BY <1>3, <1>4, <1>5, <1>6, <1>7, <1>8, <1>9, <1>10, <1>11, <1>12, <1>13
     DEF Next, Attempt, NodeOpcua

(* The attempt that disconnect() meets ends without a successor.            *)
LEMMA AttemptEndsStep ==
  ASSUME TypeOK, Owns, ConnectingIsAwaited, AttemptEnds, LifecycleOver, [Next]_vars,
         Undisturbed'
  PROVE  AttemptEnds' /\ LifecycleOver'
<1>0. /\ chan \in [Clients -> Channels] /\ client \in ClientOrNone
      /\ rwClient \in ClientOrNone
  BY DEF TypeOK, ManagerTypeOK, ExternalTypeOK, WaiterTypeOK
<1> USE <1>0, NoneAssumption DEF ConnectingIsAwaited, AttemptEnds, LifecycleOver, Await,
        ClientOrNone, manager, history
<1>1. ASSUME NEW conn \in BOOLEAN, NEW late \in {"lateCall", "lateRepair"}, Connect(conn, late),
             UNCHANGED dxPc
      PROVE  AttemptEnds'
  <2>1. CASE conn \/ cxPc # "idle"
    BY <1>1, <2>1 DEF Connect, attempt
  <2>2. CASE ~(conn \/ cxPc # "idle")
    BY <1>1, <2>2 DEF Connect, Undisturbed
  <2> QED
    BY <2>1, <2>2
<1>2. CASE NodeConnects \/ NodeReconnects
  <2>1. UNCHANGED dxPc /\ used' # {} /\ Connect(FALSE, "lateCall")
    BY <1>2 DEF NodeConnects, NodeReconnects, disc
  <2> QED
    BY <1>1, <2>1
<1>3. CASE RetryDelayOver
  <2>1. UNCHANGED <<dxPc, used>> /\ Connect(isConnected, "lateCall") /\ isConnected \in BOOLEAN
        /\ used # {}
    BY <1>3 DEF RetryDelayOver, disc, TypeOK, ManagerTypeOK
  <2> QED
    BY <1>1, <2>1
<1>4. CASE TimerFires
  <2>1. UNCHANGED <<dxPc, used>> /\ Connect(isConnected \/ timer = "stale", "lateCall")
        /\ (isConnected \/ timer = "stale") \in BOOLEAN /\ used # {}
    BY <1>4 DEF TimerFires, disc, TypeOK, ManagerTypeOK
  <2> QED
    BY <1>1, <2>1
<1>5. CASE RetryLater \/ LoopEnds
  BY <1>5 DEF RetryLater, LoopEnds, attempt, disc, external
<1>6. CASE RepairSettles
  <2>1. UNCHANGED <<dxPc, timer, rxPc, rxAborted, session>>
    BY <1>6 DEF RepairSettles, disc, loop
  <2>2. CASE Connect(FALSE, "lateRepair") /\ used' = used \cup {"repair"}
    BY <1>1, <2>1, <2>2
  <2>3. CASE UNCHANGED <<client, attempt, chan, used>> /\ (~Stale \/ UNCHANGED isConnected)
    BY <1>6, <2>1, <2>3 DEF RepairSettles, Stale, attempt
  <2> QED
    BY <1>6, <2>2, <2>3 DEF RepairSettles
<1>7. CASE Attempt
  <2>1. cxPc # "idle" /\ UNCHANGED used
    BY <1>7 DEF Attempt, Unpublished, PreviousSessionClosed, PreviousClientDisposed,
       CleanupAborted, CertificatePrepared, CertificateFails, ChannelOpens, ChannelFails,
       SessionCreated, SessionCreatedTooLate, SessionRefused, RefusedClientDisposed,
       AbortedSessionClosed, AbortedClientDisposed
  <2>2. CASE dxPc = "idle"
    <3>1. used # {}
      BY <2>1, <2>2
    <3>2. dxPc' = "idle"
      BY <1>7, <2>2 DEF Attempt, Unpublished, PreviousSessionClosed, PreviousClientDisposed,
         CleanupAborted, CertificatePrepared, CertificateFails, ChannelOpens, ChannelFails,
         SessionCreated, SessionCreatedTooLate, SessionRefused, RefusedClientDisposed,
         AbortedSessionClosed, AbortedClientDisposed, Throw, Settle, disc
    <3> QED
      BY <2>1, <3>1, <3>2
  <2>3. CASE dxPc # "idle"
    <3>1. cxAborted /\ dxPc \in {"dispose", "awaitConn"}
          /\ \A c \in Clients : chan[c] # "connecting"
      BY <2>1, <2>3
    <3> USE <2>1, <3>1 DEF DisposedChan, Disposable, external, disc, loop
    <3>2. CASE PreviousSessionClosed \/ AbortedSessionClosed
      BY <3>2 DEF PreviousSessionClosed, AbortedSessionClosed
    <3>3. CASE CleanupAborted \/ RefusedClientDisposed \/ AbortedClientDisposed
      BY <3>3 DEF CleanupAborted, RefusedClientDisposed, AbortedClientDisposed, Settle
    <3>4. CASE CertificatePrepared \/ CertificateFails
      BY <3>4 DEF CertificatePrepared, CertificateFails, Unpublished, Throw, Settle
    <3>5. CASE ChannelOpens \/ ChannelFails
      BY <3>5 DEF ChannelOpens, ChannelFails, Unpublished, Throw, Settle
    <3>6. CASE SessionCreatedTooLate \/ SessionRefused
      BY <3>6 DEF SessionCreatedTooLate, SessionRefused
    <3>7. ~PreviousClientDisposed /\ ~SessionCreated
      BY DEF PreviousClientDisposed, SessionCreated
    <3> QED
      BY <1>7, <3>2, <3>3, <3>4, <3>5, <3>6, <3>7 DEF Attempt
  <2> QED
    BY <2>2, <2>3
<1>8. CASE Disconnect
  BY <1>8 DEF Disconnect, ReleaseOffline, Dispose, DisposedChan, Disposable, Owns, AttemptOwns
<1>9. CASE Disconnecting
  <2> USE DEF Owns, DisconnectOwns, Dispose, DisposedChan, Disposable, attempt, loop, external
  <2>1. CASE InFlightDisposed \/ AttemptSettled \/ OfflineDisposed
    BY <2>1 DEF InFlightDisposed, AttemptSettled, OfflineDisposed, ReleaseOffline
  <2>2. CASE SubscriptionsTerminated
    BY <2>2 DEF SubscriptionsTerminated, ReleaseClient
  <2>3. CASE SessionClosed
    BY <2>3 DEF SessionClosed, ReleaseClient
  <2>4. CASE Released
    BY <2>4 DEF Released
  <2> QED
    BY <1>9, <2>1, <2>2, <2>3, <2>4 DEF Disconnecting
<1>10. CASE Operations
  BY <1>10 DEF Operations, StartOperation, EndOperation, OperationTimesOut, FindSessionInvalid,
     Subscribe, SubscriptionTerminated, Usable, coroutines, attempt, loop, disc, external
<1>11. ASSUME NEW c \in Clients, ConnectionFailed(c)
       PROVE  AttemptEnds' /\ LifecycleOver'
  <2>1. cxPc = "chan" /\ dxPc = "idle"
    BY <1>11 DEF ConnectionFailed
  <2> QED
    BY <1>11, <2>1 DEF ConnectionFailed, coroutines, attempt, loop, disc
<1>12. ASSUME NEW c \in Clients,
              \/ LoseChannel(c)
              \/ RestoreUnheard(c) \/ RestoreAndWait(c) \/ RestoreSessionless(c)
              \/ RepairEnds(c) \/ ClientClosed(c)
       PROVE  AttemptEnds' /\ LifecycleOver'
  <2>1. /\ UNCHANGED <<client, session, timer, used, attempt, loop, dxPc>>
        /\ \A d \in Clients : chan'[d] = "connecting" => chan[d] = "connecting"
    BY <1>12 DEF LoseChannel, RestoreUnheard, RestoreAndWait, RestoreSessionless, RepairEnds,
       ClientClosed, coroutines, disc
  <2>2. isConnected' => isConnected
    BY <1>12 DEF LoseChannel, RestoreUnheard, RestoreAndWait, RestoreSessionless, RepairEnds,
       ClientClosed
  <2> QED
    BY <2>1, <2>2 DEF attempt, loop
<1>13. CASE UNCHANGED vars
  BY <1>13 DEF vars, coroutines, attempt, loop, disc, external
<1> QED
  BY <1>2, <1>3, <1>4, <1>5, <1>6, <1>7, <1>8, <1>9, <1>10, <1>11, <1>12, <1>13
     DEF Next, Calls, Loop, NodeOpcua

(* What is left of an ended lifecycle, in every reachable state.            *)
THEOREM WindingInvariant == Spec => []Winding
<1>1. Init => Winding
  BY DEF Init, Winding, ConnectingIsAwaited, AttemptEnds, LifecycleOver
<1>2. TypeOK /\ Ownership /\ Winding /\ [Next]_vars => Winding'
  BY RacesStay, ConnectingStep, AttemptEndsStep DEF Winding, Ownership, Owns
<1>3. QED
  BY <1>1, <1>2, TypeCorrect, OwnershipInvariant, PTL DEF Spec

(* Once disconnect() has run, and until somebody asks for a connection      *)
(* again, nothing of the ended lifecycle is left or can come back.          *)
THEOREM ReleasedForGood == Spec => []ReleasedStaysReleased
<1>1. Ownership /\ Winding => ReleasedStaysReleased
  BY NoneAssumption DEF Ownership, Winding, OwnsLive, AttemptEnds, LifecycleOver,
     ReleasedStaysReleased, Quiet
<1> QED
  BY <1>1, OwnershipInvariant, WindingInvariant, PTL

-----------------------------------------------------------------------------
(* Backing.  What "connected" and a handle of the map stand for.            *)

(* A session is published once per lifecycle, and clears the handles of the *)
(* ones before it.                                                          *)
LEMMA SessionAloneStep ==
  ASSUME TypeOK, SessionAlone, [Next]_vars
  PROVE  SessionAlone'
<1>0. /\ session \in ClientOrNone /\ cxClient \in ClientOrNone /\ subs \subseteq Clients
      /\ isConnected \in BOOLEAN
  BY DEF TypeOK, ManagerTypeOK, AttemptTypeOK
<1> USE <1>0, NoneAssumption DEF SessionAlone, ClientOrNone, manager, coroutines, waiter
<1>1. ASSUME session' \in {session, None}, subs' \subseteq subs, everConnected' = everConnected,
             isConnected' => isConnected, UNCHANGED waiter
      PROVE  SessionAlone'
  BY <1>1
<1>2. CASE SessionCreated
  BY <1>2 DEF SessionCreated, HandlesKept
<1>3. CASE Attempt
  BY <1>1, <1>2, <1>3 DEF Attempt, Unpublished, PreviousSessionClosed, PreviousClientDisposed,
     CleanupAborted, SessionCleaned, CertificatePrepared, CertificateFails, ChannelOpens,
     ChannelFails, SessionCreatedTooLate, SessionRefused, RefusedClientDisposed,
     AbortedSessionClosed, AbortedClientDisposed
<1>4. CASE Calls \/ Loop
  BY <1>1, <1>4 DEF Calls, Loop, NodeConnects, NodeReconnects, Disconnect, RetryLater,
     LoopEnds, RetryDelayOver, TimerFires
<1>5. CASE RepairSettles
  <2>1. UNCHANGED <<session, everConnected, subs>> /\ rwClient' = None /\ rwClient # None
    BY <1>5 DEF RepairSettles
  <2>2. CASE isConnected' => isConnected
    BY <2>1, <2>2
  <2>3. CASE ~Stale
    BY <2>1, <2>3 DEF Stale
  <2>4. UNCHANGED isConnected \/ ~isConnected' \/ ~Stale
    BY <1>5 DEF RepairSettles
  <2> QED
    BY <2>2, <2>3, <2>4
<1>6. CASE Subscribe
  BY <1>6 DEF Subscribe, Usable
<1>7. CASE Operations
  BY <1>1, <1>6, <1>7 DEF Operations, StartOperation, EndOperation, OperationTimesOut,
     FindSessionInvalid, SubscriptionTerminated
<1>8. ASSUME NEW c \in Clients, RestoreAndWait(c)
      PROVE  SessionAlone'
  BY <1>8 DEF RestoreAndWait
<1>9. ASSUME NEW c \in Clients,
             \/ LoseChannel(c) \/ ConnectionFailed(c)
             \/ RestoreUnheard(c) \/ RestoreSessionless(c)
             \/ RepairEnds(c) \/ ClientClosed(c)
      PROVE  SessionAlone'
  BY <1>1, <1>9 DEF LoseChannel, ConnectionFailed, RestoreUnheard, RestoreSessionless,
     RepairEnds, ClientClosed
<1>10. CASE Disconnecting
  BY <1>1, <1>10 DEF Disconnecting, InFlightDisposed, AttemptSettled, OfflineDisposed,
     SubscriptionsTerminated, SessionClosed, Released, ReleaseClient
<1>11. CASE UNCHANGED vars
  BY <1>1, <1>11 DEF vars
<1> QED
  BY <1>3, <1>4, <1>5, <1>7, <1>8, <1>9, <1>10, <1>11 DEF Next, NodeOpcua

(* connect() marks nothing connected; an attempt it starts lets go of the   *)
(* client whose listeners it removes.                                       *)
LEMMA ConnectBacks ==
  ASSUME TypeOK, Owns, SessionBacked, ConnectedAlone, Undisturbed',
         NEW conn \in BOOLEAN, NEW late \in {"lateCall", "lateRepair"}, Connect(conn, late),
         isConnected' => isConnected /\ (conn \/ cxPc # "idle"),
         UNCHANGED <<session, dxPc>>
  PROVE  SessionBacked' /\ ConnectedAlone'
<1> USE NoneAssumption DEF SessionBacked, ConnectedAlone
<1>1. CASE conn \/ cxPc # "idle"
  BY <1>1 DEF Connect, attempt
<1>2. CASE ~(conn \/ cxPc # "idle")
  <2>1. StartAttempt /\ ~isConnected'
    BY <1>2 DEF Connect
  <2> QED
    BY <2>1 DEF StartAttempt, CreateClient, Await, Owns, DisconnectOwns
<1> QED
  BY <1>1, <1>2

(* The steps of the attempt.                                                *)
LEMMA AttemptBacksStep ==
  ASSUME TypeOK, Owns, AttemptEnds, SessionBacked, ConnectedAlone, Attempt
  PROVE  SessionBacked' /\ ConnectedAlone'
<1> USE NoneAssumption DEF SessionBacked, ConnectedAlone, Owns, AttemptOwns, DisconnectOwns,
        Await, manager, disc, external, history, Unpublished
<1>1. CASE PreviousSessionClosed
  BY <1>1 DEF PreviousSessionClosed
<1>2. CASE PreviousClientDisposed
  BY <1>2 DEF PreviousClientDisposed, SessionCleaned, CreateClient
<1>3. CASE CleanupAborted
  BY <1>3 DEF CleanupAborted, SessionCleaned, Settle
<1>4. CASE CertificatePrepared
  BY <1>4 DEF CertificatePrepared, Throw, Settle
<1>5. CASE CertificateFails
  BY <1>5 DEF CertificateFails, Throw, Settle
<1>6. CASE ChannelOpens
  BY <1>6 DEF ChannelOpens, Throw, Settle
<1>7. CASE ChannelFails
  BY <1>7 DEF ChannelFails, Throw, Settle
<1>8. CASE SessionCreated
  BY <1>8 DEF SessionCreated, Settle
<1>9. CASE SessionCreatedTooLate
  BY <1>9 DEF SessionCreatedTooLate
<1>10. CASE SessionRefused
  BY <1>10 DEF SessionRefused
<1>11. CASE RefusedClientDisposed
  BY <1>11 DEF RefusedClientDisposed, Settle
<1>12. CASE AbortedSessionClosed
  BY <1>12 DEF AbortedSessionClosed
<1>13. CASE AbortedClientDisposed
  BY <1>13 DEF AbortedClientDisposed, Settle
<1> QED
  BY <1>1, <1>2, <1>3, <1>4, <1>5, <1>6, <1>7, <1>8, <1>9, <1>10, <1>11, <1>12, <1>13
     DEF Attempt

(* The steps of disconnect(): it ends with neither session nor connection.  *)
LEMMA DisconnectBacksStep ==
  ASSUME TypeOK, Owns, SessionBacked, ConnectedAlone, Disconnect \/ Disconnecting
  PROVE  SessionBacked' /\ ConnectedAlone'
<1> USE NoneAssumption DEF SessionBacked, ConnectedAlone, Owns, AttemptOwns, DisconnectOwns,
        Dispose, manager, attempt, history
<1>1. CASE Disconnect
  BY <1>1 DEF Disconnect, ReleaseOffline
<1>2. CASE InFlightDisposed \/ AttemptSettled \/ OfflineDisposed
  BY <1>2 DEF InFlightDisposed, AttemptSettled, OfflineDisposed, ReleaseOffline, external
<1>3. CASE SubscriptionsTerminated
  BY <1>3 DEF SubscriptionsTerminated, ReleaseClient
<1>4. CASE SessionClosed
  BY <1>4 DEF SessionClosed, ReleaseClient
<1>5. CASE Released
  BY <1>5 DEF Released, external
<1> QED
  BY <1>1, <1>2, <1>3, <1>4, <1>5 DEF Disconnecting

(* Backing holds of every manager, its second part of an undisturbed one.   *)
THEOREM BackingInvariant == Spec => []Backing
<1>1. Init => Backing
  BY DEF Init, Backing, SessionAlone, SessionBacked, ConnectedAlone
<1>2. TypeOK /\ Ownership /\ Winding /\ Backing /\ [Next]_vars => Backing'
  <2> SUFFICES ASSUME TypeOK, Ownership, Winding, Backing, [Next]_vars, Undisturbed'
               PROVE  SessionBacked' /\ ConnectedAlone'
    BY SessionAloneStep DEF Backing
  <2>1. Owns /\ AttemptEnds /\ SessionAlone /\ SessionBacked /\ ConnectedAlone
    BY RacesStay DEF Ownership, Winding, Backing, Owns
  <2>2. isConnected \in BOOLEAN
    BY DEF TypeOK, ManagerTypeOK
  <2>3. ASSUME UNCHANGED <<client, session, attempt, dxPc, heard, races>>,
               isConnected' => isConnected
        PROVE  SessionBacked' /\ ConnectedAlone'
    BY <2>1, <2>3 DEF SessionBacked, ConnectedAlone, attempt
  <2>4. CASE NodeConnects \/ NodeReconnects
    <3>1. Connect(FALSE, "lateCall") /\ UNCHANGED <<session, dxPc>>
      BY <2>4 DEF NodeConnects, NodeReconnects, disc
    <3>2. ~isConnected'
      BY <2>4 DEF NodeConnects, NodeReconnects
    <3> QED
      BY <2>1, <3>1, <3>2, ConnectBacks
  <2>5. CASE RetryDelayOver
    BY <2>1, <2>2, <2>5, ConnectBacks DEF RetryDelayOver, disc
  <2>6. CASE TimerFires
    <3>1. Connect(isConnected \/ timer = "stale", "lateCall")
          /\ UNCHANGED <<session, isConnected, dxPc>>
      BY <2>6 DEF TimerFires, disc
    <3>2. (isConnected \/ timer = "stale") \in BOOLEAN
      BY <2>2
    <3> QED
      BY <2>1, <3>1, <3>2, ConnectBacks
  <2>7. CASE RetryLater \/ LoopEnds
    BY <2>3, <2>7 DEF RetryLater, LoopEnds, manager, disc, external, history
  <2>8. CASE Attempt
    BY <2>1, <2>8, AttemptBacksStep
  <2>9. CASE Operations
    BY <2>3, <2>9 DEF Operations, StartOperation, EndOperation, OperationTimesOut,
       FindSessionInvalid, Subscribe, SubscriptionTerminated, coroutines, disc, external, history
  <2>10. CASE RepairSettles
    <3>1. UNCHANGED <<session, dxPc>>
      BY <2>10 DEF RepairSettles, disc
    <3>2. CASE Connect(FALSE, "lateRepair") /\ ~isConnected'
      BY <2>1, <3>1, <3>2, ConnectBacks
    <3>3. CASE /\ UNCHANGED <<client, attempt, heard>> /\ session = rwSession
               /\ races' = races \cup IF cxPc = "idle" THEN {} ELSE {"phantom"}
      <4>1. session # None
        BY <2>1, <2>10, <3>3 DEF RepairSettles, SessionAlone
      <4> QED
        BY <2>1, <3>1, <3>3, <4>1 DEF SessionBacked, ConnectedAlone, attempt
    <3>4. CASE UNCHANGED <<client, isConnected, attempt, heard, races>>
      BY <2>3, <3>1, <3>4
    <3>5. \/ UNCHANGED <<client, isConnected, attempt, heard, history>>
          \/ ~isConnected' /\ Connect(FALSE, "lateRepair")
          \/ /\ ~Stale /\ UNCHANGED <<client, attempt, heard>>
             /\ races' = races \cup IF cxPc = "idle" THEN {} ELSE {"phantom"}
      BY <2>10 DEF RepairSettles
    <3> QED
      BY <3>2, <3>3, <3>4, <3>5 DEF Stale, history
  <2>11. ASSUME NEW c \in Clients,
                \/ LoseChannel(c) \/ ConnectionFailed(c)
                \/ RestoreUnheard(c) \/ RestoreAndWait(c) \/ RestoreSessionless(c)
                \/ RepairEnds(c) \/ ClientClosed(c)
         PROVE  SessionBacked' /\ ConnectedAlone'
    BY <2>3, <2>11 DEF LoseChannel, ConnectionFailed, RestoreUnheard, RestoreAndWait,
       RestoreSessionless, RepairEnds, ClientClosed, manager, coroutines, disc, history
  <2>12. CASE Disconnect \/ Disconnecting
    BY <2>1, <2>12, DisconnectBacksStep
  <2>13. CASE UNCHANGED vars
    BY <2>3, <2>13 DEF vars, manager, coroutines, disc, external, history
  <2> QED
    BY <2>4, <2>5, <2>6, <2>7, <2>8, <2>9, <2>10, <2>11, <2>12, <2>13
       DEF Next, Calls, Loop, NodeOpcua
<1>3. QED
  BY <1>1, <1>2, TypeCorrect, OwnershipInvariant, WindingInvariant, PTL DEF Spec

(* A manager that says it is connected has a session, on its own client,    *)
(* whose loss it would hear of.                                             *)
THEOREM ConnectedHasSession == Spec => []ConnectedIsBacked
<1>1. Backing => ConnectedIsBacked
  BY DEF Backing, SessionBacked, ConnectedAlone, ConnectedIsBacked, Undisturbed
<1> QED
  BY <1>1, BackingInvariant, PTL

(* The handles of a connected manager are of its current session.           *)
THEOREM HandlesAreCurrent == Spec => []NoStaleHandles
<1>1. Backing => NoStaleHandles
  BY DEF Backing, SessionAlone, ConnectedAlone, NoStaleHandles, Undisturbed
<1> QED
  BY <1>1, BackingInvariant, PTL

-----------------------------------------------------------------------------
(* Closing.  Nothing of a client outlives its channel, and nothing replaces *)
(* a client whose channel is still closing.                                 *)

(* A session or an operation is on a channel that is not closed.            *)
LEMMA OnChannelStep ==
  ASSUME TypeOK, OnChannel, [Next]_vars
  PROVE  OnChannel'
<1>0. /\ chan \in [Clients -> Channels] /\ sess \in [Clients -> {"closed", "open", "repairing"}]
      /\ ops \subseteq Clients
  BY DEF TypeOK, ManagerTypeOK, ExternalTypeOK
<1> USE <1>0 DEF OnChannel, DisposedChan, Disposable
<1>1. ASSUME ops' = ops, sess' = sess \/ \E s, held : CloseSettles(s, held),
             \A c \in Clients : chan'[c] = "closed" => chan[c] = "closed"
      PROVE  OnChannel'
  BY <1>1 DEF CloseSettles
<1>2. ASSUME NEW conn, NEW late, Connect(conn, late)
      PROVE  \A c \in Clients : chan'[c] = "closed" => chan[c] = "closed"
  BY <1>2 DEF Connect, StartAttempt, CreateClient
<1>3. CASE SessionCreated \/ SessionCreatedTooLate
  BY <1>3 DEF SessionCreated, SessionCreatedTooLate, manager
<1>4. CASE PreviousSessionClosed \/ AbortedSessionClosed
  BY <1>1, <1>4 DEF PreviousSessionClosed, AbortedSessionClosed, manager
<1>5. CASE PreviousClientDisposed \/ CleanupAborted \/ SessionRefused
             \/ RefusedClientDisposed \/ AbortedClientDisposed
  BY <1>1, <1>5 DEF PreviousClientDisposed, CreateClient, CleanupAborted, SessionRefused,
     RefusedClientDisposed, AbortedClientDisposed, manager, external
<1>6. CASE CertificatePrepared \/ CertificateFails
  BY <1>1, <1>6 DEF CertificatePrepared, CertificateFails, Throw, Unpublished
<1>7. CASE ChannelOpens
  BY <1>1, <1>7 DEF ChannelOpens, Throw, Unpublished
<1>8. CASE ChannelFails
  BY <1>1, <1>8 DEF ChannelFails, Throw, Unpublished
<1>9. CASE NodeConnects \/ NodeReconnects \/ RetryDelayOver \/ TimerFires
  BY <1>1, <1>2, <1>9 DEF NodeConnects, NodeReconnects, RetryDelayOver, TimerFires
<1>10. CASE RetryLater \/ LoopEnds
  BY <1>10 DEF RetryLater, LoopEnds, manager, external
<1>11. CASE RepairSettles
  BY <1>1, <1>2, <1>11 DEF RepairSettles
<1>12. CASE StartOperation
  BY <1>12 DEF StartOperation, Usable, external
<1>13. CASE FindSessionInvalid \/ Subscribe
  BY <1>13 DEF FindSessionInvalid, Subscribe, external
<1>14. ASSUME NEW s \in Clients,
              EndOperation(s) \/ OperationTimesOut(s) \/ SubscriptionTerminated(s)
       PROVE  OnChannel'
  BY <1>14 DEF EndOperation, OperationTimesOut, SubscriptionTerminated, external
<1>15. ASSUME NEW c \in Clients,
              \/ LoseChannel(c) \/ ConnectionFailed(c)
              \/ RestoreUnheard(c) \/ RestoreAndWait(c) \/ RestoreSessionless(c)
              \/ RepairEnds(c) \/ ClientClosed(c)
       PROVE  OnChannel'
  BY <1>15 DEF LoseChannel, ConnectionFailed, RestoreUnheard, RestoreAndWait,
     RestoreSessionless, RepairEnds, ClientClosed, manager
<1>16. CASE Disconnect
  BY <1>1, <1>16 DEF Disconnect, ReleaseOffline, Dispose
<1>17. CASE InFlightDisposed \/ AttemptSettled \/ OfflineDisposed \/ Released
  BY <1>1, <1>17 DEF InFlightDisposed, AttemptSettled, OfflineDisposed, Released,
     ReleaseOffline, Dispose, manager, external
<1>18. CASE SubscriptionsTerminated \/ SessionClosed
  BY <1>1, <1>18 DEF SubscriptionsTerminated, SessionClosed, ReleaseClient, Dispose
<1>19. CASE UNCHANGED vars
  BY <1>19 DEF vars, manager, external
<1> QED
  BY <1>3, <1>4, <1>5, <1>6, <1>7, <1>8, <1>9, <1>10, <1>11, <1>12, <1>13, <1>14, <1>15, <1>16,
     <1>17, <1>18, <1>19
     DEF Next, Calls, Attempt, Loop, Operations, NodeOpcua, Disconnecting

(* connect() in an undisturbed manager waits for the client it disposes of. *)
LEMMA ConnectCloses ==
  ASSUME TypeOK, Owns, ClosingIsAwaited, Undisturbed', NEW conn \in BOOLEAN,
         NEW late \in {"lateCall", "lateRepair"}, Connect(conn, late),
         UNCHANGED disc
  PROVE  ClosingIsAwaited'
<1>0. chan \in [Clients -> Channels]
  BY DEF TypeOK, ExternalTypeOK
<1> USE <1>0, NoneAssumption DEF ClosingIsAwaited, disc
<1>1. CASE conn \/ cxPc # "idle"
  BY <1>1 DEF Connect, attempt
<1>2. CASE ~(conn \/ cxPc # "idle")
  <2>1. StartAttempt /\ cxPc = "idle" /\ dxPc = "idle"
    BY <1>2 DEF Connect, Undisturbed
  <2>2. \A c \in Clients : chan[c] # "closing"
    BY <2>1
  <2> QED
    BY <2>1, <2>2
       DEF StartAttempt, CreateClient, Await, Awaited, DisposedChan, Disposable, Channels
<1> QED
  BY <1>1, <1>2

(* The steps of the attempt.                                                *)
LEMMA AttemptClosesStep ==
  ASSUME TypeOK, Owns, ClosingIsAwaited, AttemptEnds, Attempt
  PROVE  ClosingIsAwaited'
<1>0. chan \in [Clients -> Channels] /\ cxClient \in ClientOrNone /\ cxPrev \in ClientOrNone
  BY DEF TypeOK, AttemptTypeOK, ExternalTypeOK
<1> USE <1>0, NoneAssumption DEF ClosingIsAwaited, Owns, AttemptOwns, DisconnectOwns, AttemptEnds,
        Await, Awaited, Waited, DisposedChan, Disposable, ClientOrNone, manager, disc, external
<1>1. CASE PreviousSessionClosed
  BY <1>1 DEF PreviousSessionClosed
<1>2. CASE PreviousClientDisposed
  <2>1. dxPc = "idle"
    BY <1>2 DEF PreviousClientDisposed
  <2>2. \A c \in Clients : chan[c] # "closing"
    BY <1>2, <2>1 DEF PreviousClientDisposed
  <2> QED
    BY <1>2, <2>1, <2>2 DEF PreviousClientDisposed, CreateClient
<1>3. CASE CleanupAborted
  BY <1>3 DEF CleanupAborted, Settle
<1>4. CASE CertificatePrepared
  BY <1>4 DEF CertificatePrepared, Throw, Unpublished, Settle
<1>5. CASE CertificateFails
  BY <1>5 DEF CertificateFails, Throw, Unpublished, Settle
<1>6. CASE ChannelOpens
  BY <1>6 DEF ChannelOpens, Throw, Unpublished, Settle
<1>7. CASE ChannelFails
  BY <1>7 DEF ChannelFails, Throw, Unpublished, Settle
<1>8. CASE SessionCreated
  BY <1>8 DEF SessionCreated, Settle
<1>9. CASE SessionCreatedTooLate
  BY <1>9 DEF SessionCreatedTooLate
<1>10. CASE SessionRefused
  BY <1>10 DEF SessionRefused
<1>11. CASE RefusedClientDisposed
  BY <1>11 DEF RefusedClientDisposed, Settle
<1>12. CASE AbortedSessionClosed
  BY <1>12 DEF AbortedSessionClosed
<1>13. CASE AbortedClientDisposed
  BY <1>13 DEF AbortedClientDisposed, Settle
<1> QED
  BY <1>1, <1>2, <1>3, <1>4, <1>5, <1>6, <1>7, <1>8, <1>9, <1>10, <1>11, <1>12, <1>13
     DEF Attempt

(* The steps of disconnect().                                               *)
LEMMA DisconnectClosesStep ==
  ASSUME TypeOK, Owns, ClosingIsAwaited, Disconnect \/ Disconnecting
  PROVE  ClosingIsAwaited'
<1>0. chan \in [Clients -> Channels] /\ client \in ClientOrNone
  BY DEF TypeOK, ManagerTypeOK, ExternalTypeOK
<1> USE <1>0, NoneAssumption DEF ClosingIsAwaited, Owns, DisconnectOwns, Dispose, Awaited, Waited,
        DisposedChan, Disposable, ClientOrNone, manager, attempt, external
<1>1. CASE Disconnect
  BY <1>1 DEF Disconnect, ReleaseOffline
<1>2. CASE InFlightDisposed
  BY <1>2 DEF InFlightDisposed, ReleaseOffline
<1>3. CASE AttemptSettled
  BY <1>3 DEF AttemptSettled, ReleaseOffline
<1>4. CASE OfflineDisposed
  BY <1>4 DEF OfflineDisposed
<1>5. CASE SubscriptionsTerminated
  BY <1>5 DEF SubscriptionsTerminated, ReleaseClient
<1>6. CASE SessionClosed
  BY <1>6 DEF SessionClosed, ReleaseClient
<1>7. CASE Released
  BY <1>7 DEF Released
<1> QED
  BY <1>1, <1>2, <1>3, <1>4, <1>5, <1>6, <1>7 DEF Disconnecting

(* Closing holds of every manager, its second part of an undisturbed one.   *)
THEOREM ClosingInvariant == Spec => []Closing
<1>1. Init => Closing
  BY DEF Init, Closing, OnChannel, ClosingIsAwaited
<1>2. TypeOK /\ Ownership /\ Winding /\ Closing /\ [Next]_vars => Closing'
  <2> SUFFICES ASSUME TypeOK, Ownership, Winding, Closing, [Next]_vars, Undisturbed'
               PROVE  ClosingIsAwaited'
    BY OnChannelStep DEF Closing
  <2>1. Owns /\ AttemptEnds /\ ClosingIsAwaited
    BY RacesStay DEF Ownership, Winding, Closing, Owns
  <2>2. isConnected \in BOOLEAN /\ chan \in [Clients -> Channels]
    BY DEF TypeOK, ManagerTypeOK, ExternalTypeOK
  <2>3. ASSUME UNCHANGED <<client, attempt, disc>>,
               \A c \in Clients : chan'[c] = "closing" => chan[c] = "closing"
        PROVE  ClosingIsAwaited'
    BY <2>1, <2>3 DEF ClosingIsAwaited, attempt, disc
  <2>4. CASE NodeConnects \/ NodeReconnects
    BY <2>1, <2>4, ConnectCloses DEF NodeConnects, NodeReconnects
  <2>5. CASE RetryDelayOver
    BY <2>1, <2>2, <2>5, ConnectCloses DEF RetryDelayOver
  <2>6. CASE TimerFires
    <3>1. Connect(isConnected \/ timer = "stale", "lateCall") /\ UNCHANGED disc
      BY <2>6 DEF TimerFires
    <3>2. (isConnected \/ timer = "stale") \in BOOLEAN
      BY <2>2
    <3> QED
      BY <2>1, <3>1, <3>2, ConnectCloses
  <2>7. CASE RetryLater \/ LoopEnds
    BY <2>3, <2>7 DEF RetryLater, LoopEnds, manager, external
  <2>8. CASE Attempt
    BY <2>1, <2>8, AttemptClosesStep
  <2>9. CASE Operations
    BY <2>3, <2>9 DEF Operations, StartOperation, EndOperation, OperationTimesOut,
       FindSessionInvalid, Subscribe, SubscriptionTerminated, coroutines, external
  <2>10. CASE RepairSettles
    <3>1. UNCHANGED disc
      BY <2>10 DEF RepairSettles
    <3>2. UNCHANGED <<client, attempt, chan>> \/ Connect(FALSE, "lateRepair")
      BY <2>10 DEF RepairSettles
    <3> QED
      BY <2>1, <2>3, <3>1, <3>2, ConnectCloses
  <2>11. ASSUME NEW c \in Clients,
                \/ LoseChannel(c) \/ ConnectionFailed(c)
                \/ RestoreUnheard(c) \/ RestoreAndWait(c) \/ RestoreSessionless(c)
                \/ RepairEnds(c) \/ ClientClosed(c)
         PROVE  ClosingIsAwaited'
    BY <2>2, <2>3, <2>11 DEF LoseChannel, ConnectionFailed, RestoreUnheard, RestoreAndWait,
       RestoreSessionless, RepairEnds, ClientClosed, manager, coroutines
  <2>12. CASE Disconnect \/ Disconnecting
    BY <2>1, <2>12, DisconnectClosesStep
  <2>13. CASE UNCHANGED vars
    BY <2>3, <2>13 DEF vars, manager, coroutines, external
  <2> QED
    BY <2>4, <2>5, <2>6, <2>7, <2>8, <2>9, <2>10, <2>11, <2>12, <2>13
       DEF Next, Calls, Loop, NodeOpcua
<1>3. QED
  BY <1>1, <1>2, TypeCorrect, OwnershipInvariant, WindingInvariant, PTL DEF Spec

(* A timed-out operation ran on the session that is still in place, if one  *)
(* is: an earlier one's client would be closing, and keep its place.        *)
THEOREM TimeoutsHitTheirOwn == Spec => TimeoutHitsOwnSession
<1>1. TypeOK /\ Ownership /\ Backing /\ Closing =>
        \A s \in Clients :
          OperationTimesOut(s) /\ isConnected /\ Undisturbed => session \in {s, None}
  <2> SUFFICES ASSUME TypeOK, Owns, SessionBacked, OnChannel, ClosingIsAwaited,
                      NEW s \in Clients, s \in ops, session # None
               PROVE  session = s
    BY DEF Ownership, Owns, Backing, Closing, OperationTimesOut
  <2>1. session = client /\ chan \in [Clients -> Channels]
    BY DEF SessionBacked, TypeOK, ExternalTypeOK
  <2>2. CASE Live(s)
    BY <2>1, <2>2 DEF Owns, OwnsLive
  <2>3. CASE chan[s] = "closing"
    BY <2>1, <2>3, NoneAssumption DEF ClosingIsAwaited, Owns, AttemptOwns
  <2> QED
    BY <2>2, <2>3 DEF OnChannel, Live
<1>2. TypeOK /\ Ownership /\ Backing /\ Closing =>
        [ \A s \in Clients :
            OperationTimesOut(s) /\ isConnected /\ Undisturbed => session \in {s, None} ]_vars
  BY <1>1
<1> QED
  BY <1>2, TypeCorrect, OwnershipInvariant, BackingInvariant, ClosingInvariant, PTL
     DEF TimeoutHitsOwnSession

-----------------------------------------------------------------------------
(* Staying in use.  Why the manager never gives up.                         *)

(* connect() in an undisturbed manager either starts an attempt or finds a  *)
(* session, or an attempt that nobody has aborted, in place.                *)
LEMMA ConnectKeeps ==
  ASSUME TypeOK, AttemptEnds, ConnectedAlone, InUse, Undisturbed',
         NEW conn \in BOOLEAN, conn => isConnected,
         NEW late \in {"lateCall", "lateRepair"}, Connect(conn, late),
         timer' # "stale", UNCHANGED <<session, dxPc>>,
         timer' = timer \/ conn \/ cxPc' # "idle",
         used' = used \/ ~conn
  PROVE  InUse'
<1> USE NoneAssumption DEF InUse, ConnectedAlone, AttemptEnds
<1>1. CASE conn /\ cxPc = "idle"
  <2>1. UNCHANGED <<attempt, chan, races, used>>
    BY <1>1 DEF Connect
  <2> QED
    BY <1>1, <2>1 DEF attempt
<1>2. CASE cxPc # "idle"
  BY <1>2 DEF Connect, attempt
<1>3. CASE ~(conn \/ cxPc # "idle")
  <2>1. StartAttempt /\ cxPc = "idle" /\ dxPc = "idle" /\ UNCHANGED cxAborted
    BY <1>3 DEF Connect, Undisturbed
  <2>2. cxPc' \in {"cert", "closeSess", "cleanup"}
    BY <2>1 DEF StartAttempt, CreateClient, Await
  <2> QED
    BY <2>1, <2>2
<1> QED
  BY <1>1, <1>2, <1>3

(* The steps of the attempt: it fails in a lifecycle that nobody has ended, *)
(* and arms the timer, or the lifecycle is over.                            *)
LEMMA AttemptKeepsStep ==
  ASSUME TypeOK, Owns, AttemptEnds, ClosingIsAwaited, InUse, Attempt
  PROVE  InUse'
<1>0. /\ chan \in [Clients -> Channels] /\ cxClient \in ClientOrNone
      /\ timer \in {"none", "live", "stale"}
  BY DEF TypeOK, ManagerTypeOK, AttemptTypeOK, ExternalTypeOK
<1> USE <1>0, NoneAssumption DEF InUse, Owns, AttemptOwns, DisconnectOwns, AttemptEnds, ArmedTimer,
        Await, ClientOrNone, manager, disc, external, history, Unpublished
<1>1. CASE PreviousSessionClosed \/ SessionCreatedTooLate \/ SessionRefused \/ AbortedSessionClosed
  BY <1>1 DEF PreviousSessionClosed, SessionCreatedTooLate, SessionRefused, AbortedSessionClosed
<1>2. CASE PreviousClientDisposed
  BY <1>2 DEF PreviousClientDisposed, CreateClient
<1>3. CASE CleanupAborted
  BY <1>3 DEF CleanupAborted, SessionCleaned, Settle
<1>4. CASE CertificatePrepared \/ CertificateFails
  BY <1>4 DEF CertificatePrepared, CertificateFails, Throw, Settle
<1>5. CASE ChannelOpens \/ ChannelFails
  BY <1>5 DEF ChannelOpens, ChannelFails, Throw, Settle
<1>6. CASE SessionCreated
  <2>1. dxPc = "idle" /\ cxPc = "create" /\ session' = cxClient /\ cxClient # None
        /\ UNCHANGED <<chan, timer>> /\ chan[cxClient] \in {"up", "closing"}
    BY <1>6 DEF SessionCreated
  <2>2. chan[cxClient] = "up"
    BY <2>1 DEF ClosingIsAwaited
  <2>3. dxPc' = "idle" /\ cxPc' = "idle" /\ ~cxAborted'
    BY <1>6, <2>1 DEF SessionCreated, Settle
  <2> QED
    BY <2>1, <2>2, <2>3
<1>7. CASE RefusedClientDisposed
  BY <1>7 DEF RefusedClientDisposed, Settle
<1>8. CASE AbortedClientDisposed
  BY <1>8 DEF AbortedClientDisposed, Settle
<1> QED
  BY <1>1, <1>2, <1>3, <1>4, <1>5, <1>6, <1>7, <1>8 DEF Attempt

(* The steps of disconnect().                                               *)
LEMMA DisconnectKeepsStep ==
  ASSUME TypeOK, Owns, InUse, Disconnect \/ Disconnecting
  PROVE  InUse'
<1> USE NoneAssumption DEF InUse, Owns, DisconnectOwns, Dispose, manager, attempt, history
<1>1. CASE Disconnect
  BY <1>1 DEF Disconnect, ReleaseOffline
<1>2. CASE InFlightDisposed \/ AttemptSettled \/ OfflineDisposed
  BY <1>2 DEF InFlightDisposed, AttemptSettled, OfflineDisposed, ReleaseOffline, external
<1>3. CASE SubscriptionsTerminated
  BY <1>3 DEF SubscriptionsTerminated, ReleaseClient
<1>4. CASE SessionClosed
  BY <1>4 DEF SessionClosed, ReleaseClient
<1>5. CASE Released
  BY <1>5 DEF Released, external
<1> QED
  BY <1>1, <1>2, <1>3, <1>4, <1>5 DEF Disconnecting

(* InUse holds of every undisturbed manager.                                *)
THEOREM InUseInvariant == Spec => []Kept
<1>1. Init => Kept
  BY DEF Init, Kept, InUse
<1>2. TypeOK /\ Ownership /\ Winding /\ Backing /\ Closing /\ Kept /\ [Next]_vars => Kept'
  <2> SUFFICES ASSUME TypeOK, Ownership, Winding, Backing, Closing, Kept, [Next]_vars,
                      Undisturbed'
               PROVE  InUse'
    BY DEF Kept
  <2>1. /\ Owns /\ AttemptEnds /\ ConnectedAlone /\ ClosingIsAwaited /\ InUse
        /\ ConnectingIsAwaited
    BY RacesStay DEF Ownership, Winding, Backing, Closing, Kept, Owns
  <2>2. /\ isConnected \in BOOLEAN /\ chan \in [Clients -> Channels]
        /\ session \in ClientOrNone /\ timer \in {"none", "live", "stale"}
    BY DEF TypeOK, ManagerTypeOK, ExternalTypeOK
  <2>3. ASSUME UNCHANGED <<session, attempt, dxPc, used, races>>,
               timer' \in {timer, "live"},
               \A c \in Clients : chan[c] \in {"up", "lost"} => chan'[c] \in {"up", "lost"}
        PROVE  InUse'
    BY <2>1, <2>2, <2>3 DEF InUse, attempt, ClientOrNone
  <2>4. CASE NodeConnects \/ NodeReconnects
    <3>1. Connect(FALSE, "lateCall") /\ UNCHANGED <<timer, session, dxPc>>
      BY <2>4 DEF NodeConnects, NodeReconnects, disc
    <3> QED
      BY <2>1, <3>1, ConnectKeeps DEF InUse
  <2>5. CASE RetryDelayOver
    <3>1. Connect(isConnected, "lateCall") /\ UNCHANGED <<timer, session, dxPc, used>>
      BY <2>5 DEF RetryDelayOver, disc
    <3> QED
      BY <2>1, <2>2, <3>1, ConnectKeeps DEF InUse
  <2>6. CASE TimerFires
    <3>1. Connect(isConnected \/ timer = "stale", "lateCall") /\ timer' = "none"
          /\ UNCHANGED <<session, dxPc, used>>
      BY <2>6 DEF TimerFires, disc
    <3>2. (isConnected \/ timer = "stale") = isConnected
      BY <2>1, <2>2 DEF InUse
    <3>3. isConnected \/ cxPc' # "idle"
      BY <3>1, <3>2 DEF Connect, StartAttempt, CreateClient, Await, attempt
    <3> QED
      BY <2>1, <2>2, <3>1, <3>2, <3>3, ConnectKeeps
  <2>7. CASE RetryLater \/ LoopEnds
    BY <2>3, <2>7 DEF RetryLater, LoopEnds, manager, disc, external, history
  <2>8. CASE Attempt
    BY <2>1, <2>8, AttemptKeepsStep
  <2>9. CASE Operations
    BY <2>3, <2>9 DEF Operations, StartOperation, EndOperation, OperationTimesOut,
       FindSessionInvalid, Subscribe, SubscriptionTerminated, coroutines, disc, external, history
  <2>10. CASE RepairSettles
    <3>1. UNCHANGED <<session, timer, dxPc>>
      BY <2>10 DEF RepairSettles, disc
    <3>2. CASE Connect(FALSE, "lateRepair")
      BY <2>1, <3>1, <3>2, ConnectKeeps DEF InUse
    <3>3. CASE UNCHANGED <<attempt, chan, used>> /\ races \subseteq races'
      BY <2>1, <3>1, <3>3 DEF InUse, attempt
    <3> QED
      BY <2>10, <3>2, <3>3 DEF RepairSettles, history
  <2>11. ASSUME NEW c \in Clients,
                \/ LoseChannel(c) \/ ConnectionFailed(c)
                \/ RestoreUnheard(c) \/ RestoreAndWait(c) \/ RestoreSessionless(c)
                \/ RepairEnds(c) \/ ClientClosed(c)
         PROVE  InUse'
    BY <2>2, <2>3, <2>11 DEF LoseChannel, ConnectionFailed, RestoreUnheard, RestoreAndWait,
       RestoreSessionless, RepairEnds, ClientClosed, manager, coroutines, disc, history, ArmedTimer
  <2>12. CASE Disconnect \/ Disconnecting
    BY <2>1, <2>12, DisconnectKeepsStep
  <2>13. CASE UNCHANGED vars
    BY <2>3, <2>13 DEF vars, manager, coroutines, disc, external, history
  <2> QED
    BY <2>4, <2>5, <2>6, <2>7, <2>8, <2>9, <2>10, <2>11, <2>12, <2>13
       DEF Next, Calls, Loop, NodeOpcua
<1>3. QED
  BY <1>1, <1>2, TypeCorrect, OwnershipInvariant, WindingInvariant, BackingInvariant,
     ClosingInvariant, PTL DEF Spec

(* A manager in use serves or recovers.                                     *)
THEOREM NeverIdle == Spec => []NeverGivesUp
<1>1. Backing /\ Kept => NeverGivesUp
  <2> SUFFICES ASSUME SessionBacked, InUse, "node" \in used, dxPc = "idle", races = {},
                      cxPc = "idle"
               PROVE  Serving \/ Recovering
    BY DEF Backing, Kept, NeverGivesUp, Undisturbed, Recovering
  <2>1. CASE session = None
    BY <2>1 DEF InUse, Recovering
  <2>2. CASE session # None
    BY <2>2 DEF SessionBacked, InUse, Serving, Recovering
  <2> QED
    BY <2>1, <2>2
<1> QED
  BY <1>1, BackingInvariant, InUseInvariant, PTL

-----------------------------------------------------------------------------
(* Refinement of OwnedConnection.                                           *)

(* A step that opens no channel, in the phase it is in, is a step of Work,  *)
(* of Release or none.                                                      *)
LEMMA NothingOpens ==
  ASSUME Owns, LifecycleOver, phaseNow' = phaseNow, liveNow' \subseteq liveNow
  PROVE  [Promise!Next]_<<phaseNow, liveNow>>
<1>1. liveNow = {} \/ \E c \in Clients : liveNow = {c}
  BY DEF liveNow, Owns, OwnsLive
<1>2. liveNow' \in {liveNow, {}}
  BY <1>1
<1>3. CASE phaseNow = "releasing"
  BY <1>2, <1>3 DEF Promise!Next, Promise!Release
<1>4. CASE phaseNow = "used"
  BY <1>2, <1>4 DEF Promise!Next, Promise!Work, Promise!OneOf
<1>5. CASE phaseNow = "released"
  <2>1. client = None /\ liveNow = {}
    BY <1>5, NoneAssumption DEF phaseNow, LifecycleOver, Owns, OwnsLive, liveNow
  <2> QED
    BY <1>2, <2>1
<1> QED
  BY <1>3, <1>4, <1>5 DEF phaseNow

(* connect() opens the first client of a manager in use.                    *)
LEMMA ConnectOpens ==
  ASSUME TypeOK, Owns, LifecycleOver, Undisturbed',
         NEW conn \in BOOLEAN, NEW late \in {"lateCall", "lateRepair"}, Connect(conn, late),
         UNCHANGED dxPc, used' # {}
  PROVE  [Promise!Next]_<<phaseNow, liveNow>>
<1>1. CASE liveNow' \subseteq liveNow
  <2>1. CASE dxPc = "idle" /\ used = {}
    <3>1. client = None /\ liveNow = {}
      BY <2>1, NoneAssumption DEF LifecycleOver, Owns, OwnsLive, liveNow
    <3> QED
      BY <1>1, <2>1, <3>1 DEF phaseNow, Promise!Next, Promise!Ask, Promise!OneOf
  <2>2. CASE ~(dxPc = "idle" /\ used = {})
    BY <1>1, <2>2, NothingOpens DEF phaseNow
  <2> QED
    BY <2>1, <2>2
<1>2. CASE ~(conn \/ cxPc # "idle")
  <2>1. StartAttempt /\ dxPc = "idle" /\ cxPc = "idle"
    BY <1>2 DEF Connect, Undisturbed
  <2>2. chan \in [Clients -> Channels]
    BY DEF TypeOK, ExternalTypeOK
  <2>3. ASSUME client = None, NEW c \in Clients, CreateClient(c)
        PROVE  [Promise!Next]_<<phaseNow, liveNow>>
    <3>1. liveNow = {} /\ liveNow' = {c}
      BY <2>2, <2>3, NoneAssumption DEF CreateClient, Owns, OwnsLive, liveNow, Live
    <3>2. phaseNow \in {"released", "used"} /\ phaseNow' = "used"
      BY <2>1 DEF phaseNow
    <3> QED
      BY <3>1, <3>2 DEF Promise!Next, Promise!Ask, Promise!Work, Promise!OneOf
  <2>4. ASSUME chan' = DisposedChan(client) \/ chan' = chan
        PROVE  liveNow' \subseteq liveNow
    BY <2>2, <2>4 DEF DisposedChan, Disposable, liveNow, Live
  <2> QED
    BY <1>1, <2>1, <2>3, <2>4 DEF StartAttempt
<1>3. CASE conn \/ cxPc # "idle"
  BY <1>1, <1>3 DEF Connect, liveNow, Live
<1> QED
  BY <1>2, <1>3

(* Nobody calling it while it is being released, the manager implements     *)
(* OwnedConnection: one connection at most, opened for a user, closed       *)
(* before another, none after the release.                                  *)
THEOREM ImplementsPromise == CalmSpec => KeepsPromise
<1>1. Init => Promise!Init
  BY DEF Init, Promise!Init, phaseNow, liveNow, Live
<1>2. TypeOK /\ Ownership /\ Winding /\ Undisturbed /\ [Next /\ Undisturbed']_vars
        => [Promise!Next]_<<phaseNow, liveNow>>
  <2> SUFFICES ASSUME TypeOK, Owns, ConnectingIsAwaited, AttemptEnds, LifecycleOver,
                      [Next /\ Undisturbed']_vars
               PROVE  [Promise!Next]_<<phaseNow, liveNow>>
    BY DEF Ownership, Owns, Winding
  <2>0. chan \in [Clients -> Channels]
    BY DEF TypeOK, ExternalTypeOK
  <2>1. CASE UNCHANGED vars
    BY <2>1 DEF vars, coroutines, disc, external, history, phaseNow, liveNow, Live
  <2> SUFFICES ASSUME Next, Undisturbed' PROVE [Promise!Next]_<<phaseNow, liveNow>>
    BY <2>1
  <2>2. ASSUME UNCHANGED <<used>>, (dxPc' = "idle") <=> (dxPc = "idle"),
               \A c \in Clients : Live(c)' => Live(c)
        PROVE  [Promise!Next]_<<phaseNow, liveNow>>
    BY <2>2, NothingOpens DEF phaseNow, liveNow
  <2>3. CASE NodeConnects \/ NodeReconnects
    BY <2>3, ConnectOpens DEF NodeConnects, NodeReconnects, disc
  <2>4. CASE RetryDelayOver
    BY <2>4, ConnectOpens DEF RetryDelayOver, disc, TypeOK, ManagerTypeOK, LifecycleOver
  <2>5. CASE TimerFires
    BY <2>5, ConnectOpens DEF TimerFires, disc, TypeOK, ManagerTypeOK, LifecycleOver
  <2>6. CASE RepairSettles
    <3>1. UNCHANGED dxPc
      BY <2>6 DEF RepairSettles, disc
    <3>2. CASE Connect(FALSE, "lateRepair") /\ used' = used \cup {"repair"}
      BY <3>1, <3>2, ConnectOpens
    <3>3. CASE UNCHANGED <<chan, used>>
      BY <2>2, <3>1, <3>3 DEF Live
    <3> QED
      BY <2>6, <3>2, <3>3 DEF RepairSettles, history
  <2>7. CASE RetryLater \/ LoopEnds
    BY <2>2, <2>7 DEF RetryLater, LoopEnds, disc, external, history, Live
  <2>8. CASE PreviousClientDisposed
    <3>1. dxPc = "idle" /\ used # {} /\ UNCHANGED <<used, dxPc>>
      BY <2>8 DEF PreviousClientDisposed, AttemptEnds, LifecycleOver, history, disc
    <3>2. liveNow = {}
      BY <2>8, NoneAssumption
         DEF PreviousClientDisposed, Owns, OwnsLive, AttemptOwns, liveNow, Live
    <3>3. PICK c \in Clients : CreateClient(c)
      BY <2>8 DEF PreviousClientDisposed
    <3>4. liveNow' = {c}
      BY <2>0, <3>2, <3>3 DEF CreateClient, liveNow, Live
    <3> QED
      BY <3>1, <3>2, <3>4 DEF phaseNow, Promise!Next, Promise!Work, Promise!OneOf
  <2>9. CASE Attempt /\ ~PreviousClientDisposed
    <3>1. UNCHANGED used /\ ((dxPc' = "idle") <=> (dxPc = "idle"))
      BY <2>9 DEF Attempt, Unpublished, PreviousSessionClosed,
         CleanupAborted, CertificatePrepared, CertificateFails, ChannelOpens, ChannelFails,
         SessionCreated, SessionCreatedTooLate, SessionRefused, RefusedClientDisposed,
         AbortedSessionClosed, AbortedClientDisposed, Throw, Settle, disc, history
    <3>2. \A c \in Clients : Live(c)' => Live(c)
      <4> USE <2>0 DEF Live, DisposedChan, Disposable, Channels
      <4>1. CASE PreviousSessionClosed \/ SessionRefused \/ AbortedSessionClosed
        BY <4>1 DEF PreviousSessionClosed, SessionRefused, AbortedSessionClosed
      <4>2. CASE CleanupAborted \/ SessionCreated \/ SessionCreatedTooLate
                 \/ RefusedClientDisposed \/ AbortedClientDisposed
        BY <4>2 DEF CleanupAborted, SessionCreated, SessionCreatedTooLate,
           RefusedClientDisposed, AbortedClientDisposed, external
      <4>3. CASE CertificatePrepared \/ CertificateFails
        BY <4>3 DEF CertificatePrepared, CertificateFails, Throw
      <4>4. CASE ChannelOpens
        BY <4>4 DEF ChannelOpens, Throw
      <4>5. CASE ChannelFails
        BY <4>5 DEF ChannelFails, Throw
      <4> QED
        BY <2>9, <4>1, <4>2, <4>3, <4>4, <4>5 DEF Attempt
    <3> QED
      BY <2>2, <3>1, <3>2
  <2>10. CASE Operations
    BY <2>2, <2>10 DEF Operations, StartOperation, EndOperation, OperationTimesOut,
       FindSessionInvalid, Subscribe, SubscriptionTerminated, coroutines, disc, external,
       history, Live
  <2>11. ASSUME NEW c \in Clients,
                \/ LoseChannel(c) \/ ConnectionFailed(c)
                \/ RestoreUnheard(c) \/ RestoreAndWait(c) \/ RestoreSessionless(c)
                \/ RepairEnds(c) \/ ClientClosed(c)
         PROVE  [Promise!Next]_<<phaseNow, liveNow>>
    <3>1. /\ UNCHANGED <<used, dxPc>>
          /\ \A d \in Clients : Live(d)' => Live(d)
      BY <2>0, <2>11 DEF LoseChannel, ConnectionFailed, RestoreUnheard, RestoreAndWait,
         RestoreSessionless, RepairEnds, ClientClosed, coroutines, disc, history, Live, Channels
    <3> QED
      BY <2>2, <3>1
  <2>12. CASE Disconnect \/ Disconnecting
    <3>1. \A c \in Clients : Live(c)' => Live(c)
      BY <2>0, <2>12 DEF Disconnect, Disconnecting, InFlightDisposed, AttemptSettled,
         OfflineDisposed, SubscriptionsTerminated, SessionClosed, Released, ReleaseOffline,
         ReleaseClient, Dispose, DisposedChan, Disposable, external, Live
    <3>2. liveNow' \in {liveNow, {}}
      BY <3>1 DEF liveNow, Owns, OwnsLive
    <3>3. CASE Disconnect
      <4>1. phaseNow' = "releasing"
        BY <3>3 DEF Disconnect, ReleaseOffline, Dispose, phaseNow
      <4> QED
        BY <3>2, <4>1 DEF phaseNow, Promise!Next, Promise!Release
    <3>4. CASE Disconnecting /\ dxPc' # "idle"
      <4>1. phaseNow = "releasing" /\ phaseNow' = "releasing"
        BY <3>4 DEF Disconnecting, InFlightDisposed, AttemptSettled, OfflineDisposed,
           SubscriptionsTerminated, SessionClosed, Released, phaseNow
      <4> QED
        BY <3>2, <4>1 DEF Promise!Next, Promise!Release
    <3>5. CASE Disconnecting /\ dxPc' = "idle"
      <4>1. phaseNow = "releasing" /\ phaseNow' \in {"released", "used"}
        BY <3>5 DEF Disconnecting, InFlightDisposed, AttemptSettled, OfflineDisposed,
           SubscriptionsTerminated, SessionClosed, Released, phaseNow
      <4>2. (client = None \/ ~Live(client)) /\ UNCHANGED chan
        BY <3>5 DEF Disconnecting, InFlightDisposed, AttemptSettled, OfflineDisposed,
           SubscriptionsTerminated, SessionClosed, Released, ReleaseOffline, ReleaseClient,
           Dispose, external, Owns, DisconnectOwns
      <4>3. liveNow' = {}
        BY <4>2, NoneAssumption DEF Owns, OwnsLive, liveNow, Live
      <4> QED
        BY <4>1, <4>3 DEF Promise!Next, Promise!Released
    <3> QED
      BY <2>12, <3>3, <3>4, <3>5
  <2> QED
    BY <2>3, <2>4, <2>5, <2>6, <2>7, <2>8, <2>9, <2>10, <2>11, <2>12
       DEF Next, Calls, Loop, NodeOpcua
<1>3. CalmSpec => Spec
  <2>1. [Next /\ Undisturbed']_vars => [Next]_vars
    OBVIOUS
  <2> QED
    BY <2>1, PTL DEF CalmSpec, Spec
<1>4. CalmSpec => []Undisturbed
  <2>1. Init => Undisturbed
    BY DEF Init, Undisturbed
  <2>2. Undisturbed /\ [Next /\ Undisturbed']_vars => Undisturbed'
    BY DEF Undisturbed, vars, history
  <2> QED
    BY <2>1, <2>2, PTL DEF CalmSpec
<1> QED
  BY <1>1, <1>2, <1>3, <1>4, TypeCorrect, OwnershipInvariant, WindingInvariant, PTL
     DEF CalmSpec, KeepsPromise, Promise!Spec
=============================================================================

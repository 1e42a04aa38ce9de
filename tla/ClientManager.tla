--------------------------- MODULE ClientManager ---------------------------
(***************************************************************************)
(* OpcUaClientManager (lib/opcua-client-manager.js): the life cycle of the *)
(* one OPC UA connection that the nodes of an endpoint share.              *)
(*                                                                         *)
(* The manager is single threaded: an action is what runs between two      *)
(* awaits.  Four of its coroutines interleave at those awaits:             *)
(*   cx...  the connect attempt, _doConnect() (one: _connectPromise)       *)
(*   rx...  the retry loop of reconnect() (one: _reconnectPromise)         *)
(*   rw...  the waiter of _onAfterReconnection (one: _repairWait)          *)
(*   dx...  disconnect()                                                   *)
(* beside the timer of scheduleReconnect() and the operations in flight.   *)
(* node-opcua (an OPCUAClient creates at most one session here) is an      *)
(* environment: chan, sess and the listener set heard.  A session has the  *)
(* name of the client that created it.                                     *)
(*                                                                         *)
(* A definition after "Mutant:" is a slip one could make in the definition *)
(* that follows it; PROJECT.json says which property notices.  Spec uses   *)
(* none of them.                                                           *)
(***************************************************************************)
EXTENDS FiniteSets, Naturals

CONSTANTS Clients,  \* OPCUAClient objects; a closed, unreferenced one is reused
          None      \* JavaScript's null

ASSUME NoneAssumption == None \notin Clients

VARIABLES client, session, isConnected, everConnected,
          timer,    \* reconnectTimer: "none", or armed by a live or an ended lifecycle
          subs,     \* sessions with a handle in the map subscriptions
          ops,      \* sessions with an operation in flight under _withTimeout
          cxPc, cxAborted,        \* where it awaits; has its lifecycle ended?
          cxClient, cxPrev,       \* its locals client and previous
          cxWait, cxHeld,         \* the disposal or close it awaits (see below)
          rxPc, rxAborted,
          rwClient, rwSession,    \* what the waiter waits for; None: no waiter
          dxPc, dxWait, dxHeld,
          chan,     \* secure channel of each client
          sess,     \* session of each client
          heard,    \* clients that still have the manager's listeners
          used,     \* history: who asked for a connection in this lifecycle
          races     \* history: overlaps the code does not exclude (see below)

manager == <<client, session, isConnected, everConnected, timer, subs, ops>>
attempt == <<cxPc, cxAborted, cxClient, cxPrev, cxWait, cxHeld>>
loop == <<rxPc, rxAborted>>
waiter == <<rwClient, rwSession>>
disc == <<dxPc, dxWait, dxHeld>>
coroutines == <<attempt, loop, waiter, disc>>
external == <<chan, sess, heard>>
history == <<used, races>>
vars == <<manager, coroutines, external, history>>

-----------------------------------------------------------------------------
(* A wait is for the client being disposed of, or the session being closed; *)
(* held says that the close was called while node-opcua was repairing the   *)
(* session, and is queued until that is done.                               *)

Init ==
  /\ client = None /\ session = None
  /\ isConnected = FALSE /\ everConnected = FALSE
  /\ timer = "none"
  /\ subs = {} /\ ops = {}
  /\ cxPc = "idle" /\ cxAborted = FALSE
  /\ cxClient = None /\ cxPrev = None /\ cxWait = None /\ cxHeld = FALSE
  /\ rxPc = "idle" /\ rxAborted = FALSE
  /\ rwClient = None /\ rwSession = None
  /\ dxPc = "idle" /\ dxWait = None /\ dxHeld = FALSE
  /\ chan = [c \in Clients |-> "closed"]
  /\ sess = [c \in Clients |-> "closed"]
  /\ heard = {}
  /\ used = {} /\ races = {}

-----------------------------------------------------------------------------
(* client[DISPOSED] is set exactly when disconnect() has been called on it. *)
Disposable(c) == c # None /\ chan[c] \notin {"closing", "closed"}

(* What _disposeClient(c) does at once, and what its caller then awaits.    *)
DisposedChan(c) == IF Disposable(c) THEN [chan EXCEPT ![c] = "closing"] ELSE chan
Awaited(c) == IF Disposable(c) THEN c ELSE None
WaitedForNothing(c) == TRUE                         \* Mutant: a missing await
Waited(c) == c # None => chan[c] = "closed"

(* The await of session.close() ends: with the session closed, or with an   *)
(* error that every caller swallows.  A close queued behind a repair ends   *)
(* with the repair.                                                         *)
CloseSettles(s, held) ==
  /\ held => sess[s] # "repairing"
  /\ \/ sess' = sess
     \/ sess' = [sess EXCEPT ![s] = "closed"]

Free(c) ==
  /\ chan[c] = "closed" /\ sess[c] = "closed"
  /\ c \notin {client, session, cxClient, cxPrev, cxWait, dxWait, rwClient, rwSession}
  /\ c \notin heard \cup subs \cup ops

(* Where the attempt goes on; a new one is not aborted.                     *)
Await(pc, mine, prev, wait, held) ==
  /\ cxPc' = pc
  /\ cxClient' = mine /\ cxPrev' = prev
  /\ cxWait' = wait /\ cxHeld' = held

(* Mutant: the new client gets no listeners.                                *)
CreateUnheardClient(c) ==
  /\ Free(c)
  /\ client' = c
  /\ chan' = [chan EXCEPT ![c] = "idle"]
  /\ Await("cert", c, None, None, FALSE)
  /\ UNCHANGED heard

(* OPCUAClient.create and the registration of its listeners.                *)
CreateClient(c) ==
  /\ Free(c)
  /\ client' = c
  /\ chan' = [chan EXCEPT ![c] = "idle"]
  /\ heard' = heard \cup {c}
  /\ Await("cert", c, None, None, FALSE)

(* connect(), with conn the value of isConnected when it is called: at once *)
(* done when connected, joined to the attempt in flight, or the synchronous *)
(* part of _doConnect().                                                    *)
StartAttempt ==
  \/ /\ client = None
     /\ \E c \in Clients : CreateClient(c)
  \/ /\ client # None /\ session # None
     /\ heard' = heard \ {client}
     /\ Await("closeSess", None, client, session, sess[session] = "repairing")
     /\ UNCHANGED <<client, chan>>
  \/ /\ client # None /\ session = None
     /\ heard' = heard \ {client}
     /\ chan' = DisposedChan(client)
     /\ Await("cleanup", None, client, Awaited(client), FALSE)
     /\ UNCHANGED client

Connect(conn, late) ==
  IF conn \/ cxPc # "idle"
  THEN /\ races' = races \cup IF ~conn /\ cxAborted THEN {"joinedAborted"} ELSE {}
       /\ UNCHANGED <<client, attempt, chan, heard>>
  ELSE /\ StartAttempt
       /\ UNCHANGED cxAborted
       /\ races' = races \cup IF dxPc = "idle" THEN {} ELSE {late}

(* scheduleReconnect(): armed once.                                         *)
TimerNotArmed == timer                              \* Mutant: the retry is forgotten
ArmedTimer == IF timer = "none" THEN "live" ELSE timer

(* Mutant: disconnect() is not resumed.                                     *)
SettleForLoopOnly(ok) ==
  /\ Await("idle", None, None, None, FALSE)
  /\ cxAborted' = FALSE
  /\ rxPc' = IF rxPc = "connecting" THEN IF ok THEN "idle" ELSE "failed" ELSE rxPc
  /\ rxAborted' = (rxAborted /\ ~(ok /\ rxPc = "connecting"))
  /\ UNCHANGED disc

(* The attempt's promise settles: _connectPromise is cleared and whoever    *)
(* awaits it resumes.                                                       *)
Settle(ok) ==
  /\ Await("idle", None, None, None, FALSE)
  /\ cxAborted' = FALSE
  /\ rxPc' = IF rxPc = "connecting" THEN IF ok THEN "idle" ELSE "failed" ELSE rxPc
  /\ rxAborted' = (rxAborted /\ ~(ok /\ rxPc = "connecting"))
  /\ dxPc' = IF dxPc = "awaitConn" THEN "settled" ELSE dxPc
  /\ UNCHANGED <<dxWait, dxHeld>>

-----------------------------------------------------------------------------
(* The connect attempt.                                                     *)

PreviousSessionClosed ==
  /\ cxPc = "closeSess"
  /\ CloseSettles(cxWait, cxHeld)
  /\ chan' = DisposedChan(cxPrev)
  /\ heard' = heard \ {cxPrev}
  /\ Await("cleanup", None, cxPrev, Awaited(cxPrev), FALSE)
  /\ UNCHANGED <<manager, cxAborted, loop, waiter, disc, history>>

(* What the cleanup leaves of session.                                      *)
SessionKept == session                              \* Mutant: it is not cleared
SessionCleaned == IF client = cxPrev THEN None ELSE session

(* The previous client is gone; the attempt goes on with a new one ...      *)
PreviousClientDisposed ==
  /\ cxPc = "cleanup" /\ Waited(cxWait) /\ ~cxAborted
  /\ \E c \in Clients : CreateClient(c)
  /\ session' = SessionCleaned
  /\ UNCHANGED <<isConnected, everConnected, timer, subs, ops, cxAborted, loop, waiter, disc,
                 sess, history>>

(* ... unless disconnect() has ended its lifecycle meanwhile.               *)
CleanupAborted ==
  /\ cxPc = "cleanup" /\ Waited(cxWait) /\ cxAborted
  /\ client' = IF client = cxPrev THEN None ELSE client
  /\ session' = SessionCleaned
  /\ Settle(FALSE)
  /\ UNCHANGED <<isConnected, everConnected, timer, subs, ops, waiter, external, history>>

(* Mutant: an aborted attempt is retried like any other.                    *)
ThrowAndRetry(ch) ==
  /\ chan' = ch
  /\ timer' = ArmedTimer
  /\ Settle(FALSE)
  /\ UNCHANGED heard

(* The catch block of _doConnect, ch being the channels when it is entered. *)
Throw(ch) ==
  IF cxAborted
  THEN /\ chan' = IF ch[cxClient] \in {"closing", "closed"} THEN ch
                  ELSE [ch EXCEPT ![cxClient] = "closing"]
       /\ heard' = heard \ {cxClient}
       /\ Await("abortDispose", cxClient, None, Awaited(cxClient), FALSE)
       /\ UNCHANGED <<timer, cxAborted, loop, disc>>
  ELSE /\ chan' = ch
       /\ timer' = ArmedTimer
       /\ Settle(FALSE)
       /\ UNCHANGED heard

Unpublished == <<client, session, isConnected, everConnected, subs, ops, waiter, history>>

CertificatePrepared ==
  /\ cxPc = "cert"
  /\ IF cxAborted THEN Throw(chan)
     ELSE /\ chan' = IF chan[cxClient] = "idle"
                     THEN [chan EXCEPT ![cxClient] = "connecting"] ELSE chan
          /\ Await("chan", cxClient, None, None, FALSE)
          /\ UNCHANGED <<timer, cxAborted, loop, disc, heard>>
  /\ UNCHANGED <<Unpublished, sess>>

CertificateFails ==
  /\ cxPc = "cert"
  /\ Throw(chan)
  /\ UNCHANGED <<Unpublished, sess>>

ChannelOpens ==
  /\ cxPc = "chan" /\ chan[cxClient] = "connecting"
  /\ LET up == [chan EXCEPT ![cxClient] = "up"] IN
     IF cxAborted THEN Throw(up)
     ELSE /\ chan' = up
          /\ Await("create", cxClient, None, None, FALSE)
          /\ UNCHANGED <<timer, cxAborted, loop, disc, heard>>
  /\ UNCHANGED <<Unpublished, sess>>

(* client.connect() rejects: out of retries, or the client was disconnected.*)
ChannelFails ==
  /\ cxPc = "chan"
  /\ Throw(IF chan[cxClient] = "connecting"
           THEN [chan EXCEPT ![cxClient] = "idle"] ELSE chan)
  /\ UNCHANGED <<Unpublished, sess>>

(* _handleSessionReplaced(): the handles of earlier sessions are dropped.   *)
HandlesLeft == subs                                 \* Mutant: they are not
HandlesKept == IF everConnected THEN {} ELSE subs

SessionCreated ==
  /\ cxPc = "create" /\ ~cxAborted
  /\ chan[cxClient] \in {"up", "closing"}
  /\ sess' = [sess EXCEPT ![cxClient] = "open"]
  /\ session' = cxClient
  /\ isConnected' = TRUE
  /\ everConnected' = TRUE
  /\ subs' = HandlesKept
  /\ races' = races \ {"phantom", "joinedAborted"}
  /\ Settle(TRUE)
  /\ UNCHANGED <<client, timer, ops, waiter, chan, heard, used>>

(* The session of an aborted attempt is closed again, not published.        *)
SessionCreatedTooLate ==
  /\ cxPc = "create" /\ cxAborted
  /\ chan[cxClient] \in {"up", "closing"}
  /\ sess' = [sess EXCEPT ![cxClient] = "open"]
  /\ Await("abortClose", cxClient, None, cxClient, FALSE)
  /\ UNCHANGED <<manager, cxAborted, loop, waiter, disc, chan, heard, history>>

SessionRefused ==
  /\ cxPc = "create"
  /\ chan' = DisposedChan(cxClient)
  /\ heard' = heard \ {cxClient}
  /\ Await("refused", cxClient, None, Awaited(cxClient), FALSE)
  /\ UNCHANGED <<manager, cxAborted, loop, waiter, disc, sess, history>>

RefusedClientDisposed ==
  /\ cxPc = "refused" /\ Waited(cxWait)
  /\ client' = IF client = cxClient THEN None ELSE client
  /\ timer' = IF cxAborted THEN timer ELSE ArmedTimer
  /\ Settle(FALSE)
  /\ UNCHANGED <<session, isConnected, everConnected, subs, ops, waiter, external, history>>

AbortedSessionClosed ==
  /\ cxPc = "abortClose"
  /\ CloseSettles(cxWait, cxHeld)
  /\ chan' = DisposedChan(cxClient)
  /\ heard' = heard \ {cxClient}
  /\ Await("abortDispose", cxClient, None, Awaited(cxClient), FALSE)
  /\ UNCHANGED <<manager, cxAborted, loop, waiter, disc, history>>

AbortedClientDisposed ==
  /\ cxPc = "abortDispose" /\ Waited(cxWait)
  /\ client' = IF client = cxClient THEN None ELSE client
  /\ session' = IF client = cxClient THEN None ELSE session
  /\ Settle(FALSE)
  /\ UNCHANGED <<isConnected, everConnected, timer, subs, ops, waiter, external, history>>

Attempt ==
  \/ PreviousSessionClosed \/ PreviousClientDisposed \/ CleanupAborted
  \/ CertificatePrepared \/ CertificateFails
  \/ ChannelOpens \/ ChannelFails
  \/ SessionCreated \/ SessionCreatedTooLate \/ SessionRefused
  \/ RefusedClientDisposed \/ AbortedSessionClosed \/ AbortedClientDisposed

-----------------------------------------------------------------------------
(* Calls of the nodes, the background timer and the retry loop.             *)

(* A call of connect() that finds the manager connected is no step.         *)
NodeConnects ==
  /\ ~isConnected
  /\ Connect(FALSE, "lateCall")
  /\ used' = used \cup {"node"}
  /\ UNCHANGED <<session, isConnected, everConnected, timer, subs, ops, loop, waiter, disc, sess>>

(* reconnect(), when no retry loop runs to be shared.  A call within the    *)
(* cool-down of a recovery does nothing, and is no step.                    *)
NodeReconnects ==
  /\ rxPc = "idle"
  /\ isConnected' = FALSE
  /\ rxPc' = "connecting"
  /\ Connect(FALSE, "lateCall")
  /\ used' = used \cup {"node"}
  /\ UNCHANGED <<session, everConnected, timer, subs, ops, rxAborted, waiter, disc, sess>>

RetryLater ==
  /\ rxPc = "failed" /\ ~rxAborted
  /\ rxPc' = "delay"
  /\ UNCHANGED <<manager, attempt, rxAborted, waiter, disc, external, history>>

(* "reconnect aborted", or the last of maxAttempts.                         *)
LoopEnds ==
  /\ rxPc = "failed"
  /\ rxPc' = "idle" /\ rxAborted' = FALSE
  /\ UNCHANGED <<manager, attempt, waiter, disc, external, history>>

RetryDelayOver ==
  /\ rxPc = "delay"
  /\ rxPc' = IF isConnected THEN "idle" ELSE "connecting"
  /\ Connect(isConnected, "lateCall")
  /\ UNCHANGED <<session, isConnected, everConnected, timer, subs, ops, rxAborted,
                 waiter, disc, sess, used>>

TimerFires ==
  /\ timer # "none"
  /\ timer' = "none"
  /\ Connect(isConnected \/ timer = "stale", "lateCall")
  /\ UNCHANGED <<session, isConnected, everConnected, subs, ops, loop, waiter, disc, sess, used>>

-----------------------------------------------------------------------------
(* Operations on the session: _ensureConnected, _withTimeout and the map of *)
(* subscriptions.                                                           *)

Usable == isConnected /\ session # None /\ sess[session] = "open"

StartOperation ==
  /\ Usable
  /\ ops' = ops \cup {session}
  /\ UNCHANGED <<client, session, isConnected, everConnected, timer, subs,
                 coroutines, external, history>>

EndOperation(s) ==
  /\ s \in ops
  /\ ops' = ops \ {s}
  /\ UNCHANGED <<client, session, isConnected, everConnected, timer, subs,
                 coroutines, external, history>>

OperationTimesOut(s) ==
  /\ s \in ops
  /\ ops' = ops \ {s}
  /\ isConnected' = FALSE
  /\ UNCHANGED <<client, session, everConnected, timer, subs,
                 coroutines, external, history>>

FindSessionInvalid ==
  /\ isConnected /\ session # None /\ sess[session] # "open"
  /\ isConnected' = FALSE
  /\ UNCHANGED <<client, session, everConnected, timer, subs, ops,
                 coroutines, external, history>>

Subscribe ==
  /\ Usable
  /\ subs' = subs \cup {session}
  /\ UNCHANGED <<client, session, isConnected, everConnected, timer, ops,
                 coroutines, external, history>>

SubscriptionTerminated(s) ==
  /\ s \in subs
  /\ subs' = subs \ {s}
  /\ UNCHANGED <<client, session, isConnected, everConnected, timer, ops,
                 coroutines, external, history>>

-----------------------------------------------------------------------------
(* node-opcua: loss and restoration of a channel, repair of its session.    *)

LoseChannel(c) ==
  /\ chan[c] = "up"
  /\ chan' = [chan EXCEPT ![c] = "lost"]
  /\ sess' = [sess EXCEPT ![c] = IF @ = "open" THEN "repairing" ELSE @]
  /\ isConnected' = (isConnected /\ c \notin heard)
  /\ UNCHANGED <<client, session, everConnected, timer, subs, ops,
                 coroutines, heard, history>>

(* "connection_failed": node-opcua has used up the retries of a connect().  *)
ConnectionFailed(c) ==
  /\ chan[c] = "connecting" /\ c \in heard
  /\ chan' = [chan EXCEPT ![c] = "idle"]
  /\ isConnected' = FALSE
  /\ timer' = ArmedTimer
  /\ UNCHANGED <<client, session, everConnected, subs, ops, coroutines, sess, heard, history>>

(* The channel is back, its session still to be repaired.  With no session  *)
(* to wait for, _onAfterReconnection goes straight to the fallback.         *)
RestoreUnheard(c) ==
  /\ chan[c] = "lost" /\ (c \notin heard \/ rwClient # None)
  /\ chan' = [chan EXCEPT ![c] = "up"]
  /\ UNCHANGED <<manager, coroutines, sess, heard, history>>

RestoreAndWait(c) ==
  /\ chan[c] = "lost" /\ c \in heard /\ rwClient = None /\ session # None
  /\ chan' = [chan EXCEPT ![c] = "up"]
  /\ rwClient' = c /\ rwSession' = session
  /\ UNCHANGED <<manager, attempt, loop, disc, sess, heard, history>>

RestoreSessionless(c) ==
  /\ chan[c] = "lost" /\ c \in heard /\ rwClient = None /\ session = None
  /\ cxPc # "idle" \/ client # c      \* joins the attempt in flight, or is stale
  /\ chan' = [chan EXCEPT ![c] = "up"]
  /\ isConnected' = (isConnected /\ client # c)
  /\ UNCHANGED <<client, session, everConnected, timer, subs, ops, coroutines,
                 sess, heard, history>>

RepairEnds(c) ==
  /\ chan[c] = "up" /\ sess[c] = "repairing"
  /\ \E outcome \in {"open", "closed"} : sess' = [sess EXCEPT ![c] = outcome]
  /\ UNCHANGED <<manager, coroutines, chan, heard, history>>

(* The poll of _waitForSessionRepair sees the repair over, or the manager   *)
(* on another client or session.                                            *)
Stale == client # rwClient \/ session # rwSession

RepairSettles ==
  /\ rwClient # None
  /\ Stale \/ sess[rwSession] # "repairing"
  /\ rwClient' = None /\ rwSession' = None
  /\ \/ /\ Stale
        /\ UNCHANGED <<client, isConnected, attempt, chan, heard, history>>
     \/ /\ ~Stale /\ sess[rwSession] = "closed"
        /\ isConnected' = FALSE
        /\ Connect(FALSE, "lateRepair")
        /\ used' = used \cup {"repair"}
     \/ /\ ~Stale /\ sess[rwSession] = "open"
        /\ isConnected' = TRUE
        /\ races' = races \cup IF cxPc = "idle" THEN {} ELSE {"phantom"}
        /\ UNCHANGED <<client, attempt, chan, heard, used>>
  /\ UNCHANGED <<session, everConnected, timer, subs, ops, loop, disc, sess>>

(* client.disconnect() completes; the server ends the session with it, and  *)
(* the requests in flight are cancelled.                                    *)
ClientClosed(c) ==
  /\ chan[c] = "closing"
  /\ chan' = [chan EXCEPT ![c] = "closed"]
  /\ sess' = [sess EXCEPT ![c] = "closed"]
  /\ ops' = ops \ {c}
  /\ UNCHANGED <<client, session, isConnected, everConnected, timer, subs,
                 coroutines, heard, history>>

-----------------------------------------------------------------------------
(* disconnect().                                                            *)

(* Mutant: the client is let go, not disconnected.                          *)
Forget(c, next) ==
  /\ heard' = heard \ {c}
  /\ dxPc' = next /\ dxWait' = None /\ dxHeld' = FALSE
  /\ UNCHANGED chan

Dispose(c, next) ==
  /\ chan' = DisposedChan(c)
  /\ heard' = heard \ {c}
  /\ dxPc' = next /\ dxWait' = Awaited(c) /\ dxHeld' = FALSE

(* From the offline test to the next await.                                 *)
Offline == ~isConnected \/ (session # None /\ sess[session] = "repairing")
ReleaseOffline ==
  IF Offline /\ Disposable(client)
  THEN Dispose(client, "offline")
  ELSE /\ dxPc' = "terminate" /\ dxWait' = None /\ dxHeld' = FALSE
       /\ UNCHANGED <<chan, heard>>

(* Aborting the lifecycle also ends the back-off delay of the retry loop.   *)
Disconnect ==
  /\ dxPc = "idle"
  /\ timer' = "none"
  /\ cxAborted' = (cxPc # "idle")
  /\ rxPc' = IF rxPc = "delay" THEN "idle" ELSE rxPc
  /\ rxAborted' = (rxPc \notin {"idle", "delay"})
  /\ used' = {}
  /\ IF cxPc = "idle" THEN ReleaseOffline ELSE Dispose(client, "dispose")
  /\ UNCHANGED <<client, session, isConnected, everConnected, subs, ops, waiter, sess, races,
                 cxPc, cxClient, cxPrev, cxWait, cxHeld>>

InFlightDisposed ==
  /\ dxPc = "dispose" /\ Waited(dxWait)
  /\ IF cxPc = "idle" THEN ReleaseOffline
     ELSE /\ dxPc' = "awaitConn" /\ dxWait' = None /\ UNCHANGED dxHeld
          /\ UNCHANGED <<chan, heard>>
  /\ UNCHANGED <<manager, attempt, loop, waiter, sess, history>>

AttemptSettled ==
  /\ dxPc = "settled"
  /\ ReleaseOffline
  /\ UNCHANGED <<manager, attempt, loop, waiter, sess, history>>

OfflineDisposed ==
  /\ dxPc = "offline" /\ Waited(dxWait)
  /\ dxPc' = "terminate" /\ dxWait' = None /\ dxHeld' = FALSE
  /\ UNCHANGED <<manager, attempt, loop, waiter, external, history>>

(* The end of disconnect(), once there is no session left.                  *)
ReleaseClient ==
  IF client # None
  THEN Dispose(client, "release") /\ UNCHANGED isConnected
  ELSE /\ isConnected' = FALSE
       /\ dxPc' = "idle" /\ dxWait' = None /\ dxHeld' = FALSE
       /\ UNCHANGED <<chan, heard>>

(* terminateWithin is bounded by its own timer, so it always ends.          *)
SubscriptionsTerminated ==
  /\ dxPc = "terminate"
  /\ subs' = {}
  /\ IF session # None
     THEN /\ dxPc' = "closeSess" /\ dxWait' = session
          /\ dxHeld' = (sess[session] = "repairing")
          /\ UNCHANGED <<isConnected, chan, heard>>
     ELSE ReleaseClient
  /\ UNCHANGED <<client, session, everConnected, timer, ops, attempt, loop, waiter, sess, history>>

SessionClosed ==
  /\ dxPc = "closeSess"
  /\ CloseSettles(dxWait, dxHeld)
  /\ session' = None
  /\ ReleaseClient
  /\ UNCHANGED <<client, everConnected, timer, subs, ops, attempt, loop, waiter, history>>

Released ==
  /\ dxPc = "release" /\ Waited(dxWait)
  /\ client' = None
  /\ isConnected' = FALSE
  /\ dxPc' = "idle" /\ dxWait' = None /\ dxHeld' = FALSE
  /\ UNCHANGED <<session, everConnected, timer, subs, ops, attempt, loop, waiter,
                 external, history>>

Disconnecting ==
  \/ InFlightDisposed \/ AttemptSettled \/ OfflineDisposed
  \/ SubscriptionsTerminated \/ SessionClosed \/ Released

-----------------------------------------------------------------------------
Calls == NodeConnects \/ NodeReconnects \/ Disconnect
Loop == RetryLater \/ LoopEnds \/ RetryDelayOver \/ TimerFires
Operations ==
  \/ StartOperation \/ FindSessionInvalid \/ Subscribe
  \/ \E s \in Clients :
       EndOperation(s) \/ OperationTimesOut(s) \/ SubscriptionTerminated(s)
NodeOpcua ==
  \/ RepairSettles
  \/ \E c \in Clients :
       \/ LoseChannel(c) \/ ConnectionFailed(c)
       \/ RestoreUnheard(c) \/ RestoreAndWait(c) \/ RestoreSessionless(c)
       \/ RepairEnds(c) \/ ClientClosed(c)

Next == Calls \/ Attempt \/ Loop \/ Operations \/ NodeOpcua \/ Disconnecting

Spec == Init /\ [][Next]_vars

(* What the event loop and node-opcua's own timeouts guarantee, server or   *)
(* not: every coroutine that can go on does, and a closing client closes.   *)
ManagerFairness ==
  /\ WF_vars(Attempt) /\ WF_vars(Disconnecting) /\ WF_vars(RepairSettles)
  /\ WF_vars(TimerFires) /\ WF_vars(RetryDelayOver) /\ WF_vars(RetryLater \/ LoopEnds)
  /\ \A c \in Clients : WF_vars(ClientClosed(c))

(* What a server adds that comes back and accepts the client in the end.    *)
Restore(c) == RestoreUnheard(c) \/ RestoreAndWait(c) \/ RestoreSessionless(c)
ServerFairness ==
  /\ SF_vars(CertificatePrepared) /\ SF_vars(ChannelOpens) /\ SF_vars(SessionCreated)
  /\ SF_vars(PreviousSessionClosed) /\ SF_vars(SessionClosed)
  /\ \A c \in Clients : WF_vars(Restore(c)) /\ SF_vars(RepairEnds(c))

-----------------------------------------------------------------------------
(* Properties.                                                              *)

ClientOrNone == Clients \cup {None}
Channels == {"closed", "idle", "connecting", "up", "lost", "closing"}

ManagerTypeOK ==
  /\ client \in ClientOrNone /\ session \in ClientOrNone
  /\ isConnected \in BOOLEAN /\ everConnected \in BOOLEAN
  /\ timer \in {"none", "live", "stale"}
  /\ subs \subseteq Clients /\ ops \subseteq Clients
AttemptTypeOK ==
  /\ cxPc \in {"idle", "closeSess", "cleanup", "cert", "chan", "create", "refused",
              "abortClose", "abortDispose"}
  /\ cxAborted \in BOOLEAN /\ cxHeld \in BOOLEAN
  /\ cxClient \in ClientOrNone /\ cxPrev \in ClientOrNone /\ cxWait \in ClientOrNone
LoopTypeOK ==
  rxPc \in {"idle", "connecting", "failed", "delay"} /\ rxAborted \in BOOLEAN
WaiterTypeOK == rwClient \in ClientOrNone /\ rwSession \in ClientOrNone
DiscTypeOK ==
  /\ dxPc \in {"idle", "dispose", "awaitConn", "settled", "offline", "terminate",
              "closeSess", "release"}
  /\ dxWait \in ClientOrNone /\ dxHeld \in BOOLEAN
ExternalTypeOK ==
  /\ chan \in [Clients -> Channels]
  /\ sess \in [Clients -> {"closed", "open", "repairing"}]
  /\ heard \subseteq Clients
HistoryTypeOK ==
  /\ used \subseteq {"node", "repair"}
  /\ races \subseteq {"lateCall", "lateRepair", "joinedAborted", "phantom"}

(* Every variable has its type: the one type invariant of the module.       *)
TypeOK ==
  /\ ManagerTypeOK /\ AttemptTypeOK /\ LoopTypeOK /\ WaiterTypeOK /\ DiscTypeOK
  /\ ExternalTypeOK /\ HistoryTypeOK

Live(c) == chan[c] \notin {"closing", "closed"}

(* Issue #17: no client is orphaned.  A client whose channel nobody is      *)
(* closing is the manager's own, so the next attempt or disconnect() finds  *)
(* it - unless an attempt started while disconnect() was under way.         *)
Undisturbed == races \cap {"lateCall", "lateRepair"} = {}
OwnsLive == \A c \in Clients : Live(c) => c = client
NoOrphanClient == Undisturbed => OwnsLive

(* Nor is a session: one that is open on a channel nobody is closing is     *)
(* published, or is the attempt's own and about to be closed by it.         *)
OwnsSessions ==
  \A c \in Clients : sess[c] # "closed" /\ Live(c) =>
                       c = session \/ (cxPc = "abortClose" /\ c = cxClient)
NoOrphanSession == Undisturbed => OwnsSessions

(* Why they hold: what client and session are at each await of the attempt  *)
(* and of disconnect(), which does not release them while an attempt runs.  *)
AttemptOwns ==
  /\ cxPc = "closeSess" => cxPrev = client
  /\ cxPc = "cleanup" => ~Live(cxPrev) /\ client \in {cxPrev, None}
  /\ cxPc \in {"cert", "chan", "create", "abortClose"} => client = cxClient
  /\ cxPc \in {"refused", "abortDispose"} => ~Live(cxClient)
  /\ cxPc = "closeSess" => cxPrev # None
  /\ cxPc = "cleanup" => cxPrev # None
  /\ cxPc \notin {"idle", "closeSess", "cleanup"} => cxClient # None /\ session = None
DisconnectOwns ==
  /\ dxPc \in {"settled", "offline", "terminate", "closeSess", "release"} => cxPc = "idle"
  /\ dxPc = "release" => session = None /\ (client # None => ~Live(client))
  /\ client = None => session = None
Ownership == Undisturbed => OwnsLive /\ OwnsSessions /\ AttemptOwns /\ DisconnectOwns

(* Once disconnect() has run and neither a node nor the repair waiter has   *)
(* asked for a connection since, nothing of the ended lifecycle is left or  *)
(* can come back: no client, session, timer, attempt or retry loop.         *)
Quiet ==
  /\ client = None /\ session = None /\ ~isConnected
  /\ timer = "none" /\ cxPc = "idle"
  /\ rxPc = "idle" \/ rxAborted
  /\ \A c \in Clients : ~Live(c)
ReleasedStaysReleased ==
  dxPc = "idle" /\ used = {} /\ Undisturbed => Quiet

(* Why it is so: what is left of a lifecycle that disconnect() has ended.   *)
ConnectingIsAwaited ==
  \A c \in Clients : chan[c] = "connecting" => cxPc = "chan" /\ c = cxClient
AttemptEnds ==
  dxPc # "idle" =>
    /\ cxPc # "idle" => cxAborted /\ dxPc \in {"dispose", "awaitConn"}
    /\ dxPc \in {"dispose", "awaitConn"} => \A c \in Clients : chan[c] # "connecting"
LifecycleOver ==
  used = {} =>
    /\ timer = "none"
    /\ rxPc = "idle" \/ (rxAborted /\ rxPc # "delay")
    /\ dxPc = "idle" => client = None /\ session = None /\ cxPc = "idle" /\ ~isConnected
Winding == ConnectingIsAwaited /\ (Undisturbed => AttemptEnds /\ LifecycleOver)

(* The comment on _lifecycle makes no exception for the repair waiter.      *)
NobodyRevives ==
  dxPc = "idle" /\ "node" \notin used /\ races \subseteq {"lateRepair"} => Quiet

(* "connected" is true of something: the manager has a session, on its own  *)
(* client, whose loss it would hear of.                                     *)
ConnectedIsBacked ==
  isConnected /\ dxPc = "idle" /\ races = {} =>
    /\ session # None /\ session = client
    /\ client \in heard

(* A handle in the subscription map of a connected manager is bound to its  *)
(* current session: those of a replaced session have been dropped.          *)
NoStaleHandles ==
  isConnected /\ dxPc = "idle" /\ races = {} => subs \subseteq {session}

(* Why they hold: a session in place is the one session of its lifecycle,   *)
(* and only the waiter can mark the manager connected beside an attempt.    *)
SessionAlone ==
  /\ session # None => everConnected /\ subs \subseteq {session}
  /\ isConnected \/ subs # {} => everConnected
  /\ rwClient # None => rwSession # None
SessionBacked ==
  /\ session # None => session = client
  /\ cxPc \in {"cert", "chan", "create"} /\ ~cxAborted => cxClient \in heard
  /\ session # None /\ cxPc = "idle" /\ dxPc = "idle" => client \in heard
ConnectedAlone ==
  isConnected /\ dxPc = "idle" /\ "phantom" \notin races => session # None /\ cxPc = "idle"
Backing == SessionAlone /\ (Undisturbed => SessionBacked /\ ConnectedAlone)

(* Somebody is still working on the connection: the attempt, the retry      *)
(* loop, the background timer, node-opcua or the repair waiter.             *)
Recovering ==
  \/ cxPc # "idle" \/ rxPc # "idle" \/ timer = "live" \/ rwClient # None
  \/ client # None /\ client \in heard /\ chan[client] = "lost"
Serving == session # None /\ session = client /\ chan[client] = "up"

(* The manager never gives up while it is in use.                           *)
NeverGivesUp ==
  "node" \in used /\ dxPc = "idle" /\ races = {} => Serving \/ Recovering

(* Why it is so: an attempt that fails in a lifecycle nobody has ended arms *)
(* the timer; the channel of a published session is closed by nobody else.  *)
InUse ==
  /\ timer # "stale"
  /\ cxAborted => cxPc # "idle" /\ dxPc # "idle"
  /\ cxPc \in {"abortClose", "abortDispose"} => cxAborted
  /\ session # None /\ cxPc = "idle" /\ dxPc = "idle" => chan[session] \in {"up", "lost"}
  /\ "joinedAborted" \notin races /\ dxPc # "idle" => "node" \notin used
  /\ "node" \in used /\ dxPc = "idle" /\ races = {} /\ cxPc = "idle" /\ session = None =>
       timer = "live"
Kept == Undisturbed => InUse

(* The comment on scheduleReconnect() makes no exception for a repair that  *)
(* ends while an attempt is cleaning up.                                    *)
NeverGivesUpAsDocumented ==
  "node" \in used /\ dxPc = "idle" /\ races \subseteq {"phantom"} => Serving \/ Recovering

(* Issue #17 without the exception: a node may call whenever it likes.      *)
NoOrphanChannel == \A c \in Clients : chan[c] = "up" => c = client

(* A session in place is never overwritten by another, only released; and   *)
(* no aborted attempt publishes one.                                        *)
SessionsAreReleasedFirst ==
  [][ session' # session /\ Undisturbed =>
        session' = None \/ (session = None /\ ~cxAborted) ]_vars

(* A timed-out operation takes the connection down that it ran on, never a  *)
(* newer and healthy one.                                                   *)
TimeoutHitsOwnSession ==
  [][ \A s \in Clients :
        OperationTimesOut(s) /\ isConnected /\ Undisturbed => session \in {s, None} ]_vars

(* Why it is so: a closing client is waited for, by the attempt that will   *)
(* replace it or by disconnect(), and its requests are cancelled by then.   *)
OnChannel == \A c \in Clients : sess[c] # "closed" \/ c \in ops => chan[c] # "closed"
ClosingIsAwaited ==
  \A c \in Clients : chan[c] = "closing" =>
    \/ cxPc = "cleanup" /\ c = cxWait /\ c = cxPrev
    \/ cxPc \in {"refused", "abortDispose"} /\ c = cxWait
    \/ dxPc \in {"dispose", "offline", "release"} /\ c = dxWait /\ client \in {c, None}
Closing == OnChannel /\ (Undisturbed => ClosingIsAwaited)

(* A connection in use comes back: as long as it is not disconnected, and   *)
(* the server answers some attempt in the end, the manager gets a session.  *)
Recovers ==
  "node" \in used /\ dxPc = "idle" /\ races = {} ~>
    Serving \/ dxPc # "idle" \/ "phantom" \in races

(* disconnect() settles, so that Node-RED's close does.                     *)
DisconnectSettles == dxPc # "idle" ~> dxPc = "idle"

(* The abstract specification, for a manager nobody calls while it is being *)
(* released: its one connection is the client whose channel is not closing. *)
CalmSpec == Init /\ [][Next /\ Undisturbed']_vars

phaseNow == IF dxPc # "idle" THEN "releasing" ELSE IF used = {} THEN "released" ELSE "used"
liveNow == {c \in Clients : Live(c)}
Promise == INSTANCE OwnedConnection WITH phase <- phaseNow, live <- liveNow

(* The manager keeps what OwnedConnection promises.                         *)
KeepsPromise == Promise!Spec

=============================================================================

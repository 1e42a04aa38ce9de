-------------------------- MODULE PublisherProofs --------------------------
(***************************************************************************)
(* Theorems about PubSubConnection and Publisher, for every finite set of  *)
(* nodes and every set of transports and of values; and about              *)
(* PubSubMessages, for every set of configurations, readers, samples and   *)
(* payloads: what the publisher sends has a size, its chunks tile it, fit  *)
(* and are found again by the decoder; what its validators accept is not   *)
(* refused by the encoder; what is encoded comes back as it was; and every *)
(* reader is given what is meant for it.                                   *)
(***************************************************************************)
EXTENDS Publisher, PubSubMessages, FiniteSetTheorems, TLAPS

-----------------------------------------------------------------------------
(* The connection.                                                          *)

ConnInv == ConnTypeOK /\ ConsumersShare /\ NoneLeftBehind /\ ReadyIsTrue

(* How many consumers there are after one has come or gone.                 *)
LEMMA ConsumersCount ==
  ASSUME running \subseteq Nodes
  PROVE  /\ Cardinality(running) \in Nat
         /\ Cardinality(running) = 0 <=> running = {}
         /\ \A n \in Nodes \ running : Cardinality(running \cup {n}) = Cardinality(running) + 1
         /\ \A n \in running : /\ Cardinality(running \ {n}) = Cardinality(running) - 1
                               /\ Cardinality(running \ {n}) = 0 <=> running \ {n} = {}
<1>1. IsFiniteSet(running)
  BY NodesAssumption, FS_Subset
<1> QED
  BY <1>1, FS_CardinalityType, FS_EmptySet, FS_AddElement, FS_RemoveElement

(* The transport acquired is the connection's, and the only one in use.     *)
TransportStates == {"closed", "connecting", "up", "down", "closing"}
LEMMA Acquired ==
  ASSUME ConnInv, NEW t \in Transports, Acquire(t)
  PROVE  /\ shared' = t /\ t # None
         /\ transport' \in [Transports -> TransportStates]
         /\ transport'[t] \in {"connecting", "up", "down"}
         /\ \A u \in Transports : transport'[u] \in {"connecting", "up", "down"} => u = t
         /\ transport'[t] = "up" <=> connected
         /\ \A n \in running : tr[n] = t /\ shared = t
<1>1. t # None
  BY NoneAssumption
<1>2. CASE shared = None
  <2>1. shared' = t /\ transport' = [transport EXCEPT ![t] = "connecting"]
    BY <1>2 DEF Acquire
  <2>2. transport \in [Transports -> TransportStates]
    BY DEF ConnInv, ConnTypeOK, TransportStates
  <2>3. \A u \in Transports : transport[u] \notin {"connecting", "up", "down"}
    BY <1>2, NoneAssumption DEF ConnInv, NoneLeftBehind, InUse
  <2>4. ~connected /\ running = {}
    BY <1>2 DEF ConnInv, ReadyIsTrue, ConsumersShare
  <2> QED
    BY <1>1, <2>1, <2>2, <2>3, <2>4 DEF TransportStates
<1>3. CASE shared # None
  BY <1>1, <1>3 DEF Acquire, ConnInv, ConnTypeOK, NoneLeftBehind, ConsumersShare,
                    ReadyIsTrue, InUse, TransportStates
<1> QED
  BY <1>2, <1>3

LEMMA ConnInitially == ConnInit => ConnInv
<1> SUFFICES ASSUME ConnInit
             PROVE  ConnInv
  OBVIOUS
<1>1. ConnTypeOK
  BY DEF ConnInit, ConnTypeOK
<1>2. ConsumersShare
  BY FS_EmptySet DEF ConnInit, ConsumersShare
<1>3. NoneLeftBehind /\ ReadyIsTrue
  BY DEF ConnInit, NoneLeftBehind, ReadyIsTrue, InUse
<1> QED
  BY <1>1, <1>2, <1>3 DEF ConnInv

LEMMA DeployStep ==
  ASSUME ConnInv, NEW n \in Nodes, Deploy(n)
  PROVE  ConnInv'
<1> PICK t \in Transports : Acquire(t) /\ tr' = [tr EXCEPT ![n] = t]
  BY DEF Deploy
<1>1. /\ shared' = t /\ t # None
      /\ transport' \in [Transports -> TransportStates]
      /\ transport'[t] \in {"connecting", "up", "down"}
      /\ \A u \in Transports : transport'[u] \in {"connecting", "up", "down"} => u = t
      /\ transport'[t] = "up" <=> connected
      /\ \A k \in running : tr[k] = t /\ shared = t
  BY Acquired
<1>2. ToldAtOnce(n) \in BOOLEAN /\ (ToldAtOnce(n) <=> connected)
  BY DEF ToldAtOnce, ConnInv, ReadyIsTrue
<1>3. ConnTypeOK'
  <2>1. /\ open' \in BOOLEAN /\ connected' \in BOOLEAN /\ grace' \in BOOLEAN
        /\ callbacks' \subseteq Nodes /\ running' \subseteq Nodes
    BY DEF Deploy, TimerCancelled, ConnInv, ConnTypeOK
  <2>4. refCount' \in Nat /\ shared' \in Transports \cup {None}
    BY <1>1 DEF Deploy, ConnInv, ConnTypeOK
  <2>2. tr' \in [Nodes -> Transports \cup {None}]
    BY DEF ConnInv, ConnTypeOK
  <2>3. ready' \in [Nodes -> BOOLEAN]
    BY <1>2 DEF Deploy, ConnInv, ConnTypeOK
  <2> QED
    BY <1>1, <2>1, <2>2, <2>3, <2>4 DEF ConnTypeOK, TransportStates
<1>4. refCount' = Cardinality(running')
  BY ConsumersCount DEF Deploy, ConnInv, ConnTypeOK, ConsumersShare
<1>5. ConsumersShare'
  BY <1>1, <1>4 DEF Deploy, ConnInv, ConnTypeOK, ConsumersShare, InUse
<1>6. NoneLeftBehind'
  BY <1>1 DEF Deploy, TimerCancelled, NoneLeftBehind, InUse
<1>7. ReadyIsTrue'
  <2>1. connected' <=> shared' # None /\ transport'[shared'] = "up"
    BY <1>1 DEF Deploy
  <2>2. ASSUME NEW k \in running'
        PROVE  ready'[k] <=> transport'[tr'[k]] = "up"
    <3>1. tr'[k] = t
      BY <1>1, <2>2 DEF Deploy, ConnInv, ConnTypeOK
    <3>2. CASE k = n
      BY <1>1, <1>2, <3>1, <3>2 DEF Deploy, ConnInv, ConnTypeOK
    <3>3. CASE k # n
      <4>1. k \in running /\ ready'[k] = ready[k] /\ tr[k] = shared /\ shared = t
        BY <1>1, <2>2, <3>3 DEF Deploy, ConnInv, ConnTypeOK
      <4>2. ready[k] <=> connected
        BY <1>1, <4>1 DEF ConnInv, ReadyIsTrue
      <4> QED
        BY <1>1, <3>1, <4>1, <4>2
    <3> QED
      BY <3>2, <3>3
  <2> QED
    BY <2>1, <2>2 DEF ReadyIsTrue
<1> QED
  BY <1>3, <1>5, <1>6, <1>7 DEF ConnInv

LEMMA SetupFailsStep ==
  ASSUME ConnInv, NEW n \in Nodes, SetupFails(n)
  PROVE  ConnInv'
<1> PICK t \in Transports : Acquire(t)
  BY DEF SetupFails
<1>1. /\ shared' = t /\ t # None
      /\ transport' \in [Transports -> TransportStates]
      /\ transport'[t] \in {"connecting", "up", "down"}
      /\ \A u \in Transports : transport'[u] \in {"connecting", "up", "down"} => u = t
      /\ transport'[t] = "up" <=> connected
      /\ \A k \in running : tr[k] = t /\ shared = t
  BY Acquired
<1>2. refCount = 0 <=> running = {}
  BY ConsumersCount DEF ConnInv, ConnTypeOK, ConsumersShare
<1>3. UNCHANGED <<open, refCount, connected, callbacks, running, tr, ready>>
  BY DEF SetupFails, consumers
<1>4. ConnTypeOK'
  BY <1>1, <1>3 DEF SetupFails, ConnInv, ConnTypeOK, TransportStates
<1>5. ConsumersShare'
  BY <1>1, <1>3 DEF ConnInv, ConsumersShare, InUse
<1>6. NoneLeftBehind'
  BY <1>1, <1>2, <1>3 DEF SetupFails, NoneLeftBehind, InUse
<1>7. ReadyIsTrue'
  BY <1>1, <1>3 DEF ConnInv, ReadyIsTrue
<1> QED
  BY <1>4, <1>5, <1>6, <1>7 DEF ConnInv

(* The consumer that leaves is the last one exactly when the count gets to  *)
(* 0, and then the grace timer starts.                                      *)
LEMMA CloseNodeStep ==
  ASSUME ConnInv, NEW n \in Nodes, CloseNode(n)
  PROVE  ConnInv'
<1>1. /\ refCount' = Cardinality(running') /\ refCount' \in Nat
      /\ refCount' = 0 <=> running' = {}
  BY ConsumersCount DEF CloseNode, ConnInv, ConnTypeOK, ConsumersShare
<1>2. shared # None /\ ~grace /\ UNCHANGED <<open, shared, connected, transport>>
  BY DEF CloseNode, ConnInv, ConsumersShare, NoneLeftBehind
<1>3. grace' \in BOOLEAN /\ (grace' <=> running' = {})
  BY <1>1, <1>2 DEF CloseNode, Arms, Unused, ConnInv, ConnTypeOK
<1>4. ConnTypeOK'
  BY <1>1, <1>2, <1>3 DEF CloseNode, ConnInv, ConnTypeOK
<1>5. ConsumersShare'
  BY <1>1, <1>2 DEF CloseNode, ConnInv, ConnTypeOK, ConsumersShare, InUse
<1>6. NoneLeftBehind'
  BY <1>2, <1>3 DEF ConnInv, NoneLeftBehind, InUse
<1>7. ReadyIsTrue'
  BY <1>2 DEF CloseNode, ConnInv, ConnTypeOK, ReadyIsTrue
<1> QED
  BY <1>4, <1>5, <1>6, <1>7 DEF ConnInv

LEMMA GraceFiresStep ==
  ASSUME ConnInv, GraceFires
  PROVE  ConnInv'
<1>1. running = {} /\ shared # None /\ refCount = 0 /\ shared \in Transports
  BY FS_EmptySet DEF GraceFires, ConnInv, ConnTypeOK, ConsumersShare, NoneLeftBehind
<1>2. /\ transport' = [transport EXCEPT ![shared] = "closing"] /\ shared' = None
      /\ ~connected' /\ connected' \in BOOLEAN /\ callbacks' = {} /\ ~grace' /\ grace' \in BOOLEAN
      /\ UNCHANGED <<open, refCount, running, tr, ready>>
  BY <1>1 DEF GraceFires, Unused, Closing, consumers
<1>3. ConnTypeOK'
  BY <1>1, <1>2 DEF ConnInv, ConnTypeOK
<1>4. ConsumersShare' /\ ReadyIsTrue'
  BY <1>1, <1>2 DEF ConnInv, ConsumersShare, ReadyIsTrue
<1>5. NoneLeftBehind'
  BY <1>1, <1>2 DEF ConnInv, ConnTypeOK, NoneLeftBehind, InUse
<1> QED
  BY <1>3, <1>4, <1>5 DEF ConnInv

LEMMA CloseConnectionStep ==
  ASSUME ConnInv, CloseConnection
  PROVE  ConnInv'
<1>1. /\ transport' = IF shared = None THEN transport ELSE [transport EXCEPT ![shared] = "closing"]
      /\ open' = FALSE /\ grace' = FALSE /\ shared' = None /\ connected' = FALSE
      /\ refCount' = 0 /\ callbacks' = {} /\ running = {}
      /\ UNCHANGED <<running, tr, ready>>
  BY DEF CloseConnection, Closing, consumers
<1>2. ConnTypeOK'
  BY <1>1 DEF ConnInv, ConnTypeOK
<1>3. ConsumersShare' /\ ReadyIsTrue'
  BY <1>1, FS_EmptySet DEF ConsumersShare, ReadyIsTrue
<1>4. NoneLeftBehind'
  BY <1>1 DEF ConnInv, ConnTypeOK, NoneLeftBehind, InUse
<1> QED
  BY <1>2, <1>3, <1>4 DEF ConnInv

(* An event of the shared transport reaches every consumer; one of a        *)
(* transport that is closing reaches none.                                  *)
LEMMA EventStep ==
  ASSUME ConnInv, NEW t \in Transports, Connects(t) \/ Drops(t) \/ Closed(t)
  PROVE  ConnInv'
<1>1. UNCHANGED <<open, refCount, shared, grace, callbacks, running, tr>>
  BY DEF Connects, Drops, Closed, Becomes
<1> PICK s \in TransportStates : Becomes(t, s) /\ (InUse(t) <=> s \in {"up", "down"})
                                 /\ s \in {"closed", "up", "down"}
  BY DEF Connects, Drops, Closed, TransportStates, InUse
<1>2. transport' = [transport EXCEPT ![t] = s] /\ FanOut(t, s = "up")
  BY DEF Becomes
<1>3. CASE shared = t
  <2>1. t # None /\ InUse(t)
    BY <1>3, NoneAssumption DEF ConnInv, ConsumersShare
  <2>2. /\ connected' = (s = "up")
        /\ ready' = [n \in Nodes |-> IF n \in callbacks THEN s = "up" ELSE ready[n]]
    BY <1>2, <1>3 DEF FanOut, Told
  <2>3. ConnTypeOK'
    BY <1>1, <1>2, <2>2 DEF ConnInv, ConnTypeOK, TransportStates
  <2>4. ConsumersShare'
    BY <1>1, <1>2, <1>3, <2>1 DEF ConnInv, ConnTypeOK, ConsumersShare, InUse
  <2>5. NoneLeftBehind'
    BY <1>1, <1>2, <1>3, <2>1 DEF ConnInv, ConnTypeOK, NoneLeftBehind, InUse
  <2>6. ReadyIsTrue'
    BY <1>1, <1>2, <1>3, <2>1, <2>2 DEF ConnInv, ConnTypeOK, ConsumersShare, ReadyIsTrue
  <2> QED
    BY <2>3, <2>4, <2>5, <2>6 DEF ConnInv
<1>4. CASE shared # t
  <2>1. s = "closed" /\ UNCHANGED <<connected, ready>>
    BY <1>2, <1>4 DEF FanOut, ConnInv, NoneLeftBehind
  <2>2. ConnTypeOK'
    BY <1>1, <1>2, <2>1 DEF ConnInv, ConnTypeOK
  <2>3. ConsumersShare'
    BY <1>1, <1>2, <1>4 DEF ConnInv, ConnTypeOK, ConsumersShare, InUse
  <2>4. NoneLeftBehind'
    BY <1>1, <1>2, <2>1 DEF ConnInv, ConnTypeOK, NoneLeftBehind, InUse
  <2>5. ReadyIsTrue'
    BY <1>1, <1>2, <1>4, <2>1 DEF ConnInv, ConnTypeOK, ConsumersShare, ReadyIsTrue
  <2> QED
    BY <2>2, <2>3, <2>4, <2>5 DEF ConnInv
<1> QED
  BY <1>3, <1>4

LEMMA ConnStep == ConnInv /\ [ConnNext]_connVars => ConnInv'
<1> SUFFICES ASSUME ConnInv, [ConnNext]_connVars
             PROVE  ConnInv'
  OBVIOUS
<1>1. CASE Lives
  BY <1>1, DeployStep, SetupFailsStep, CloseNodeStep DEF Lives
<1>2. CASE GraceFires \/ CloseConnection
  BY <1>2, GraceFiresStep, CloseConnectionStep
<1>3. CASE Events
  BY <1>3, EventStep DEF Events
<1>4. CASE UNCHANGED connVars
  BY <1>4 DEF connVars, connection, consumers, ConnInv, ConnTypeOK, ConsumersShare,
              NoneLeftBehind, ReadyIsTrue, InUse
<1> QED
  BY <1>1, <1>2, <1>3, <1>4 DEF ConnNext

(* The connection's invariant, whatever its consumers do between its steps. *)
THEOREM ConnectionInvariant == ConnSpec => []ConnInv
BY ConnInitially, ConnStep, PTL DEF ConnSpec

-----------------------------------------------------------------------------
(* The publishers: each of their steps is a step of the connection, or      *)
(* leaves it alone.                                                         *)

LEMMA StepOfTheConnection == [Next]_vars => [ConnNext]_connVars
BY DEF Next, Hear, Unheard, Leave, Publishes, Publish, Merge, CycleChanged, CycleUnchanged,
       ConnNext, Lives, vars

LEMMA PublisherConnInv == Spec => []ConnInv
<1>1. Init => ConnInv
  BY ConnInitially DEF Init
<1>2. ConnInv /\ [Next]_vars => ConnInv'
  BY ConnStep, StepOfTheConnection
<1> QED
  BY <1>1, <1>2, PTL DEF Spec

(* Every consumer has the one transport that is in use.                     *)
THEOREM ConsumersAlwaysShare == Spec => []ConsumersShare
<1>1. ConnInv => ConsumersShare
  BY DEF ConnInv
<1> QED
  BY <1>1, PublisherConnInv, PTL

(* No transport outlives its consumers without a grace timer to close it.   *)
THEOREM NoTransportLeftBehind == Spec => []NoneLeftBehind
<1>1. ConnInv => NoneLeftBehind
  BY DEF ConnInv
<1> QED
  BY <1>1, PublisherConnInv, PTL

(* A consumer's idea of the transport is right.                             *)
THEOREM ReadinessIsTrue == Spec => []ReadyIsTrue
<1>1. ConnInv => ReadyIsTrue
  BY DEF ConnInv
<1> QED
  BY <1>1, PublisherConnInv, PTL

-----------------------------------------------------------------------------
(* The queue of one.  LatestFrameKept is not inductive: that a key frame    *)
(* waiting is the newest one, and that a closed publisher has nothing       *)
(* waiting, must be known too.                                              *)

QueueTypeOK ==
  /\ pending \in [Nodes -> Frames]
  /\ unsent \in [Nodes -> {"no", "superseded", "refused"}]
  /\ newest \in [Nodes -> Values \cup {None}] /\ shown \in [Nodes -> Values \cup {None}]
  /\ latest \in [Nodes -> Values]

NewestWaits(n) ==
  /\ newest[n] # None /\ unsent[n] = "no" => newest[n] \in {shown[n], pending[n]}
  /\ pending[n] \in Values => pending[n] = newest[n]

QueueInv ==
  /\ QueueTypeOK
  /\ \A n \in Nodes : NewestWaits(n) /\ (pending[n] # None => n \in running /\ ~ready[n])

LEMMA QueueInitially == Init => QueueInv
<1> SUFFICES ASSUME Init
             PROVE  QueueInv
  OBVIOUS
<1>1. QueueTypeOK
  BY ValuesAssumption DEF Init, QueueTypeOK, Frames
<1>2. \A n \in Nodes : pending[n] = None /\ newest[n] = None
  BY DEF Init
<1> QED
  BY <1>1, <1>2 DEF QueueInv, NewestWaits

(* A frame is sent, refused or waits: the newest values, or a keep-alive.   *)
LEMMA EmitStep ==
  ASSUME QueueInv, NEW n \in Nodes, n \in running, NEW frame \in Values \cup {KeepAlive},
         Emit(n, frame), UNCHANGED <<connVars, latest>>,
         \/ frame \in Values /\ newest' = [newest EXCEPT ![n] = frame]
         \/ frame = KeepAlive /\ newest' = newest
  PROVE  QueueInv'
<1>1. /\ newest' \in [Nodes -> Values \cup {None}] /\ latest' \in [Nodes -> Values]
      /\ running' = running /\ ready' = ready
  BY DEF QueueInv, QueueTypeOK, connVars, consumers
<1>2. CASE ready[n] /\ EmitSends(n, frame)
  <2>1. /\ shown' = [shown EXCEPT ![n] = ShownBy(@, frame)]
        /\ unsent' = [unsent EXCEPT ![n] = LossOf(frame, @, "no")]
        /\ pending' = pending
    BY <1>2 DEF EmitSends
  <2>2. QueueTypeOK'
    BY <1>1, <2>1 DEF QueueInv, QueueTypeOK, ShownBy, LossOf
  <2>3. pending[n] = None
    BY <1>2 DEF QueueInv
  <2>4. ASSUME NEW k \in Nodes
        PROVE  NewestWaits(k)' /\ (pending'[k] # None => k \in running' /\ ~ready'[k])
    <3>1. CASE k = n
      BY <1>1, <2>1, <2>3, <3>1, ValuesAssumption
         DEF QueueInv, QueueTypeOK, NewestWaits, ShownBy, LossOf
    <3>2. CASE k # n
      BY <1>1, <2>1, <3>2 DEF QueueInv, QueueTypeOK, NewestWaits
    <3> QED
      BY <3>1, <3>2
  <2> QED
    BY <2>2, <2>4 DEF QueueInv
<1>3. CASE ready[n] /\ EmitThrows(n, frame)
  <2>1. /\ unsent' = [unsent EXCEPT ![n] = LossOf(frame, @, "refused")]
        /\ pending' = pending /\ shown' = shown
    BY <1>3 DEF EmitThrows
  <2>2. QueueTypeOK'
    BY <1>1, <2>1 DEF QueueInv, QueueTypeOK, LossOf
  <2>3. pending[n] = None
    BY <1>3 DEF QueueInv
  <2>4. ASSUME NEW k \in Nodes
        PROVE  NewestWaits(k)' /\ (pending'[k] # None => k \in running' /\ ~ready'[k])
    <3>1. CASE k = n
      BY <1>1, <2>1, <2>3, <3>1, ValuesAssumption
         DEF QueueInv, QueueTypeOK, NewestWaits, LossOf
    <3>2. CASE k # n
      BY <1>1, <2>1, <3>2 DEF QueueInv, QueueTypeOK, NewestWaits
    <3> QED
      BY <3>1, <3>2
  <2> QED
    BY <2>2, <2>4 DEF QueueInv
<1>4. CASE ~ready[n] /\ EmitWaits(n, frame)
  <2>1. /\ pending' = [pending EXCEPT ![n] = frame] /\ shown' = shown
        /\ unsent' = [unsent EXCEPT ![n] =
             LossOf(frame, IF pending[n] \in Values THEN "superseded" ELSE @, "no")]
    BY <1>4 DEF EmitWaits, Queued
  <2>2. QueueTypeOK'
    BY <1>1, <2>1 DEF QueueInv, QueueTypeOK, Frames, LossOf
  <2>3. ASSUME NEW k \in Nodes
        PROVE  NewestWaits(k)' /\ (pending'[k] # None => k \in running' /\ ~ready'[k])
    <3>1. CASE k = n
      <4>1. pending'[n] = frame
        BY <2>1 DEF QueueInv, QueueTypeOK
      <4>2. CASE frame \in Values
        BY <1>1, <1>4, <3>1, <4>1, <4>2, ValuesAssumption DEF QueueInv, QueueTypeOK, NewestWaits
      <4>3. CASE frame = KeepAlive
        <5>1. newest[n] # None /\ unsent'[n] = "no" => newest[n] = shown[n]
          BY <2>1, <4>3, ValuesAssumption DEF QueueInv, QueueTypeOK, NewestWaits, Frames, LossOf
        <5> QED
          BY <1>1, <1>4, <2>1, <3>1, <4>1, <4>3, <5>1, ValuesAssumption DEF NewestWaits
      <4> QED
        BY <4>2, <4>3
    <3>2. CASE k # n
      BY <1>1, <2>1, <3>2 DEF QueueInv, QueueTypeOK, NewestWaits
    <3> QED
      BY <3>1, <3>2
  <2> QED
    BY <2>2, <2>3 DEF QueueInv
<1> QED
  BY <1>2, <1>3, <1>4 DEF Emit

(* "connected" sends what waits, or it is refused.                          *)
LEMMA HearStep ==
  ASSUME ConnInv, QueueInv, Hear
  PROVE  QueueInv'
<1> PICK thrown \in SUBSET Flushed :
      /\ shown' = [n \in Nodes |->
           IF n \in Flushed \ thrown THEN ShownBy(shown[n], pending[n]) ELSE shown[n]]
      /\ unsent' = [n \in Nodes |->
           IF n \in thrown THEN LossOf(pending[n], unsent[n], "refused") ELSE unsent[n]]
  BY DEF Hear
<1>1. /\ pending' = [n \in Nodes |-> IF n \in Flushed THEN None ELSE pending[n]]
      /\ UNCHANGED <<latest, newest, running, callbacks>>
  BY DEF Hear, StillWaiting, Events, Connects, Drops, Closed, Becomes
<1>2. \A n \in Nodes : pending[n] \in Values \cup {KeepAlive, None}
  BY DEF QueueInv, QueueTypeOK, Frames
<1>3. QueueTypeOK'
  <2>1. pending' \in [Nodes -> Frames]
    BY <1>1, <1>2 DEF Frames
  <2>2. shown' \in [Nodes -> Values \cup {None}]
    BY <1>2 DEF ShownBy, Flushed, QueueInv, QueueTypeOK
  <2>3. unsent' \in [Nodes -> {"no", "superseded", "refused"}]
    BY DEF LossOf, QueueInv, QueueTypeOK
  <2> QED
    BY <1>1, <2>1, <2>2, <2>3 DEF QueueInv, QueueTypeOK
<1>4. ASSUME NEW k \in Nodes
      PROVE  NewestWaits(k)' /\ (pending'[k] # None => k \in running' /\ ~ready'[k])
  <2>1. CASE k \in Flushed
    <3>1. pending[k] # None /\ pending'[k] = None /\ newest'[k] = newest[k]
      BY <1>1, <2>1 DEF Flushed
    <3>2. CASE k \in thrown
      <4>1. shown'[k] = shown[k] /\ unsent'[k] = LossOf(pending[k], unsent[k], "refused")
        BY <3>2
      <4> QED
        BY <1>2, <3>1, <4>1, ValuesAssumption DEF LossOf, QueueInv, QueueTypeOK, NewestWaits
    <3>3. CASE k \notin thrown
      <4>1. shown'[k] = ShownBy(shown[k], pending[k]) /\ unsent'[k] = unsent[k]
        BY <2>1, <3>3
      <4> QED
        BY <1>2, <3>1, <4>1, ValuesAssumption DEF ShownBy, QueueInv, QueueTypeOK, NewestWaits
    <3> QED
      BY <3>2, <3>3
  <2>2. CASE k \notin Flushed
    <3>1. pending'[k] = pending[k] /\ shown'[k] = shown[k] /\ unsent'[k] = unsent[k]
      BY <1>1, <2>2
    <3>2. pending[k] # None => k \in callbacks
      BY DEF QueueInv, ConnInv, ConsumersShare
    <3>3. pending[k] # None => ~ready'[k]
      BY <2>2, <3>2 DEF Flushed
    <3> QED
      BY <1>1, <3>1, <3>3 DEF QueueInv, NewestWaits
  <2> QED
    BY <2>1, <2>2
<1> QED
  BY <1>3, <1>4 DEF QueueInv

LEMMA LeaveStep ==
  ASSUME QueueInv, NEW n \in Nodes, Leave(n)
  PROVE  QueueInv'
<1>1. QueueTypeOK'
  BY ValuesAssumption DEF Leave, QueueInv, QueueTypeOK, Frames
<1>2. pending'[n] = None /\ newest'[n] = None
  BY DEF Leave, QueueInv, QueueTypeOK
<1>3. ASSUME NEW k \in Nodes, k # n
      PROVE  /\ pending'[k] = pending[k] /\ newest'[k] = newest[k] /\ shown'[k] = shown[k]
             /\ unsent'[k] = unsent[k]
             /\ k \in running' <=> k \in running
             /\ k \in running => ready'[k] = ready[k]
  BY <1>3 DEF Leave, CloseNode, QueueInv, QueueTypeOK
<1> QED
  BY <1>1, <1>2, <1>3 DEF QueueInv, NewestWaits

LEMMA UnheardStep ==
  ASSUME QueueInv, ConnInv, Unheard
  PROVE  QueueInv'
<1>1. UNCHANGED <<latest, pending, newest, shown, unsent>>
  BY DEF Unheard, queue, history
<1>2. \A k \in running : k \in running' /\ ready'[k] = ready[k]
  <2>1. ASSUME NEW n \in Nodes, Deploy(n)
        PROVE  \A k \in running : k \in running' /\ ready'[k] = ready[k]
    BY <2>1 DEF Deploy, ConnInv, ConnTypeOK
  <2>2. ASSUME (\E n \in Nodes : SetupFails(n)) \/ GraceFires \/ CloseConnection
        PROVE  running' = running /\ ready' = ready
    BY <2>2 DEF SetupFails, GraceFires, CloseConnection, consumers
  <2> QED
    BY <2>1, <2>2 DEF Unheard
<1> QED
  BY <1>1, <1>2 DEF QueueInv, QueueTypeOK, NewestWaits

LEMMA PublishesStep ==
  ASSUME QueueInv, NEW n \in Nodes, Publishes(n)
  PROVE  QueueInv'
<1>1. ASSUME NEW v \in Values, Publish(n, v)
      PROVE  QueueInv'
  BY <1>1, EmitStep DEF Publish
<1>2. ASSUME NEW v \in Values, Merge(n, v)
      PROVE  QueueInv'
  <2>1. latest' \in [Nodes -> Values]
    BY <1>2 DEF Merge, QueueInv, QueueTypeOK
  <2> QED
    BY <1>2, <2>1 DEF Merge, connVars, consumers, history, QueueInv, QueueTypeOK, NewestWaits
<1>3. CASE CycleChanged(n)
  <2>1. latest[n] \in Values /\ n \in running
    BY <1>3 DEF QueueInv, QueueTypeOK, CycleChanged, Cycles
  <2> QED
    BY <1>3, <2>1, EmitStep DEF CycleChanged
<1>4. CASE CycleUnchanged(n)
  <2>1. n \in running
    BY <1>4 DEF CycleUnchanged, Cycles
  <2> QED
    BY <1>4, <2>1, EmitStep DEF CycleUnchanged
<1> QED
  BY <1>1, <1>2, <1>3, <1>4 DEF Publishes

LEMMA QueueStep == ConnInv /\ QueueInv /\ [Next]_vars => QueueInv'
<1> SUFFICES ASSUME ConnInv, QueueInv, [Next]_vars
             PROVE  QueueInv'
  OBVIOUS
<1>1. CASE Hear \/ Unheard
  BY <1>1, HearStep, UnheardStep
<1>2. CASE \E n \in Nodes : Leave(n) \/ Publishes(n)
  BY <1>2, LeaveStep, PublishesStep
<1>3. CASE UNCHANGED vars
  BY <1>3 DEF vars, connVars, consumers, queue, history, QueueInv, QueueTypeOK, NewestWaits
<1> QED
  BY <1>1, <1>2, <1>3 DEF Next

(* The values last published are sent or wait for the connection, unless a  *)
(* keep-alive took their place or they were refused with an error.          *)
THEOREM LatestIsKept == Spec => []LatestFrameKept
<1>1. Init => QueueInv
  BY QueueInitially
<1>2. ConnInv /\ QueueInv /\ [Next]_vars => QueueInv'
  BY QueueStep
<1>3. ConnInv /\ QueueInv => LatestFrameKept
  BY DEF ConnInv, ConnTypeOK, QueueInv, NewestWaits, LatestFrameKept
<1> QED
  BY <1>1, <1>2, <1>3, PublisherConnInv, PTL DEF Spec

-----------------------------------------------------------------------------
(* Bytes on the wire: what every token takes, and their sum.                *)

(* Induction: a set of numbers that is not empty has a least one.           *)
LEMMA LeastNumber ==
  ASSUME NEW S, S \subseteq Nat, S # {}
  PROVE  \E x \in S : \A y \in S : x <= y
<1>1. PICK x \in S : \A y \in S : ~(<<y, x>> \in OpToRel(<, Nat))
  BY WFMin, NatLessThanWellFounded
<1>2. \A y \in S : ~(y < x)
  BY <1>1 DEF OpToRel
<1> QED
  BY <1>2

(* The function that counts the bytes of the first n tokens.                *)
Counts(f, s, n) == f = [k \in 0 .. n |-> IF k = 0 THEN 0 ELSE f[k - 1] + TokenBytes(s[k])]

(* There is such a function: were there a least n without one, it could be  *)
(* extended to n.                                                           *)
LEMMA CountExists ==
  ASSUME NEW s, NEW n \in Nat
  PROVE  \E f : Counts(f, s, n)
<1> DEFINE Bad == {k \in Nat : ~\E f : Counts(f, s, k)}
<1> SUFFICES ASSUME n \in Bad
             PROVE  FALSE
  OBVIOUS
<1>1. PICK m \in Bad : \A k \in Bad : m <= k
  BY LeastNumber
<1>2. CASE m = 0
  <2> DEFINE f == [k \in 0 .. 0 |-> 0]
  <2>1. Counts(f, s, 0)
    BY DEF Counts
  <2> QED
    BY <1>2, <2>1
<1>3. CASE m # 0
  <2>1. m - 1 \in Nat /\ m - 1 \notin Bad
    BY <1>1, <1>3
  <2>2. PICK f : Counts(f, s, m - 1)
    BY <2>1
  <2> DEFINE g == [k \in 0 .. m |-> IF k = m THEN f[m - 1] + TokenBytes(s[m]) ELSE f[k]]
  <2>3. ASSUME NEW k \in 0 .. m
        PROVE  g[k] = IF k = 0 THEN 0 ELSE g[k - 1] + TokenBytes(s[k])
    <3>1. \A j \in 0 .. m - 1 : f[j] = IF j = 0 THEN 0 ELSE f[j - 1] + TokenBytes(s[j])
      BY <2>2, Zenon DEF Counts
    <3>2. CASE k = m
      BY <1>3, <3>2
    <3>3. CASE k # m
      <4>1. k \in 0 .. m - 1 /\ (k # 0 => k - 1 \in 0 .. m /\ k - 1 # m)
        BY <3>3
      <4>2. g[k] = f[k] /\ (k # 0 => g[k - 1] = f[k - 1])
        BY <3>3, <4>1
      <4> QED
        BY <3>1, <4>1, <4>2
    <3> QED
      BY <3>2, <3>3
  <2>4. DOMAIN g = 0 .. m /\ g = [k \in 0 .. m |-> g[k]]
    OBVIOUS
  <2> HIDE DEF g
  <2>5. Counts(g, s, m)
    BY <2>3, <2>4 DEF Counts
  <2> QED
    BY <2>5
<1> QED
  BY <1>2, <1>3

(* So Bytes() is its last value.                                            *)
LEMMA BytesCounted ==
  ASSUME NEW s, Len(s) \in Nat
  PROVE  \E f : Counts(f, s, Len(s)) /\ Bytes(s) = f[Len(s)]
<1> DEFINE F == CHOOSE f : f = [k \in 0 .. Len(s) |-> IF k = 0 THEN 0 ELSE f[k - 1] + TokenBytes(s[k])]
<1>1. \E f : f = [k \in 0 .. Len(s) |-> IF k = 0 THEN 0 ELSE f[k - 1] + TokenBytes(s[k])]
  BY CountExists DEF Counts
<1>2. F = [k \in 0 .. Len(s) |-> IF k = 0 THEN 0 ELSE F[k - 1] + TokenBytes(s[k])]
  BY <1>1
<1>3. Bytes(s) = F[Len(s)]
  BY DEF Bytes
<1> HIDE DEF F
<1> QED
  BY <1>2, <1>3 DEF Counts

(* Sequences and their elements.                                            *)
LEMMA SequenceOf ==
  ASSUME NEW S, NEW s \in Seq(S)
  PROVE  /\ IsSequence(s) /\ ToSet(s) \subseteq S
         /\ Len(s) \in Nat /\ DOMAIN s = 1 .. Len(s)
<1>1. Len(s) \in Nat /\ DOMAIN s = 1 .. Len(s) /\ \A i \in 1 .. Len(s) : s[i] \in S
  OBVIOUS
<1>2. ToSet(s) \subseteq S /\ \A i \in 1 .. Len(s) : s[i] \in ToSet(s)
  BY <1>1 DEF ToSet
<1>3. s = [i \in 1 .. Len(s) |-> s[i]]
  BY <1>1
<1>4. s \in Seq(ToSet(s))
  BY <1>1, <1>2, <1>3
<1> QED
  BY <1>1, <1>2, <1>4 DEF IsSequence

(* The elements of a sequence are the values at its indices.                *)
LEMMA SequenceFacts ==
  ASSUME NEW s, IsSequence(s)
  PROVE  /\ Len(s) \in Nat /\ DOMAIN s = 1 .. Len(s)
         /\ \A i \in 1 .. Len(s) : s[i] \in ToSet(s)
         /\ \A x \in ToSet(s) : \E i \in 1 .. Len(s) : x = s[i]
         /\ s = <<>> <=> Len(s) = 0
<1>1. s \in Seq(ToSet(s))
  BY DEF IsSequence
<1>2. Len(s) \in Nat /\ DOMAIN s = 1 .. Len(s) /\ (s = <<>> <=> Len(s) = 0)
  BY <1>1
<1>3. ToSet(s) = {s[i] : i \in DOMAIN s}
  BY DEF ToSet
<1> QED
  BY <1>2, <1>3

(* A function on 1 .. n is a sequence of length n.                          *)
LEMMA SequenceMade ==
  ASSUME NEW n \in Nat, NEW s, DOMAIN s = 1 .. n, s = [i \in 1 .. n |-> s[i]]
  PROVE  IsSequence(s) /\ Len(s) = n
<1>1. ToSet(s) = {s[i] : i \in 1 .. n}
  BY DEF ToSet
<1>2. s \in Seq(ToSet(s)) /\ Len(s) = n
  BY <1>1
<1> QED
  BY <1>2 DEF IsSequence

(* Tokens whose bytes can be counted.                                       *)
Sized(s) == IsSequence(s) /\ \A t \in ToSet(s) : TokenBytes(t) \in Nat

(* Tokens of a set whose members have a size.                               *)
LEMMA SizedOf ==
  ASSUME NEW S, NEW s \in Seq(S), \A t \in S : TokenBytes(t) \in Nat
  PROVE  Sized(s)
BY SequenceOf DEF Sized

(* One after the other, they are.                                           *)
LEMMA SizedConcat ==
  ASSUME NEW s, NEW t, Sized(s), Sized(t)
  PROVE  Sized(s \o t)
<1> DEFINE S == ToSet(s) \cup ToSet(t)
<1>1. s \in Seq(S) /\ t \in Seq(S)
  <2>1. s \in Seq(ToSet(s)) /\ t \in Seq(ToSet(t))
    BY DEF Sized, IsSequence
  <2> QED
    BY <2>1
<1>2. s \o t \in Seq(S)
  BY <1>1
<1>3. \A x \in S : TokenBytes(x) \in Nat
  BY DEF Sized
<1> QED
  BY <1>2, <1>3, SizedOf

(* One of them is.                                                          *)
LEMMA SizedOne ==
  ASSUME NEW t, TokenBytes(t) \in Nat
  PROVE  Sized(<<t>>)
<1>1. <<t>> \in Seq({t})
  OBVIOUS
<1>2. IsSequence(<<t>>) /\ ToSet(<<t>>) \subseteq {t}
  BY <1>1, SequenceOf
<1> QED
  BY <1>2, Zenon DEF Sized

(* None are.                                                                *)
LEMMA SizedNone == Sized(<<>>)
<1>1. DOMAIN <<>> = 1 .. 0 /\ <<>> = [i \in 1 .. 0 |-> <<>>[i]] /\ Len(<<>>) = 0
  OBVIOUS
<1>2. IsSequence(<<>>)
  BY <1>1, SequenceMade
<1> QED
  BY <1>1, <1>2, SequenceFacts DEF Sized

(* An optional part is.                                                     *)
LEMMA SizedWhen ==
  ASSUME NEW c, NEW s, c => Sized(s)
  PROVE  Sized(When(c, s))
<1>1. CASE c
  BY <1>1 DEF When
<1>2. CASE ~c
  BY <1>2, SizedNone DEF When
<1> QED
  BY <1>1, <1>2

(* The bytes counted so far are a number.                                   *)
LEMMA CountsTyped ==
  ASSUME NEW s, Sized(s), NEW n \in 0 .. Len(s), NEW f, Counts(f, s, n)
  PROVE  \A k \in 0 .. n : f[k] \in Nat
<1>1. /\ Len(s) \in Nat /\ \A i \in 1 .. Len(s) : s[i] \in ToSet(s)
  BY SequenceFacts DEF Sized
<1>2. \A k \in 0 .. n : f[k] = IF k = 0 THEN 0 ELSE f[k - 1] + TokenBytes(s[k])
  BY Zenon DEF Counts
<1>3. \A k \in 1 .. n : TokenBytes(s[k]) \in Nat
  BY <1>1 DEF Sized
<1> DEFINE Bad == {k \in 0 .. n : f[k] \notin Nat}
<1> SUFFICES ASSUME Bad # {}
             PROVE  FALSE
  OBVIOUS
<1>4. Bad \subseteq Nat
  BY <1>1
<1>5. PICK m \in Bad : \A k \in Bad : m <= k
  BY <1>4, LeastNumber
<1>6. m \in 0 .. n /\ m # 0
  BY <1>2
<1>7. m - 1 \in 0 .. n /\ m - 1 \notin Bad
  BY <1>1, <1>5, <1>6
<1> QED
  BY <1>1, <1>2, <1>3, <1>6, <1>7

(* Two sequences that start alike.                                          *)
Starts(s, t, n) == \A i \in 1 .. n : s[i] = t[i]

(* A number of bytes that was counted once is counted again.                *)
LEMMA CountsAgree ==
  ASSUME NEW s, NEW t, NEW n \in Nat, NEW m \in Nat, n <= m, NEW f, NEW g,
         Counts(f, s, n), Counts(g, t, m), Starts(s, t, n)
  PROVE  f[n] = g[n]
<1>1. \A k \in 0 .. n : f[k] = IF k = 0 THEN 0 ELSE f[k - 1] + TokenBytes(s[k])
  BY Zenon DEF Counts
<1>2. \A k \in 0 .. m : g[k] = IF k = 0 THEN 0 ELSE g[k - 1] + TokenBytes(t[k])
  BY Zenon DEF Counts
<1> DEFINE Bad == {k \in 0 .. n : f[k] # g[k]}
<1> SUFFICES ASSUME Bad # {}
             PROVE  FALSE
  OBVIOUS
<1>3. Bad \subseteq Nat
  OBVIOUS
<1>4. PICK k \in Bad : \A j \in Bad : k <= j
  BY <1>3, LeastNumber
<1>5. k \in 0 .. n /\ k \in 0 .. m /\ k # 0
  BY <1>1, <1>2
<1>6. k - 1 \in 0 .. n /\ k - 1 \notin Bad /\ s[k] = t[k]
  BY <1>4, <1>5 DEF Starts
<1> QED
  BY <1>1, <1>2, <1>5, <1>6

(* The bytes of sized tokens are a number.                                  *)
LEMMA BytesTyped ==
  ASSUME NEW s, Sized(s)
  PROVE  Bytes(s) \in Nat
<1>1. Len(s) \in Nat
  BY SequenceFacts DEF Sized
<1>2. PICK f : Counts(f, s, Len(s)) /\ Bytes(s) = f[Len(s)]
  BY <1>1, BytesCounted
<1> QED
  BY <1>1, <1>2, CountsTyped

(* One more token adds its bytes.                                           *)
LEMMA BytesAfter ==
  ASSUME NEW s, Sized(s), NEW t
  PROVE  Bytes(s \o <<t>>) = Bytes(s) + TokenBytes(t)
<1> DEFINE u == s \o <<t>>
           n == Len(s)
<1>1. /\ n \in Nat /\ Len(u) = n + 1 /\ u[n + 1] = t
      /\ \A i \in 1 .. n : u[i] = s[i]
  <2>1. s \in Seq(ToSet(s) \cup {t}) /\ <<t>> \in Seq(ToSet(s) \cup {t})
    <3>1. s \in Seq(ToSet(s))
      BY DEF Sized, IsSequence
    <3> QED
      BY <3>1
  <2> QED
    BY <2>1
<1> HIDE DEF u, n
<1>2. PICK f : Counts(f, s, n) /\ Bytes(s) = f[n]
  BY <1>1, BytesCounted DEF n
<1>3. PICK g : Counts(g, u, n + 1) /\ Bytes(u) = g[n + 1]
  BY <1>1, BytesCounted
<1>4. f[n] = g[n]
  <2>1. Starts(s, u, n)
    BY <1>1 DEF Starts
  <2>2. n + 1 \in Nat /\ n <= n + 1
    BY <1>1
  <2> QED
    BY ONLY <1>1, <1>2, <1>3, <2>1, <2>2, CountsAgree
<1>5. g[n + 1] = g[n] + TokenBytes(u[n + 1])
  <2>1. \A k \in 0 .. n + 1 : g[k] = IF k = 0 THEN 0 ELSE g[k - 1] + TokenBytes(u[k])
    BY <1>3, Zenon DEF Counts
  <2> QED
    BY <1>1, <2>1
<1>6. Bytes(u) = Bytes(s) + TokenBytes(t)
  BY <1>1, <1>2, <1>3, <1>4, <1>5
<1> QED
  BY <1>6 DEF u

(* The function that joins the first n sequences.                           *)
Joins(f, ss, n) == f = [i \in 1 .. n |-> IF i = 1 THEN ss[i] ELSE f[i - 1] \o ss[i]]

(* There is such a function, by the same induction as for bytes.            *)
LEMMA JoinExists ==
  ASSUME NEW ss, NEW n \in Nat
  PROVE  \E f : Joins(f, ss, n)
<1> DEFINE Bad == {k \in Nat : ~\E f : Joins(f, ss, k)}
<1> SUFFICES ASSUME n \in Bad
             PROVE  FALSE
  OBVIOUS
<1>1. PICK m \in Bad : \A k \in Bad : m <= k
  BY LeastNumber
<1>2. CASE m = 0
  <2> DEFINE f == [i \in 1 .. 0 |-> IF i = 1 THEN ss[i] ELSE ss[i]]
  <2>1. Joins(f, ss, 0)
    BY DEF Joins
  <2> QED
    BY <1>2, <2>1
<1>3. CASE m # 0
  <2>1. m - 1 \in Nat /\ m - 1 \notin Bad
    BY <1>1, <1>3
  <2>2. PICK f : Joins(f, ss, m - 1)
    BY <2>1
  <2> DEFINE last == IF m = 1 THEN ss[m] ELSE f[m - 1] \o ss[m]
             g == [i \in 1 .. m |-> IF i = m THEN last ELSE f[i]]
  <2>3. ASSUME NEW k \in 1 .. m
        PROVE  g[k] = IF k = 1 THEN ss[k] ELSE g[k - 1] \o ss[k]
    <3>1. \A j \in 1 .. m - 1 : f[j] = IF j = 1 THEN ss[j] ELSE f[j - 1] \o ss[j]
      BY <2>2, Zenon DEF Joins
    <3>2. CASE k = m
      <4>1. g[k] = last /\ (k # 1 => g[k - 1] = f[k - 1])
        BY <1>3, <3>2
      <4> QED
        BY <3>2, <4>1
    <3>3. CASE k # m
      <4>1. k \in 1 .. m - 1 /\ (k # 1 => k - 1 \in 1 .. m /\ k - 1 # m)
        BY <3>3
      <4>2. g[k] = f[k] /\ (k # 1 => g[k - 1] = f[k - 1])
        BY <3>3, <4>1
      <4> QED
        BY <3>1, <4>1, <4>2
    <3> QED
      BY <3>2, <3>3
  <2>4. DOMAIN g = 1 .. m /\ g = [i \in 1 .. m |-> g[i]]
    OBVIOUS
  <2> HIDE DEF g
  <2>5. Joins(g, ss, m)
    BY <2>3, <2>4 DEF Joins
  <2> QED
    BY <2>5
<1> QED
  BY <1>2, <1>3

(* Sequences over a set are joined to a sequence over it.                   *)
LEMMA FlattenTyped ==
  ASSUME NEW ss, IsSequence(ss), NEW S, \A s \in ToSet(ss) : s \in Seq(S)
  PROVE  FlattenSeq(ss) \in Seq(S)
<1> DEFINE n == Len(ss)
<1>1. /\ n \in Nat /\ \A i \in 1 .. n : ss[i] \in Seq(S)
      /\ ss = <<>> <=> n = 0
  BY SequenceFacts
<1>2. CASE n = 0
  BY <1>1, <1>2 DEF FlattenSeq
<1>3. CASE n # 0
  <2> DEFINE F == CHOOSE f : f = [i \in 1 .. Len(ss) |-> IF i = 1 THEN ss[i] ELSE f[i - 1] \o ss[i]]
  <2>1. \E f : f = [i \in 1 .. Len(ss) |-> IF i = 1 THEN ss[i] ELSE f[i - 1] \o ss[i]]
    BY <1>1, JoinExists DEF Joins
  <2>2. F = [i \in 1 .. Len(ss) |-> IF i = 1 THEN ss[i] ELSE F[i - 1] \o ss[i]]
    BY <2>1
  <2>3. FlattenSeq(ss) = F[n]
    BY <1>3 DEF FlattenSeq
  <2> HIDE DEF F
  <2>4. \A i \in 1 .. n : F[i] = IF i = 1 THEN ss[i] ELSE F[i - 1] \o ss[i]
    BY <2>2, Zenon
  <2> DEFINE Bad == {i \in 1 .. n : F[i] \notin Seq(S)}
  <2>5. Bad = {}
    <3> SUFFICES ASSUME Bad # {}
                 PROVE  FALSE
      OBVIOUS
    <3>1. Bad \subseteq Nat
      BY <1>1
    <3>2. PICK m \in Bad : \A i \in Bad : m <= i
      BY <3>1, LeastNumber
    <3>3. m \in 1 .. n /\ m # 1
      BY <1>1, <2>4, <3>2
    <3>4. m - 1 \in 1 .. n /\ F[m - 1] \in Seq(S)
      BY <1>1, <3>2, <3>3
    <3>5. F[m - 1] \o ss[m] \in Seq(S)
      BY <1>1, <3>3, <3>4
    <3> QED
      BY <2>4, <3>2, <3>3, <3>5
  <2> QED
    BY <1>1, <1>3, <2>3, <2>5
<1> QED
  BY <1>2, <1>3

(* Joined, sized sequences are sized.                                       *)
LEMMA SizedFlatten ==
  ASSUME NEW ss, IsSequence(ss), \A s \in ToSet(ss) : Sized(s)
  PROVE  Sized(FlattenSeq(ss))
<1> DEFINE S == UNION {ToSet(s) : s \in ToSet(ss)}
<1>1. \A t \in S : TokenBytes(t) \in Nat
  BY DEF Sized
<1>2. ASSUME NEW s \in ToSet(ss)
      PROVE  s \in Seq(S)
  <2>1. s \in Seq(ToSet(s)) /\ ToSet(s) \subseteq S
    BY DEF Sized, IsSequence
  <2> HIDE DEF S
  <2> QED
    BY <2>1
<1> HIDE DEF S
<1> QED
  BY <1>1, <1>2, FlattenTyped, SizedOf

-----------------------------------------------------------------------------
(* Scalars, Variants, DataValues and fields take a number of bytes each.    *)

Kinds ==
  {"flags", "u8", "variant", "u16", "u32", "i32", "u64", "date", "guid", "string", "name", "ids", "sizes", "chunk"}

(* The built-in types, and that none is the kind of a token.                *)
LEMMA WidthFacts ==
  /\ DOMAIN Width = {"Boolean", "SByte", "Byte", "Int16", "UInt16", "Int32", "UInt32", "Int64", "UInt64",
                     "Float", "Double", "DateTime", "Guid", "StatusCode"}
  /\ \A t \in DOMAIN Width : Width[t] \in Nat
  /\ BUILTIN_TYPE \cap Kinds = {}
<1>1. DOMAIN Width = {"Boolean", "SByte", "Byte", "Int16", "UInt16", "Int32", "UInt32", "Int64", "UInt64",
                      "Float", "Double", "DateTime", "Guid", "StatusCode"}
  BY DEF Width
<1>2. \A t \in DOMAIN Width : Width[t] \in Nat
  BY DEF Width
<1>3. BUILTIN_TYPE \cap Kinds = {}
  BY <1>1 DEF BUILTIN_TYPE, Kinds
<1> QED
  BY <1>1, <1>2, <1>3

(* Texts and buffers have a number of bytes.                                *)
LEMMA TextBytes ==
  ASSUME NEW v, IsScalar(v), v[1] \in {"str", "guid", "buf", "null"}
  PROVE  BytesOf(v) \in Nat
BY DEF IsScalar, BytesOf, Digits, Null

(* A scalar that does not make the writer throw.                            *)
LEMMA ScalarSized ==
  ASSUME NEW t \in BUILTIN_TYPE, NEW v, IsScalar(v), ~Throws(t, v)
  PROVE  TokenBytes(<<t, Written(t, v)>>) \in Nat
<1> DEFINE w == Written(t, v)
<1>1. TokenBytes(<<t, w>>) = ScalarBytes(t, w)
  <2> HIDE DEF w
  <2> QED
    BY WidthFacts DEF TokenBytes, Kinds
<1>2. CASE t \in DOMAIN Width
  <2>1. ScalarBytes(t, w) = Width[t]
    BY <1>2 DEF ScalarBytes
  <2> QED
    BY <1>1, <1>2, <2>1, WidthFacts
<1>3. CASE t \notin DOMAIN Width
  <2>1. t \in {"String", "ByteString"}
    BY <1>3 DEF BUILTIN_TYPE
  <2>2. v[1] \in {"str", "guid", "buf", "null"}
    BY <2>1 DEF Throws, Short, Long
  <2>3. w = v
    BY <2>1 DEF Written, Short, Long
  <2>4. BytesOf(v) \in Nat
    BY <2>2, TextBytes
  <2> QED
    BY <1>1, <1>3, <2>3, <2>4 DEF ScalarBytes
<1> QED
  BY <1>2, <1>3

(* A token for each of n indices.                                           *)
LEMMA SizedMap ==
  ASSUME NEW n \in Nat, NEW s, DOMAIN s = 1 .. n, s = [i \in 1 .. n |-> s[i]],
         \A i \in 1 .. n : TokenBytes(s[i]) \in Nat
  PROVE  Sized(s)
<1>1. IsSequence(s) /\ Len(s) = n
  BY SequenceMade
<1>2. \A t \in ToSet(s) : \E i \in 1 .. n : t = s[i]
  BY <1>1, SequenceFacts
<1> QED
  BY <1>1, <1>2 DEF Sized

(* Tokens of these kinds have a width of their own.                         *)
LEMMA FixedWidth ==
  ASSUME NEW k \in {"flags", "u8", "variant", "u16", "u32", "i32", "u64", "date", "guid"}, NEW c
  PROVE  TokenBytes(<<k, c>>) \in Nat
BY DEF TokenBytes

(* One token of such a kind.                                                *)
LEMMA SizedFixed ==
  ASSUME NEW k \in {"flags", "u8", "variant", "u16", "u32", "i32", "u64", "date", "guid"}, NEW c
  PROVE  Sized(<<<<k, c>>>>)
BY FixedWidth, SizedOne

(* What is no reason does not hold.                                         *)
LEMMA ReasonsJoin ==
  ASSUME NEW c, NEW r, NEW S
  PROVE  /\ Reason(c, r) \cup S = {} => ~c /\ S = {}
         /\ Reason(c, r) = {} => ~c
BY DEF Reason

(* A value that gives no reason to refuse it: its scalars have a size each. *)
LEMMA ValueSized ==
  ASSUME NEW t, NEW v, IsValue(v), ValueReasons(t, v) = {},
         NEW scalars, scalars = IF IsArray(v) THEN v[2] ELSE <<v>>
  PROVE  /\ IsSequence(scalars) /\ t \in BUILTIN_TYPE
         /\ \A i \in 1 .. Len(scalars) : TokenBytes(<<t, Written(t, scalars[i])>>) \in Nat
<1>1. t \in BUILTIN_TYPE
  BY DEF ValueReasons
<1>2. Reason(\E i \in DOMAIN scalars : Throws(t, scalars[i]), "value") = {}
  BY <1>1 DEF ValueReasons
<1>3. \A i \in DOMAIN scalars : ~Throws(t, scalars[i])
  BY <1>2, ReasonsJoin
<1>4. IsSequence(scalars) /\ \A i \in 1 .. Len(scalars) : IsScalar(scalars[i])
  <2>1. CASE IsArray(v)
    <3>1. scalars = v[2]
      BY <2>1
    <3>2. IsSequence(scalars) /\ \A s \in ToSet(scalars) : IsScalar(s)
      BY <2>1, <3>1 DEF IsValue
    <3> QED
      BY <3>2, SequenceFacts
  <2>2. CASE ~IsArray(v)
    <3>1. scalars = <<v>> /\ IsScalar(v)
      BY <2>2 DEF IsValue
    <3>2. DOMAIN scalars = 1 .. 1 /\ scalars = [i \in 1 .. 1 |-> scalars[i]] /\ scalars[1] = v
      BY <3>1
    <3>3. IsSequence(scalars) /\ Len(scalars) = 1
      BY <3>2, SequenceMade
    <3> QED
      BY <3>1, <3>2, <3>3
  <2> QED
    BY <2>1, <2>2
<1>5. DOMAIN scalars = 1 .. Len(scalars)
  BY <1>4, SequenceFacts
<1> QED
  BY <1>1, <1>3, <1>4, <1>5, ScalarSized

(* A Variant, with its type and its length.                                 *)
LEMMA VariantSized ==
  ASSUME NEW f, IsValue(f.value), VariantReasons(f) = {}
  PROVE  Sized(WriteVariant(f))
<1>1. CASE f = NoVariant
  <2>1. WriteVariant(f) = <<<<"variant", <<"none", FALSE>>>>>>
    BY <1>1 DEF WriteVariant
  <2> QED
    BY <2>1, SizedFixed
<1>2. CASE f # NoVariant
  <2> DEFINE array == IsArray(f.value)
             scalars == IF array THEN f.value[2] ELSE <<f.value>>
             t == f.type
             data == [i \in DOMAIN scalars |-> <<t, Written(t, scalars[i])>>]
  <2>1. WriteVariant(f) = <<<<"variant", <<t, array>>>>>> \o When(array, <<<<"i32", Len(scalars)>>>>) \o data
    BY <1>2 DEF WriteVariant
  <2>2. ValueReasons(t, f.value) = {}
    BY <1>2 DEF VariantReasons
  <2>3. /\ IsSequence(scalars)
        /\ \A i \in 1 .. Len(scalars) : TokenBytes(<<t, Written(t, scalars[i])>>) \in Nat
    BY <2>2, ValueSized
  <2> HIDE DEF array, scalars, t
  <2>4. Len(scalars) \in Nat /\ DOMAIN scalars = 1 .. Len(scalars)
    BY <2>3, SequenceFacts
  <2>5. DOMAIN data = 1 .. Len(scalars) /\ data = [i \in 1 .. Len(scalars) |-> data[i]]
    BY <2>4
  <2>6. \A i \in 1 .. Len(scalars) : TokenBytes(data[i]) \in Nat
    BY <2>3, <2>4
  <2>7. Sized(data)
    <3> HIDE DEF data
    <3> QED
      BY <2>4, <2>5, <2>6, SizedMap
  <2>8. Sized(<<<<"variant", <<t, array>>>>>>) /\ Sized(When(array, <<<<"i32", Len(scalars)>>>>))
    BY SizedFixed, SizedWhen
  <2> HIDE DEF data
  <2> QED
    BY <2>1, <2>7, <2>8, SizedConcat
<1> QED
  BY <1>1, <1>2

(* A DataValue, with the parts that its mask names.                         *)
LEMMA DataValueSized ==
  ASSUME NEW dv, IsValue(dv.value.value), VariantReasons(dv.value) = {}
  PROVE  Sized(WriteDataValue(dv))
<1> DEFINE mask == DataValueMask(dv)
           rest == [i \in DOMAIN DataValueParts |->
                      LET part == DataValueParts[i] IN When(part[1] \in mask, <<<<part[2], dv[part[1]][1]>>>>)]
<1>1. WriteDataValue(dv) = <<<<"flags", mask>>>> \o When("value" \in mask, WriteVariant(dv.value))
                           \o FlattenSeq(rest)
  BY DEF WriteDataValue
<1>2. /\ DOMAIN DataValueParts = 1 .. 5
      /\ \A i \in 1 .. 5 : DataValueParts[i][2] \in {"u16", "u32", "date"}
  <2>1. DOMAIN DataValueParts = 1 .. 5
    BY DEF DataValueParts
  <2>2. /\ DataValueParts[1][2] = "u32" /\ DataValueParts[2][2] = "date" /\ DataValueParts[3][2] = "date"
        /\ DataValueParts[4][2] = "u16" /\ DataValueParts[5][2] = "u16"
    BY DEF DataValueParts
  <2>3. \A i \in 1 .. 5 : i = 1 \/ i = 2 \/ i = 3 \/ i = 4 \/ i = 5
    OBVIOUS
  <2> QED
    BY <2>1, <2>2, <2>3
<1>3. DOMAIN rest = 1 .. 5 /\ rest = [i \in 1 .. 5 |-> rest[i]]
  BY <1>2
<1>4. ASSUME NEW i \in 1 .. 5
      PROVE  Sized(rest[i])
  <2> DEFINE kind == DataValueParts[i][2]
             name == DataValueParts[i][1]
  <2>1. Sized(<<<<kind, dv[name][1]>>>>)
    BY <1>2, SizedFixed
  <2>2. rest[i] = When(name \in mask, <<<<kind, dv[name][1]>>>>)
    BY <1>2
  <2> QED
    BY <2>1, <2>2, SizedWhen
<1> HIDE DEF rest, mask
<1>5. IsSequence(rest) /\ Len(rest) = 5
  BY <1>3, SequenceMade
<1>6. \A s \in ToSet(rest) : Sized(s)
  BY <1>4, <1>5, SequenceFacts
<1>7. Sized(FlattenSeq(rest))
  BY <1>5, <1>6, SizedFlatten
<1>8. Sized(<<<<"flags", mask>>>>) /\ Sized(When("value" \in mask, WriteVariant(dv.value)))
  BY SizedFixed, SizedWhen, VariantSized
<1> QED
  BY <1>1, <1>7, <1>8, SizedConcat

(* A field: its name, and its value in the encoding of the message.         *)
LEMMA FieldSized ==
  ASSUME NEW encoding \in FieldEncodings, NEW f, IsField(encoding, f), FieldReasons(encoding, f) = {}
  PROVE  Sized(WriteField(encoding, f))
<1>1. Sized(<<<<"name", f.name>>>>)
  <2>1. BytesOf(f.name) \in Nat
    BY TextBytes DEF IsField
  <2>2. TokenBytes(<<"name", f.name>>) = 2 + BytesOf(f.name)
    BY DEF TokenBytes
  <2> QED
    BY <2>1, <2>2, SizedOne
<1>2. CASE encoding = "variant"
  <2>1. VariantReasons(f.data) = {} /\ IsValue(f.data.value)
    BY <1>2 DEF FieldReasons, IsField, IsVariant
  <2>2. WriteField(encoding, f) = <<<<"name", f.name>>>> \o WriteVariant(f.data)
    BY <1>2 DEF WriteField
  <2> QED
    BY <1>1, <2>1, <2>2, VariantSized, SizedConcat
<1>3. CASE encoding = "datavalue"
  <2>1. VariantReasons(f.data.value) = {} /\ IsValue(f.data.value.value)
    BY <1>3 DEF FieldReasons, IsField, IsDataValue, IsVariant
  <2>2. WriteField(encoding, f) = <<<<"name", f.name>>>> \o WriteDataValue(f.data)
    BY <1>3 DEF WriteField
  <2> QED
    BY <1>1, <2>1, <2>2, DataValueSized, SizedConcat
<1>4. CASE encoding = "rawdata"
  <2> DEFINE t == f.data.type
             v == f.data.value
  <2>1. ValueReasons(t, v) = {} /\ IsValue(v) /\ ~IsArray(v)
    BY <1>4 DEF FieldReasons, IsField, IsVariant
  <2>2. /\ t \in BUILTIN_TYPE
        /\ TokenBytes(<<t, Written(t, v)>>) \in Nat
    <3> HIDE DEF t, v
    <3> DEFINE scalars == <<v>>
    <3>1. scalars = (IF IsArray(v) THEN v[2] ELSE <<v>>) /\ Len(scalars) = 1 /\ scalars[1] = v
      BY <2>1
    <3> HIDE DEF scalars
    <3>2. /\ t \in BUILTIN_TYPE
          /\ \A i \in 1 .. Len(scalars) : TokenBytes(<<t, Written(t, scalars[i])>>) \in Nat
      BY <2>1, <3>1, ValueSized
    <3> QED
      BY <3>1, <3>2
  <2>3. Sized(<<<<t, Written(t, v)>>>>)
    BY <2>2, SizedOne
  <2>4. WriteField(encoding, f) = <<<<"name", f.name>>>> \o <<<<t, Written(t, v)>>>>
    BY <1>4 DEF WriteField
  <2> QED
    BY <1>1, <2>3, <2>4, SizedConcat
<1> QED
  BY <1>2, <1>3, <1>4 DEF FieldEncodings

-----------------------------------------------------------------------------
(* Data set messages, headers and whole messages do.                        *)

(* A data set message that the encoder takes: its flags, header and fields. *)
LEMMA DsmSized ==
  ASSUME NEW d, DsmReasons(d) = {}, IsSequence(d.fields),
         \A f \in ToSet(d.fields) : IsField(d.fieldEncoding, f)
  PROVE  Sized(EncodeDataSetMessage(d))
<1> DEFINE f2 == DataSetFlags2(d)
           f1 == DataSetFlags1(d, f2)
           n == Len(d.fields)
           fields == [i \in DOMAIN d.fields |-> WriteField(d.fieldEncoding, d.fields[i])]
           body == <<<<"u16", n>>>> \o FlattenSeq(fields)
<1>1. EncodeDataSetMessage(d) =
        <<<<"flags", f1>>>> \o When("flags2" \in f1, <<<<"flags", f2>>>>)
        \o When("sequenceNumber" \in f1, <<<<"u16", Or(d.sequenceNumber, 0)>>>>)
        \o When("status" \in f1, <<<<"u16", Or(d.status, 0)>>>>)
        \o When("major" \in f1, <<<<"u32", Or(d.major, 0)>>>>)
        \o When("minor" \in f1, <<<<"u32", Or(d.minor, 0)>>>>)
        \o When("timestamp" \in f2, <<<<"date", Or(d.timestamp, 0)>>>>)
        \o When("picoseconds" \in f2, <<<<"u16", Or(d.picoseconds, 0)>>>>)
        \o When(d.messageType # "keepalive", body)
  BY DEF EncodeDataSetMessage
<1>2. n \in Nat /\ DOMAIN d.fields = 1 .. n /\ \A i \in 1 .. n : d.fields[i] \in ToSet(d.fields)
  BY SequenceFacts
<1>3. d.fieldEncoding \in FieldEncodings
  BY DEF DsmReasons
<1>4. ASSUME d.messageType # "keepalive"
      PROVE  Sized(body)
  <2>1. \A i \in 1 .. n : FieldReasons(d.fieldEncoding, d.fields[i]) = {}
    <3>1. UNION {FieldReasons(d.fieldEncoding, d.fields[i]) : i \in DOMAIN d.fields} = {}
      <4>1. d.messageType \in MessageTypes
        BY <1>3 DEF DsmReasons
      <4> QED
        BY <1>3, <1>4, <4>1 DEF DsmReasons
    <3> QED
      BY <1>2, <3>1
  <2>2. ASSUME NEW i \in 1 .. n
        PROVE  Sized(fields[i])
    BY <1>2, <1>3, <2>1, FieldSized
  <2>3. DOMAIN fields = 1 .. n /\ fields = [i \in 1 .. n |-> fields[i]]
    BY <1>2
  <2> HIDE DEF fields
  <2>4. IsSequence(fields) /\ Len(fields) = n
    BY <1>2, <2>3, SequenceMade
  <2>5. \A s \in ToSet(fields) : Sized(s)
    BY <2>2, <2>4, SequenceFacts
  <2>6. Sized(FlattenSeq(fields))
    BY <2>4, <2>5, SizedFlatten
  <2> QED
    BY <2>6, SizedFixed, SizedConcat
<1>5. Sized(When(d.messageType # "keepalive", body))
  BY <1>4, SizedWhen
<1> HIDE DEF f1, f2, body
<1>6. /\ Sized(<<<<"flags", f1>>>>) /\ Sized(When("flags2" \in f1, <<<<"flags", f2>>>>))
      /\ Sized(When("sequenceNumber" \in f1, <<<<"u16", Or(d.sequenceNumber, 0)>>>>))
      /\ Sized(When("status" \in f1, <<<<"u16", Or(d.status, 0)>>>>))
      /\ Sized(When("major" \in f1, <<<<"u32", Or(d.major, 0)>>>>))
      /\ Sized(When("minor" \in f1, <<<<"u32", Or(d.minor, 0)>>>>))
      /\ Sized(When("timestamp" \in f2, <<<<"date", Or(d.timestamp, 0)>>>>))
      /\ Sized(When("picoseconds" \in f2, <<<<"u16", Or(d.picoseconds, 0)>>>>))
  BY SizedFixed, SizedWhen
<1> QED
  BY <1>1, <1>5, <1>6, SizedConcat

(* The header, for an identifier that the encoder takes.                    *)
LEMMA HeaderSized ==
  ASSUME NEW m, IsSequence(m.ids), IsOptional(m.publisherId), PublisherIdReasons(m.publisherId) = {}
  PROVE  Sized(WriteHeader(m))
<1> DEFINE f2 == ExtendedFlags2(m)
           f1 == ExtendedFlags1(m, f2)
           f0 == UADPFlags(m, f1)
           ext == "ext1" \in f0
           id == IF Has(m.publisherId) THEN Get(m.publisherId) ELSE Null
           type == IF ext /\ TypeBits(m.publisherId) # {} THEN PublisherIdType(id) ELSE "u8"
           given == IF type = "string" THEN id ELSE id[2]
<1>1. WriteHeader(m) =
        <<<<"flags", f0>>>> \o When(ext, <<<<"flags", f1>>>>)
        \o When(ext /\ "ext2" \in f1, <<<<"flags", f2>>>>)
        \o When("publisherId" \in f0, <<<<type, given>>>>)
        \o When(ext /\ "classId" \in f1, <<<<"guid", Or(m.dataSetClassId, Null)>>>>)
        \o When("groupHeader" \in f0, WriteGroupHeader(m.groupHeader[1]))
        \o When("payloadHeader" \in f0, <<<<"ids", m.ids>>>>)
        \o When(ext /\ "timestamp" \in f1, <<<<"date", Or(m.timestamp, 0)>>>>)
        \o When(ext /\ "picoseconds" \in f1, <<<<"u16", Or(m.picoseconds, 0)>>>>)
  BY DEF WriteHeader
<1>2. type \in {"string", "u64", "u32", "u16", "u8"}
  BY DEF PublisherIdType
<1>3. type = "string" => IsScalar(id) /\ id[1] \in {"str", "guid"}
  <2> SUFFICES ASSUME type = "string"
               PROVE  IsScalar(id) /\ id[1] \in {"str", "guid"}
    OBVIOUS
  <2>1. TypeBits(m.publisherId) # {} /\ PublisherIdType(id) = "string"
    OBVIOUS
  <2>2. Has(m.publisherId) /\ id = Get(m.publisherId)
    BY <2>1 DEF TypeBits
  <2>3. IsScalar(id)
    BY <2>2 DEF IsOptional, Has
  <2>4. id[1] \in {"str", "guid", "big", "num"}
    <3>1. ~(CASE id[1] \in {"str", "guid"} -> FALSE
              [] id[1] = "big" -> id[2] \notin 0 .. U64
              [] id[1] = "num" -> id[2] \notin 0 .. U32
              [] OTHER -> TRUE)
      BY <2>2 DEF PublisherIdReasons, Reason
    <3> HIDE DEF id
    <3> QED
      BY <3>1
  <2>5. id[1] # "big"
    <3> HIDE DEF id
    <3> QED
      BY <2>1 DEF PublisherIdType
  <2>6. id[1] # "num"
    <3> SUFFICES ASSUME id[1] = "num"
                 PROVE  FALSE
      OBVIOUS
    <3>1. id[2] \in Int
      BY <2>3 DEF IsScalar
    <3> HIDE DEF id
    <3> QED
      BY <2>1, <3>1, WidthsAssumption DEF PublisherIdType
  <2> QED
    BY <2>3, <2>4, <2>5, <2>6
<1>4. Sized(<<<<type, given>>>>)
  <2>1. CASE type = "string"
    <3>1. BytesOf(id) \in Nat
      BY <1>3, <2>1, TextBytes
    <3>2. given = id
      BY <2>1
    <3>3. TokenBytes(<<"string", given>>) = 4 + BytesOf(id)
      <4> HIDE DEF given, id
      <4> QED
        BY <3>2 DEF TokenBytes
    <3>4. TokenBytes(<<type, given>>) \in Nat
      BY <2>1, <3>1, <3>3
    <3> QED
      BY <3>4, SizedOne
  <2>2. CASE type # "string"
    BY <1>2, <2>2, SizedFixed
  <2> QED
    BY <2>1, <2>2
<1>5. Sized(<<<<"ids", m.ids>>>>)
  <2>1. TokenBytes(<<"ids", m.ids>>) = 1 + 2 * Len(m.ids)
    BY DEF TokenBytes
  <2>2. Len(m.ids) \in Nat
    BY SequenceFacts
  <2> QED
    BY <2>1, <2>2, SizedOne
<1>6. ASSUME NEW gh
      PROVE  Sized(WriteGroupHeader(gh))
  <2>1. WriteGroupHeader(gh) =
          <<<<"u16", gh.writerGroupId>>>> \o <<<<"u32", Or(gh.groupVersion, 0)>>>>
          \o <<<<"u16", Or(gh.networkMessageNumber, 0)>>>> \o <<<<"u16", gh.sequenceNumber>>>>
    BY DEF WriteGroupHeader
  <2>2. /\ Sized(<<<<"u16", gh.writerGroupId>>>>) /\ Sized(<<<<"u32", Or(gh.groupVersion, 0)>>>>)
        /\ Sized(<<<<"u16", Or(gh.networkMessageNumber, 0)>>>>) /\ Sized(<<<<"u16", gh.sequenceNumber>>>>)
    BY SizedFixed
  <2> QED
    BY <2>1, <2>2, SizedConcat
<1> DEFINE p1 == <<<<"flags", f0>>>>
           p2 == When(ext, <<<<"flags", f1>>>>)
           p3 == When(ext /\ "ext2" \in f1, <<<<"flags", f2>>>>)
           p4 == When("publisherId" \in f0, <<<<type, given>>>>)
           p5 == When(ext /\ "classId" \in f1, <<<<"guid", Or(m.dataSetClassId, Null)>>>>)
           p6 == When("groupHeader" \in f0, WriteGroupHeader(m.groupHeader[1]))
           p7 == When("payloadHeader" \in f0, <<<<"ids", m.ids>>>>)
           p8 == When(ext /\ "timestamp" \in f1, <<<<"date", Or(m.timestamp, 0)>>>>)
           p9 == When(ext /\ "picoseconds" \in f1, <<<<"u16", Or(m.picoseconds, 0)>>>>)
<1>7. /\ Sized(p1) /\ Sized(p2) /\ Sized(p3) /\ Sized(p4) /\ Sized(p5)
      /\ Sized(p6) /\ Sized(p7) /\ Sized(p8) /\ Sized(p9)
  <2> HIDE DEF f0, f1, f2, ext, type, given
  <2> QED
    BY <1>4, <1>5, <1>6, SizedFixed, SizedWhen
<1>8. WriteHeader(m) = p1 \o p2 \o p3 \o p4 \o p5 \o p6 \o p7 \o p8 \o p9
  BY <1>1
<1> HIDE DEF p1, p2, p3, p4, p5, p6, p7, p8, p9
<1>9. Sized(p1 \o p2 \o p3 \o p4 \o p5)
  BY <1>7, SizedConcat
<1> QED
  BY <1>7, <1>8, <1>9, SizedConcat

(* What the reasons not to encode a message leave to be encoded.            *)
LEMMA Encodable ==
  ASSUME NEW m, NEW limit, UadpReasons(m, limit) = {}
  PROVE  /\ HeaderReasons(m) = {} /\ PublisherIdReasons(m.publisherId) = {}
         /\ \A i \in DOMAIN m.payload : DsmReasons(m.payload[i]) = {}
         /\ IsSplit(m, limit) => ~(ChunkSize(m, limit, Bytes(Whole(m))) <= 0)
<1> DEFINE early == HeaderReasons(m) \cup UNION {DsmReasons(m.payload[i]) : i \in DOMAIN m.payload}
           size == Reason(/\ m.ids # <<>> /\ Len(m.payload) > 1
                          /\ \E i \in DOMAIN m.payload : Bytes(EncodeDataSetMessage(m.payload[i])) > U16, "size")
           small == IsSplit(m, limit) /\ ChunkSize(m, limit, Bytes(Whole(m))) <= 0
<1>1. UadpReasons(m, limit) = IF early # {} THEN early ELSE size \cup Reason(small, "mtu")
  BY DEF UadpReasons
<1> HIDE DEF early, size, small
<1>2. early = {} /\ Reason(small, "mtu") = {}
  BY <1>1
<1>3. ~small
  BY <1>2, ReasonsJoin
<1>4. HeaderReasons(m) = {} /\ \A i \in DOMAIN m.payload : DsmReasons(m.payload[i]) = {}
  BY <1>2 DEF early
<1>5. PublisherIdReasons(m.publisherId) = {}
  BY <1>4 DEF HeaderReasons
<1> QED
  BY <1>3, <1>4, <1>5 DEF small

(* A network message: its header, sizes and data set messages.              *)
LEMMA WholeSized ==
  ASSUME NEW m, IsMessage(m), PublisherIdReasons(m.publisherId) = {},
         \A i \in DOMAIN m.payload : DsmReasons(m.payload[i]) = {}
  PROVE  Sized(Whole(m))
<1> DEFINE bodies == [i \in DOMAIN m.payload |-> EncodeDataSetMessage(m.payload[i])]
           sizes == [i \in DOMAIN bodies |-> Bytes(bodies[i])]
           n == Len(m.payload)
<1>1. Whole(m) = WriteHeader(m) \o SizeArray(m, bodies) \o FlattenSeq(bodies)
  BY DEF Whole
<1>2. /\ n \in Nat /\ DOMAIN m.payload = 1 .. n
      /\ \A i \in 1 .. n : m.payload[i] \in ToSet(m.payload)
  BY SequenceFacts DEF IsMessage
<1>3. ASSUME NEW i \in 1 .. n
      PROVE  Sized(bodies[i])
  BY <1>2, DsmSized DEF IsMessage, IsDsm
<1>4. DOMAIN bodies = 1 .. n /\ bodies = [i \in 1 .. n |-> bodies[i]]
  BY <1>2
<1> HIDE DEF bodies
<1>5. IsSequence(bodies) /\ Len(bodies) = n
  BY <1>2, <1>4, SequenceMade
<1>6. Sized(FlattenSeq(bodies))
  <2>1. \A s \in ToSet(bodies) : Sized(s)
    BY <1>3, <1>5, SequenceFacts
  <2> QED
    BY <1>5, <2>1, SizedFlatten
<1>7. Sized(SizeArray(m, bodies))
  <2>1. DOMAIN sizes = 1 .. n /\ sizes = [i \in 1 .. n |-> sizes[i]]
    BY <1>4
  <2> HIDE DEF sizes
  <2>2. Len(sizes) = n
    BY <1>2, <2>1, SequenceMade
  <2>3. TokenBytes(<<"sizes", sizes>>) = 2 * Len(sizes)
    BY DEF TokenBytes
  <2>4. Sized(<<<<"sizes", sizes>>>>)
    BY <1>2, <2>2, <2>3, SizedOne
  <2>5. SizeArray(m, bodies) = When(m.ids # <<>> /\ Len(bodies) > 1, <<<<"sizes", sizes>>>>)
    BY DEF SizeArray, sizes
  <2> QED
    BY <2>4, <2>5, SizedWhen
<1>8. Sized(WriteHeader(m))
  BY HeaderSized DEF IsMessage
<1> QED
  BY <1>1, <1>6, <1>7, <1>8, SizedConcat

-----------------------------------------------------------------------------
(* The chunks of a message.                                                 *)

(* The quotient, rounded down.                                              *)
LEMMA Division ==
  ASSUME NEW a \in Nat, NEW d \in Nat, d > 0
  PROVE  /\ a \div d \in Nat
         /\ (a \div d) * d <= a
         /\ a < (a \div d) * d + d
OBVIOUS

(* Where the pieces begin.                                                  *)
LEMMA Multiples ==
  ASSUME NEW i \in Nat, NEW h \in Nat, NEW d \in Nat
  PROVE  /\ i * d \in Nat
         /\ i <= h => i * d <= h * d
         /\ i < h => i * d + d <= h * d
<1>1. i * d \in Nat /\ h * d \in Nat
  OBVIOUS
<1>2. ASSUME i <= h PROVE i * d <= h * d
  <2>1. (h - i) * d \in Nat
    BY <1>2
  <2>2. (h - i) * d = h * d - i * d
    OBVIOUS
  <2> QED
    BY <1>1, <2>1, <2>2
<1>3. ASSUME i < h PROVE i * d + d <= h * d
  <2>1. (h - i - 1) * d \in Nat
    BY <1>3
  <2>2. (h - i - 1) * d = h * d - i * d - d
    OBVIOUS
  <2> QED
    BY <1>1, <2>1, <2>2
<1> QED
  BY <1>1, <1>2, <1>3

(* The smaller of two numbers.                                              *)
LEMMA MinOfTwo ==
  ASSUME NEW a \in Int, NEW b \in Int
  PROVE  Min({a, b}) = IF a <= b THEN a ELSE b
<1>1. \A x \in {a, b} : (\A y \in {a, b} : x =< y) <=> x = (IF a <= b THEN a ELSE b)
  OBVIOUS
<1>2. (IF a <= b THEN a ELSE b) \in {a, b}
  OBVIOUS
<1> DEFINE least == IF a <= b THEN a ELSE b
<1> HIDE DEF least
<1>3. \A x \in {a, b} : (\A y \in {a, b} : x =< y) <=> x = least
  BY <1>1 DEF least
<1>4. least \in {a, b}
  BY <1>2 DEF least
<1>5. Min({a, b}) = least
  BY <1>3, <1>4, Zenon DEF Min
<1> QED
  BY <1>5 DEF least

(* Equal pieces, and what is left of a message.                             *)
Tiles(n, total, most) ==
  \A i \in 1 .. n :
    LET at == (i - 1) * most
        len == Min({most, total - (i - 1) * most})
    IN  /\ at \in Nat /\ len \in Nat /\ len <= most /\ i * most = at + most
        /\ i < n => len = most
        /\ i = n => at + len = total

LEMMA PiecesTile ==
  ASSUME NEW total \in Nat, NEW most \in Nat, total > 0, most > 0,
         NEW n, n = (total + most - 1) \div most
  PROVE  n \in Nat /\ n >= 1 /\ Tiles(n, total, most)
<1>1. n \in Nat /\ n * most <= total + most - 1 /\ total + most - 1 < n * most + most
  BY Division
<1>2. n >= 1
  <2> SUFFICES ASSUME n = 0
               PROVE  FALSE
    BY <1>1
  <2>1. n * most = 0
    OBVIOUS
  <2> QED
    BY <1>1, <2>1
<1>3. ASSUME NEW i \in 1 .. n
      PROVE  LET at == (i - 1) * most
                 len == Min({most, total - (i - 1) * most})
             IN  /\ at \in Nat /\ len \in Nat /\ len <= most /\ i * most = at + most
                 /\ i < n => len = most
                 /\ i = n => at + len = total
  <2> DEFINE at == (i - 1) * most
  <2>1. i - 1 \in Nat /\ i \in Nat
    BY <1>1
  <2>2. at \in Nat /\ at + most <= n * most /\ i * most \in Nat
    BY <1>1, <2>1, Multiples
  <2>3. i < n => i * most + most <= n * most
    BY <1>1, <2>1, Multiples
  <2>4. i * most = at + most
    BY <2>1
  <2>5. Min({most, total - at}) = IF most <= total - at THEN most ELSE total - at
    BY <2>2, MinOfTwo
  <2>6. i = n => i * most = n * most
    OBVIOUS
  <2>7. n * most \in Nat
    BY <1>1
  <2> HIDE DEF at
  <2>8. at < total
    BY <1>1, <2>2, <2>7
  <2>9. i < n => at + most + most <= n * most
    BY <2>3, <2>4
  <2>10. i = n => at + most = n * most
    BY <2>4, <2>6
  <2> DEFINE end == n * most
  <2>11. /\ end \in Nat /\ end <= total + most - 1 /\ total + most - 1 < end + most
         /\ i < n => at + most + most <= end
         /\ i = n => at + most = end
    BY <1>1, <2>7, <2>9, <2>10
  <2> DEFINE len == Min({most, total - at})
  <2>12. len = IF most <= total - at THEN most ELSE total - at
    BY <2>5
  <2> HIDE DEF end, len
  <2>13. len \in Nat /\ len <= most /\ (i < n => len = most) /\ (i = n => at + len = total)
    BY <2>2, <2>8, <2>11, <2>12
  <2> QED
    BY <2>2, <2>4, <2>13 DEF at, len
<1> QED
  BY <1>1, <1>2, <1>3 DEF Tiles

(* The header of a chunk is as long whatever the chunk is.                  *)
HeaderOf(m, c) ==
  [publisherId |-> m.publisherId, dataSetClassId |-> m.dataSetClassId,
   groupHeader |-> m.groupHeader, timestamp |-> m.timestamp, picoseconds |-> m.picoseconds,
   ids |-> <<IF m.ids = <<>> THEN 0 ELSE m.ids[1]>>, promoted |-> FALSE, chunk |-> <<c>>]

(* The header of a chunk says that it is one, and nothing else.             *)
LEMMA ChunkFlags ==
  ASSUME NEW m, NEW c
  PROVE  ExtendedFlags2(HeaderOf(m, c)) = {"chunk"}
<1> DEFINE h == HeaderOf(m, c)
<1>1. h.promoted = FALSE /\ h.chunk # <<>>
  BY DEF HeaderOf
<1> HIDE DEF h
<1>2. ExtendedFlags2(h) = {"chunk"}
  BY <1>1 DEF ExtendedFlags2, Reason, Has
<1> QED
  BY <1>2 DEF h

(* Its header does not depend on which chunk it is.                         *)
LEMMA SameHeader ==
  ASSUME NEW m, NEW c, NEW d
  PROVE  ChunkHeader(m, c) = ChunkHeader(m, d)
<1> DEFINE a == HeaderOf(m, c)
           b == HeaderOf(m, d)
<1>1. ChunkHeader(m, c) = WriteHeader(a) /\ ChunkHeader(m, d) = WriteHeader(b)
  BY DEF ChunkHeader, HeaderOf
<1>2. /\ a.publisherId = b.publisherId /\ a.dataSetClassId = b.dataSetClassId
      /\ a.groupHeader = b.groupHeader /\ a.timestamp = b.timestamp /\ a.picoseconds = b.picoseconds
      /\ a.ids = b.ids
  BY DEF HeaderOf
<1>3. ExtendedFlags2(a) = ExtendedFlags2(b)
  BY ChunkFlags
<1> HIDE DEF a, b
<1>4. ExtendedFlags1(a, ExtendedFlags2(a)) = ExtendedFlags1(b, ExtendedFlags2(b))
  BY <1>2, <1>3 DEF ExtendedFlags1
<1>5. UADPFlags(a, ExtendedFlags1(a, ExtendedFlags2(a))) = UADPFlags(b, ExtendedFlags1(b, ExtendedFlags2(b)))
  BY <1>2, <1>4 DEF UADPFlags
<1>6. WriteHeader(a) = WriteHeader(b)
  BY <1>2, <1>3, <1>4, <1>5 DEF WriteHeader
<1> QED
  BY <1>1, <1>6

(* It has a size if the publisher's identifier has.                         *)
LEMMA ChunkHeaderSized ==
  ASSUME NEW m, IsMessage(m), PublisherIdReasons(m.publisherId) = {}, NEW c
  PROVE  Sized(ChunkHeader(m, c))
<1> DEFINE h == HeaderOf(m, c)
<1>1. ChunkHeader(m, c) = WriteHeader(h)
  BY DEF ChunkHeader, HeaderOf
<1>2. h.publisherId = m.publisherId /\ h.ids = <<IF m.ids = <<>> THEN 0 ELSE m.ids[1]>>
  BY DEF HeaderOf
<1> HIDE DEF h
<1>3. IsSequence(h.ids)
  <2>1. DOMAIN h.ids = 1 .. 1 /\ h.ids = [i \in 1 .. 1 |-> h.ids[i]]
    BY <1>2
  <2> QED
    BY <2>1, SequenceMade
<1> QED
  BY <1>1, <1>2, <1>3, HeaderSized DEF IsMessage

(* What one chunk takes on the wire.                                        *)
LEMMA ChunkBytes ==
  ASSUME NEW m, IsMessage(m), PublisherIdReasons(m.publisherId) = {}, NEW c, NEW d
  PROVE  /\ Bytes(ChunkHeader(m, d)) \in Nat
         /\ Bytes(EncodeChunk(m, c)) = Bytes(ChunkHeader(m, d)) + (14 + c.len)
<1>1. Sized(ChunkHeader(m, c)) /\ ChunkHeader(m, c) = ChunkHeader(m, d)
  BY ChunkHeaderSized, SameHeader
<1>2. Bytes(EncodeChunk(m, c)) = Bytes(ChunkHeader(m, c)) + TokenBytes(<<"chunk", c>>)
  BY <1>1, BytesAfter DEF EncodeChunk
<1>3. TokenBytes(<<"chunk", c>>) = 14 + c.len
  BY DEF TokenBytes
<1> QED
  BY <1>1, <1>2, <1>3, BytesTyped

(* However long the message and whatever its header: its chunks tile it,    *)
(* and none exceeds the mtu.                                                *)
LEMMA ChunksTileAndFit ==
  ASSUME NEW m, NEW limit \in Int, IsMessage(m), UadpReasons(m, limit) = {}, IsSplit(m, limit),
         NEW total, total = Bytes(Whole(m)), NEW cs, cs = SplitIntoChunks(m, limit, total)
  PROVE  /\ \E n \in Nat : n >= 1 /\ DOMAIN cs = 1 .. n /\ cs = [i \in 1 .. n |-> cs[i]] /\ Len(cs) = n
         /\ cs[1].offset = 0 /\ cs[Len(cs)].offset + cs[Len(cs)].len = total
         /\ \A i \in DOMAIN cs : cs[i].total = total
         /\ \A i \in 2 .. Len(cs) : cs[i].offset = cs[i - 1].offset + cs[i - 1].len
         /\ \A i \in DOMAIN cs : Bytes(EncodeChunk(m, cs[i])) <= limit
<1> DEFINE empty == ChunkAt(m, total, 0, 0)
           h == Bytes(ChunkHeader(m, empty))
           most == ChunkSize(m, limit, total)
           n == (total + most - 1) \div most
<1>1. /\ PublisherIdReasons(m.publisherId) = {} /\ total \in Nat /\ ~(most <= 0)
  <2>1. /\ PublisherIdReasons(m.publisherId) = {} /\ ~(most <= 0)
        /\ \A i \in DOMAIN m.payload : DsmReasons(m.payload[i]) = {}
    BY Encodable
  <2> QED
    BY <2>1, WholeSized, BytesTyped
<1>2. h \in Nat /\ most = limit - (h + 26)
  <2>1. empty.len = 0
    BY DEF ChunkAt
  <2>2. /\ h \in Nat /\ Bytes(EncodeChunk(m, empty)) = h + (14 + empty.len)
    BY <1>1, ChunkBytes
  <2>3. most = limit - (Bytes(EncodeChunk(m, empty)) + 12)
    BY DEF ChunkSize, Overhead
  <2> HIDE DEF h, most, empty
  <2> QED
    BY <2>1, <2>2, <2>3
<1>3. ASSUME NEW c
      PROVE  Bytes(EncodeChunk(m, c)) = h + (14 + c.len)
  BY <1>1, ChunkBytes
<1>4. total > limit
  BY DEF IsSplit
<1>5. cs = [i \in 1 .. n |-> ChunkAt(m, total, (i - 1) * most, Min({most, total - (i - 1) * most}))]
  BY DEF SplitIntoChunks, Pieces
<1> HIDE DEF h, most, empty
<1>6. most \in Nat /\ most > 0 /\ total > 0
  BY <1>1, <1>2, <1>4
<1>n. n = (total + most - 1) \div most
  OBVIOUS
<1> HIDE DEF n
<1>7. /\ n \in Nat /\ n >= 1
      /\ \A i \in 1 .. n :
           LET at == (i - 1) * most
               len == Min({most, total - (i - 1) * most})
           IN  /\ at \in Nat /\ len \in Nat /\ len <= most /\ i * most = at + most
               /\ i < n => len = most
               /\ i = n => at + len = total
  <2>1. n \in Nat /\ n >= 1 /\ Tiles(n, total, most)
    BY <1>1, <1>6, <1>n, PiecesTile
  <2> QED
    BY <2>1 DEF Tiles
<1>8. /\ DOMAIN cs = 1 .. n /\ cs = [i \in 1 .. n |-> cs[i]] /\ Len(cs) = n
  <2>1. DOMAIN cs = 1 .. n /\ cs = [i \in 1 .. n |-> cs[i]]
    BY <1>5
  <2> QED
    BY <1>7, <2>1, SequenceMade
<1>9. ASSUME NEW i \in 1 .. n
      PROVE  /\ cs[i].offset = (i - 1) * most /\ cs[i].total = total
             /\ cs[i].len = Min({most, total - (i - 1) * most})
  <2>1. cs[i] = ChunkAt(m, total, (i - 1) * most, Min({most, total - (i - 1) * most}))
    BY <1>5
  <2> QED
    BY <2>1 DEF ChunkAt
<1>10. cs[1].offset = 0 /\ cs[n].offset + cs[n].len = total
  <2>1. 1 \in 1 .. n /\ n \in 1 .. n /\ (1 - 1) * most = 0
    BY <1>6, <1>7
  <2> QED
    BY <1>7, <1>9, <2>1
<1>11. ASSUME NEW i \in 2 .. n
       PROVE  cs[i].offset = cs[i - 1].offset + cs[i - 1].len
  <2>1. i \in 1 .. n /\ i - 1 \in 1 .. n /\ i - 1 < n
    BY <1>7
  <2>2. (i - 1) * most = ((i - 1) - 1) * most + most /\ cs[i - 1].len = most
    BY <1>7, <1>9, <2>1
  <2> QED
    BY <1>9, <2>1, <2>2
<1>12. ASSUME NEW i \in 1 .. n
       PROVE  Bytes(EncodeChunk(m, cs[i])) <= limit
  <2>1. cs[i].len \in Nat /\ cs[i].len <= most
    BY <1>7, <1>9
  <2> QED
    BY <1>2, <1>3, <2>1
<1> QED
  BY <1>7, <1>8, <1>9, <1>10, <1>11, <1>12

-----------------------------------------------------------------------------
(* Reading a header part by part.                                           *)

(* Sequences stay sequences when they are joined.                           *)
LEMMA Concatenated ==
  ASSUME NEW s, NEW t, IsSequence(s), IsSequence(t)
  PROVE  IsSequence(s \o t)
<1>1. s \in Seq(ToSet(s) \cup ToSet(t)) /\ t \in Seq(ToSet(s) \cup ToSet(t))
  <2>1. s \in Seq(ToSet(s)) /\ t \in Seq(ToSet(t))
    BY DEF IsSequence
  <2> QED
    BY <2>1
<1>2. s \o t \in Seq(ToSet(s) \cup ToSet(t))
  BY <1>1
<1> QED
  BY <1>2, SequenceOf

(* In which order they are joined makes no difference.                      *)
LEMMA Associative ==
  ASSUME NEW s, NEW t, NEW u, IsSequence(s), IsSequence(t), IsSequence(u)
  PROVE  (s \o t) \o u = s \o (t \o u)
<1> DEFINE S == ToSet(s) \cup ToSet(t) \cup ToSet(u)
<1>1. s \in Seq(S) /\ t \in Seq(S) /\ u \in Seq(S)
  <2>1. s \in Seq(ToSet(s)) /\ t \in Seq(ToSet(t)) /\ u \in Seq(ToSet(u))
    BY DEF IsSequence
  <2> QED
    BY <2>1
<1> HIDE DEF S
<1> QED
  BY <1>1

(* The empty sequence is one.                                               *)
LEMMA EmptySequence == IsSequence(<<>>)
BY SizedNone DEF Sized

(* A part of one token, or of none, is one.                                 *)
LEMMA WhenSequence ==
  ASSUME NEW c, NEW x
  PROVE  IsSequence(When(c, <<x>>)) /\ IsSequence(<<x>>)
<1>1. DOMAIN <<x>> = 1 .. 1 /\ <<x>> = [i \in 1 .. 1 |-> <<x>>[i]]
  OBVIOUS
<1>2. IsSequence(<<x>>)
  BY <1>1, SequenceMade
<1> QED
  BY <1>2, EmptySequence DEF When

(* The first token of a joined sequence, and those after it.                *)
LEMMA FirstJoined ==
  ASSUME NEW x, NEW r, IsSequence(r)
  PROVE  /\ <<x>> \o r # <<>> /\ (<<x>> \o r)[1] = x /\ Tail(<<x>> \o r) = r
         /\ <<>> \o r = r
<1>1. r \in Seq(ToSet(r) \cup {x}) /\ <<x>> \in Seq(ToSet(r) \cup {x})
  <2>1. r \in Seq(ToSet(r))
    BY DEF IsSequence
  <2> QED
    BY <2>1
<1> QED
  BY <1>1

(* A reader on track, and its steps over one token.                         *)
At(tokens, read) == [rest |-> tokens, ok |-> TRUE, val |-> read]
With(h, name, value) == [h EXCEPT ![name] = value]

LEMMA OnTrack ==
  ASSUME NEW s, NEW v
  PROVE  At(s, v).rest = s /\ At(s, v).ok = TRUE /\ At(s, v).val = v
BY DEF At

(* The value read is replaced, and nothing else.                            *)
LEMMA RecordChanged ==
  ASSUME NEW s, NEW b, NEW v, NEW w
  PROVE  [[rest |-> s, ok |-> b, val |-> v] EXCEPT !.val = w] = [rest |-> s, ok |-> b, val |-> w]
OBVIOUS

(* The same for a reader on track.                                          *)
LEMMA ValueSet ==
  ASSUME NEW s, NEW v, NEW w
  PROVE  [At(s, v) EXCEPT !.val = w] = At(s, w)
<1> DEFINE b == TRUE
<1>1. At(s, v) = [rest |-> s, ok |-> b, val |-> v] /\ At(s, w) = [rest |-> s, ok |-> b, val |-> w]
  BY Zenon DEF At
<1> HIDE DEF b
<1>2. [[rest |-> s, ok |-> b, val |-> v] EXCEPT !.val = w] = [rest |-> s, ok |-> b, val |-> w]
  BY RecordChanged, Zenon
<1> QED
  BY <1>1, <1>2, Zenon

(* A token of the kind that is expected is taken off.                       *)
LEMMA TokenRead ==
  ASSUME NEW kind, NEW x, NEW r, IsSequence(r), NEW v
  PROVE  Read(At(<<<<kind, x>>>> \o r, v), kind) = At(r, x)
<1> DEFINE s == <<<<kind, x>>>> \o r
           p == At(s, v)
<1>1. s # <<>> /\ s[1] = <<kind, x>> /\ Tail(s) = r
  BY FirstJoined
<1>2. p.ok = TRUE /\ p.rest = s
  BY OnTrack
<1> HIDE DEF s, p
<1> DEFINE c == p.ok /\ p.rest # <<>> /\ p.rest[1][1] = kind
           read == [rest |-> Tail(p.rest), ok |-> TRUE, val |-> p.rest[1][2]]
           lost == [p EXCEPT !.ok = FALSE]
<1>3. Read(p, kind) = At(r, x)
  <2>1. Read(p, kind) = IF c THEN read ELSE lost
    BY Zenon DEF Read
  <2>2. c
    BY <1>1, <1>2
  <2>3. Tail(p.rest) = r /\ p.rest[1][2] = x
    BY <1>1, <1>2
  <2>4. read = At(r, x)
    BY <2>3, Zenon DEF At
  <2> HIDE DEF c, read, lost
  <2> QED
    BY <2>1, <2>2, <2>4
<1> QED
  BY <1>3 DEF s, p

(* So is one that is read under a condition that holds.                     *)
LEMMA TokenReadIf ==
  ASSUME NEW kind, NEW x, NEW r, IsSequence(r), NEW v, NEW b, b
  PROVE  ReadIf(At(<<<<kind, x>>>> \o r, v), b, kind) = At(r, <<x>>)
<1>1. Read(At(<<<<kind, x>>>> \o r, v), kind) = At(r, x)
  BY TokenRead
<1>2. At(r, x).ok = TRUE /\ At(r, x).val = x
  BY OnTrack, ZenonT(30)
<1>3. [At(r, x) EXCEPT !.val = <<x>>] = At(r, <<x>>)
  BY ValueSet, Zenon
<1> QED
  BY <1>1, <1>2, <1>3, Zenon DEF ReadIf

(* Where it does not hold, nothing is taken off.                            *)
LEMMA TokenSkipped ==
  ASSUME NEW kind, NEW r, NEW v, NEW b, ~b
  PROVE  ReadIf(At(r, v), b, kind) = At(r, <<>>)
<1>1. [At(r, v) EXCEPT !.val = <<>>] = At(r, <<>>)
  BY ValueSet, Zenon
<1> QED
  BY <1>1, Zenon DEF ReadIf

(* The tokens of a part, and what is read of them: there are some if and    *)
(* only if its bit is set.                                                  *)
Shown(part, v, kind, x, s, y) ==
  IF part[4] \in Or(v[part[3]], {}) THEN s = <<<<kind, x>>>> /\ y = <<x>> ELSE s = <<>> /\ y = <<>>

(* Such a part is read, and what was read is kept under its name.           *)
LEMMA PartRead ==
  ASSUME NEW part, NEW v, NEW kind, NEW x, NEW s, NEW y, Shown(part, v, kind, x, s, y),
         NEW r, IsSequence(r)
  PROVE  ReadPart(At(s \o r, v), part, kind) = At(r, With(v, part[1], y))
<1> DEFINE q == At(s \o r, v)
           set == part[4] \in Or(q.val[part[3]], {})
           u == ReadIf(q, set, kind)
<1>1. q.val = v
  BY OnTrack, ZenonT(30)
<1>2. u = At(r, y)
  <2>1. CASE set
    <3>1. s = <<<<kind, x>>>> /\ y = <<x>>
      BY <1>1, <2>1, Zenon DEF Shown
    <3> HIDE DEF set
    <3>2. ReadIf(At(<<<<kind, x>>>> \o r, v), set, kind) = At(r, <<x>>)
      BY <2>1, TokenReadIf
    <3> QED
      BY <3>1, <3>2
  <2>2. CASE ~set
    <3>1. s = <<>> /\ y = <<>>
      BY <1>1, <2>2, Zenon DEF Shown
    <3>2. q = At(r, v)
      BY <3>1, FirstJoined
    <3> HIDE DEF q, set
    <3> QED
      BY <2>2, <3>1, <3>2, TokenSkipped, Zenon
  <2> QED
    BY <2>1, <2>2
<1>3. ReadPart(q, part, kind) = [u EXCEPT !.val = IF u.ok THEN [q.val EXCEPT ![part[1]] = u.val] ELSE q.val]
  BY DEF ReadPart
<1>4. At(r, y).ok = TRUE /\ At(r, y).val = y
  BY OnTrack, ZenonT(30)
<1>5. [At(r, y) EXCEPT !.val = With(v, part[1], y)] = At(r, With(v, part[1], y))
  BY ValueSet, Zenon
<1> HIDE DEF q, u
<1>6. ReadPart(q, part, kind) = At(r, With(v, part[1], y))
  BY <1>1, <1>2, <1>3, <1>4, <1>5, Zenon DEF With
<1> QED
  BY <1>6 DEF q

(* Tokens one after another, from the left and from the right.              *)
Join(s, t) == s \o t

(* Joined sequences are sequences.                                          *)
LEMMA Joined ==
  ASSUME NEW s, NEW t, IsSequence(s), IsSequence(t)
  PROVE  IsSequence(Join(s, t))
BY Concatenated DEF Join

(* A sequence of three parts, read from the left.                           *)
LEMMA JoinedThrice ==
  ASSUME NEW s, NEW t, NEW u, IsSequence(s), IsSequence(t), IsSequence(u)
  PROVE  Join(Join(s, t), u) = Join(s, Join(t, u))
BY Associative, SMTT(30) DEF Join

(* The kth part of a header.                                                *)
PartIs(k, name, kind, byte, bit) ==
  /\ NmParts[k][1] = name /\ NmParts[k][2] = kind /\ NmParts[k][3] = byte /\ NmParts[k][4] = bit
  /\ name \in NmNames

(* The twelve parts of a header, each with its flag.                        *)
LEMMA HeaderParts ==
  /\ PartIs(1, "ext1", "flags", "flags", "ext1")
  /\ PartIs(2, "ext2", "flags", "ext1", "ext2")
  /\ PartIs(3, "publisherId", "by type", "flags", "publisherId")
  /\ PartIs(4, "classId", "guid", "ext1", "classId")
  /\ PartIs(5, "writerGroupId", "u16", "flags", "groupHeader")
  /\ PartIs(6, "groupVersion", "u32", "flags", "groupHeader")
  /\ PartIs(7, "networkMessageNumber", "u16", "flags", "groupHeader")
  /\ PartIs(8, "sequenceNumber", "u16", "flags", "groupHeader")
  /\ PartIs(9, "ids", "ids", "flags", "payloadHeader")
  /\ PartIs(10, "timestamp", "date", "ext1", "timestamp")
  /\ PartIs(11, "picoseconds", "u16", "ext1", "picoseconds")
  /\ PartIs(12, "chunk", "chunk", "ext2", "chunk")
  /\ "flags" \in NmNames
<1>1. DOMAIN NmParts = 1 .. 12
  BY DEF NmParts
<1>2. \A k \in 1 .. 12 : NmParts[k][1] \in NmNames
  BY <1>1 DEF NmNames
<1>3. "flags" \in NmNames
  BY DEF NmNames
<1>4. PartIs(1, "ext1", "flags", "flags", "ext1")
  <2>1. /\ NmParts[1][1] = "ext1" /\ NmParts[1][2] = "flags"
        /\ NmParts[1][3] = "flags" /\ NmParts[1][4] = "ext1"
    BY DEF NmParts
  <2> QED
    BY <1>2, <2>1 DEF PartIs
<1>5. PartIs(2, "ext2", "flags", "ext1", "ext2")
  <2>1. /\ NmParts[2][1] = "ext2" /\ NmParts[2][2] = "flags"
        /\ NmParts[2][3] = "ext1" /\ NmParts[2][4] = "ext2"
    BY DEF NmParts
  <2> QED
    BY <1>2, <2>1 DEF PartIs
<1>6. PartIs(3, "publisherId", "by type", "flags", "publisherId")
  <2>1. /\ NmParts[3][1] = "publisherId" /\ NmParts[3][2] = "by type"
        /\ NmParts[3][3] = "flags" /\ NmParts[3][4] = "publisherId"
    BY DEF NmParts
  <2>2. NmParts[3][1] \in NmNames
    BY <1>2
  <2> QED
    BY <2>1, <2>2, Zenon DEF PartIs
<1>7. PartIs(4, "classId", "guid", "ext1", "classId")
  <2>1. /\ NmParts[4][1] = "classId" /\ NmParts[4][2] = "guid"
        /\ NmParts[4][3] = "ext1" /\ NmParts[4][4] = "classId"
    BY DEF NmParts
  <2> QED
    BY <1>2, <2>1 DEF PartIs
<1>8. PartIs(5, "writerGroupId", "u16", "flags", "groupHeader")
  <2>1. /\ NmParts[5][1] = "writerGroupId" /\ NmParts[5][2] = "u16"
        /\ NmParts[5][3] = "flags" /\ NmParts[5][4] = "groupHeader"
    BY DEF NmParts
  <2> QED
    BY <1>2, <2>1 DEF PartIs
<1>9. PartIs(6, "groupVersion", "u32", "flags", "groupHeader")
  <2>1. /\ NmParts[6][1] = "groupVersion" /\ NmParts[6][2] = "u32"
        /\ NmParts[6][3] = "flags" /\ NmParts[6][4] = "groupHeader"
    BY DEF NmParts
  <2> QED
    BY <1>2, <2>1 DEF PartIs
<1>10. PartIs(7, "networkMessageNumber", "u16", "flags", "groupHeader")
  <2>1. /\ NmParts[7][1] = "networkMessageNumber" /\ NmParts[7][2] = "u16"
        /\ NmParts[7][3] = "flags" /\ NmParts[7][4] = "groupHeader"
    BY DEF NmParts
  <2> QED
    BY <1>2, <2>1 DEF PartIs
<1>11. PartIs(8, "sequenceNumber", "u16", "flags", "groupHeader")
  <2>1. /\ NmParts[8][1] = "sequenceNumber" /\ NmParts[8][2] = "u16"
        /\ NmParts[8][3] = "flags" /\ NmParts[8][4] = "groupHeader"
    BY DEF NmParts
  <2> QED
    BY <1>2, <2>1 DEF PartIs
<1>12. PartIs(9, "ids", "ids", "flags", "payloadHeader")
  <2>1. /\ NmParts[9][1] = "ids" /\ NmParts[9][2] = "ids"
        /\ NmParts[9][3] = "flags" /\ NmParts[9][4] = "payloadHeader"
    BY DEF NmParts
  <2> QED
    BY <1>2, <2>1 DEF PartIs
<1>13. PartIs(10, "timestamp", "date", "ext1", "timestamp")
  <2>1. /\ NmParts[10][1] = "timestamp" /\ NmParts[10][2] = "date"
        /\ NmParts[10][3] = "ext1" /\ NmParts[10][4] = "timestamp"
    BY DEF NmParts
  <2> QED
    BY <1>2, <2>1 DEF PartIs
<1>14. PartIs(11, "picoseconds", "u16", "ext1", "picoseconds")
  <2>1. /\ NmParts[11][1] = "picoseconds" /\ NmParts[11][2] = "u16"
        /\ NmParts[11][3] = "ext1" /\ NmParts[11][4] = "picoseconds"
    BY DEF NmParts
  <2> QED
    BY <1>2, <2>1 DEF PartIs
<1>15. PartIs(12, "chunk", "chunk", "ext2", "chunk")
  <2>1. /\ NmParts[12][1] = "chunk" /\ NmParts[12][2] = "chunk"
        /\ NmParts[12][3] = "ext2" /\ NmParts[12][4] = "chunk"
    BY DEF NmParts
  <2> QED
    BY <1>2, <2>1 DEF PartIs
<1> QED
  BY <1>3, <1>4, <1>5, <1>6, <1>7, <1>8, <1>9, <1>10, <1>11, <1>12, <1>13, <1>14, <1>15

(* What is there can be got.                                                *)
LEMMA Some ==
  ASSUME NEW x, NEW y
  PROVE  Has(<<x>>) /\ Get(<<x>>) = x /\ Or(<<x>>, y) = x
<1>1. <<x>> # <<>> /\ <<x>>[1] = x
  OBVIOUS
<1> QED
  BY <1>1, Zenon DEF Has, Get, Or

(* Nothing follows the last part.                                           *)
LEMMA LastOf ==
  ASSUME NEW s, IsSequence(s)
  PROVE  s \o <<>> = s
<1>1. s \in Seq(ToSet(s))
  BY DEF IsSequence
<1> QED
  BY <1>1

(* Two functions that agree at first, and after a step if before it, agree  *)
(* at the end: induction, for the functions that read item by item.         *)
LEMMA Stepwise ==
  ASSUME NEW n \in Nat, NEW f, NEW h, f[0] = h[0], \A k \in 1 .. n : f[k - 1] = h[k - 1] => f[k] = h[k]
  PROVE  f[n] = h[n]
<1> DEFINE Bad == {k \in 0 .. n : f[k] # h[k]}
<1> SUFFICES ASSUME Bad # {}
             PROVE  FALSE
  OBVIOUS
<1>1. Bad \subseteq Nat
  OBVIOUS
<1>2. PICK m \in Bad : \A k \in Bad : m <= k
  BY <1>1, LeastNumber
<1>3. m \in 1 .. n
  OBVIOUS
<1>4. m - 1 \in 0 .. n /\ m - 1 \notin Bad
  BY <1>2, <1>3
<1> QED
  BY <1>3, <1>4

(* What is left of n items and r after the first k of them.                 *)
Suffix(g, s, n, r) ==
  /\ g[n] = r /\ \A k \in 0 .. n : IsSequence(g[k])
  /\ \A k \in 1 .. n : g[k - 1] = Join(s[k], g[k])

(* The items joined so far, from the first.                                 *)
Prefix(J, s, n) ==
  IsSequence(J[0]) /\ \A k \in 1 .. n : IsSequence(s[k]) /\ J[k] = Join(J[k - 1], s[k])

(* Items joined from the left are items joined from the right.              *)
LEMMA SuffixesExist ==
  ASSUME NEW n \in Nat, NEW s, NEW J, Prefix(J, s, n), NEW r, IsSequence(r)
  PROVE  \E g : Suffix(g, s, n, r) /\ Join(J[0], g[0]) = Join(J[n], r)
<1> DEFINE P(k) == \A x : IsSequence(x) => \E g : Suffix(g, s, k, x) /\ Join(J[0], g[0]) = Join(J[k], x)
           Bad == {k \in 0 .. n : ~P(k)}
<1> USE DEF Prefix
<1>0. \A k \in 0 .. n : IsSequence(J[k])
  <2> DEFINE Worse == {k \in 0 .. n : ~IsSequence(J[k])}
  <2> SUFFICES ASSUME Worse # {}
               PROVE  FALSE
    OBVIOUS
  <2>1. Worse \subseteq Nat
    OBVIOUS
  <2>2. PICK m \in Worse : \A k \in Worse : m <= k
    BY <2>1, LeastNumber
  <2>3. m \in 1 .. n
    OBVIOUS
  <2>4. m - 1 \in 0 .. n /\ m - 1 \notin Worse
    BY <2>2, <2>3
  <2> QED
    BY <2>3, <2>4, Joined
<1> SUFFICES ASSUME Bad # {}
             PROVE  FALSE
  OBVIOUS
<1>1. Bad \subseteq Nat
  OBVIOUS
<1>2. PICK m \in Bad : \A k \in Bad : m <= k
  BY <1>1, LeastNumber
<1>3. m # 0
  <2> SUFFICES ASSUME NEW x, IsSequence(x)
               PROVE  \E g : Suffix(g, s, 0, x) /\ Join(J[0], g[0]) = Join(J[0], x)
    BY <1>2
  <2> DEFINE g == [k \in 0 .. 0 |-> x]
  <2>1. g[0] = x /\ Suffix(g, s, 0, x)
    BY DEF Suffix
  <2> HIDE DEF g
  <2> QED
    BY <2>1
<1>4. m \in 1 .. n /\ m - 1 \in 0 .. n /\ P(m - 1)
  <2>1. m \in 1 .. n /\ m - 1 \in 0 .. n /\ m - 1 \notin Bad
    BY <1>2, <1>3
  <2> QED
    BY <2>1
<1>5. P(m)
  <2> SUFFICES ASSUME NEW x, IsSequence(x)
               PROVE  \E g : Suffix(g, s, m, x) /\ Join(J[0], g[0]) = Join(J[m], x)
    OBVIOUS
  <2> HIDE DEF Bad
  <2>1. IsSequence(Join(s[m], x)) /\ IsSequence(s[m])
    BY <1>4, Joined
  <2>2. PICK e : Suffix(e, s, m - 1, Join(s[m], x)) /\ Join(J[0], e[0]) = Join(J[m - 1], Join(s[m], x))
    BY <1>4, <2>1
  <2>3. Join(J[m - 1], Join(s[m], x)) = Join(J[m], x)
    <3>1. Join(Join(J[m - 1], s[m]), x) = Join(J[m - 1], Join(s[m], x))
      BY <1>0, <1>4, <2>1, JoinedThrice
    <3>2. J[m] = Join(J[m - 1], s[m])
      BY <1>4
    <3> QED
      BY ONLY <3>1, <3>2
  <2> DEFINE g == [k \in 0 .. m |-> IF k = m THEN x ELSE e[k]]
  <2>4. g[m] = x /\ \A k \in 0 .. m - 1 : g[k] = e[k]
    BY <1>4
  <2>5. g[0] = e[0]
    BY <1>4
  <2> HIDE DEF g
  <2>6. e[m - 1] = Join(s[m], x) /\ (\A k \in 0 .. m - 1 : IsSequence(e[k]))
        /\ \A k \in 1 .. m - 1 : e[k - 1] = Join(s[k], e[k])
    BY <2>2 DEF Suffix
  <2>7. ASSUME NEW k \in 0 .. m
        PROVE  IsSequence(g[k])
    <3>1. k = m \/ k \in 0 .. m - 1
      BY <1>4
    <3> QED
      BY <2>4, <2>6, <3>1
  <2>8. ASSUME NEW k \in 1 .. m
        PROVE  g[k - 1] = Join(s[k], g[k])
    <3>1. k - 1 \in 0 .. m - 1 /\ (k # m => k \in 1 .. m - 1 /\ k \in 0 .. m - 1)
      BY <1>4
    <3>2. CASE k = m
      BY <2>4, <2>6, <3>1, <3>2
    <3>3. CASE k # m
      BY <2>4, <2>6, <3>1, <3>3
    <3> QED
      BY <3>2, <3>3
  <2>9. Suffix(g, s, m, x)
    BY <2>4, <2>7, <2>8 DEF Suffix
  <2> QED
    BY <2>2, <2>3, <2>5, <2>9
<1> QED
  BY <1>2, <1>5

(* So are sequences that are flattened.                                     *)
LEMMA FlattenSuffixes ==
  ASSUME NEW ss, IsSequence(ss), \A i \in 1 .. Len(ss) : IsSequence(ss[i]), NEW r, IsSequence(r)
  PROVE  \E g : Suffix(g, ss, Len(ss), r) /\ g[0] = Join(FlattenSeq(ss), r)
<1> DEFINE n == Len(ss)
<1>1. n \in Nat /\ (ss = <<>> <=> n = 0)
  BY SequenceFacts
<1>2. \A x : IsSequence(x) => Join(<<>>, x) = x
  BY FirstJoined DEF Join
<1>3. CASE n = 0
  <2> DEFINE g == [k \in 0 .. 0 |-> r]
  <2>1. FlattenSeq(ss) = <<>>
    BY <1>1, <1>3 DEF FlattenSeq
  <2>2. g[0] = r /\ Suffix(g, ss, 0, r)
    BY DEF Suffix
  <2> HIDE DEF g
  <2> QED
    BY <1>2, <1>3, <2>1, <2>2
<1>4. CASE n # 0
  <2> DEFINE F == CHOOSE f : f = [i \in 1 .. Len(ss) |-> IF i = 1 THEN ss[i] ELSE f[i - 1] \o ss[i]]
  <2>1. \E f : f = [i \in 1 .. Len(ss) |-> IF i = 1 THEN ss[i] ELSE f[i - 1] \o ss[i]]
    BY <1>1, JoinExists DEF Joins
  <2>2. F = [i \in 1 .. Len(ss) |-> IF i = 1 THEN ss[i] ELSE F[i - 1] \o ss[i]]
    BY <2>1
  <2>3. FlattenSeq(ss) = F[n]
    BY <1>4 DEF FlattenSeq
  <2> HIDE DEF F
  <2>4. \A i \in 1 .. n : F[i] = IF i = 1 THEN ss[i] ELSE Join(F[i - 1], ss[i])
    BY <2>2, Zenon DEF Join
  <2> HIDE DEF n
  <2> DEFINE J == [k \in 0 .. n |-> IF k = 0 THEN <<>> ELSE F[k]]
  <2>5. J[0] = <<>> /\ J[n] = F[n] /\ \A k \in 1 .. n : J[k] = F[k]
    BY <1>1, <1>4
  <2> HIDE DEF J
  <2>6. ASSUME NEW k \in 1 .. n
        PROVE  IsSequence(ss[k]) /\ J[k] = Join(J[k - 1], ss[k])
    <3>1. IsSequence(ss[k])
      BY DEF n
    <3>2. CASE k = 1
      <4>1. k - 1 = 0 /\ F[k] = ss[k]
        BY <2>4, <3>2
      <4> QED
        BY <1>2, <2>5, <3>1, <4>1
    <3>3. CASE k # 1
      <4>1. k - 1 \in 1 .. n /\ F[k] = Join(F[k - 1], ss[k])
        BY <1>1, <2>4, <3>3
      <4> QED
        BY <2>5, <3>1, <4>1
    <3> QED
      BY <3>2, <3>3
  <2>7. PICK g : Suffix(g, ss, n, r) /\ Join(J[0], g[0]) = Join(J[n], r)
    <3>1. n \in Nat /\ Prefix(J, ss, n) /\ IsSequence(r)
      BY <1>1, <2>5, <2>6, EmptySequence DEF n, Prefix
    <3> QED
      BY ONLY <3>1, SuffixesExist
  <2>8. Join(J[0], g[0]) = g[0]
    <3>1. IsSequence(g[0])
      BY <1>1, <2>7 DEF Suffix
    <3> QED
      BY <1>2, <2>5, <3>1
  <2>9. g[0] = Join(FlattenSeq(ss), r)
    BY <2>3, <2>5, <2>7, <2>8
  <2> QED
    BY <2>7, <2>9 DEF n
<1> QED
  BY <1>3, <1>4

(* And the tokens of a sequence, one by one.                                *)
LEMMA TokenSuffixes ==
  ASSUME NEW s, IsSequence(s), NEW r, IsSequence(r), NEW one, one = [i \in 1 .. Len(s) |-> <<s[i]>>]
  PROVE  \E g : Suffix(g, one, Len(s), r) /\ g[0] = Join(s, r)
<1> DEFINE n == Len(s)
           J == [k \in 0 .. n |-> SubSeq(s, 1, k)]
<1>1. s \in Seq(ToSet(s)) /\ n \in Nat
  BY SequenceFacts DEF IsSequence
<1>2. J[0] = <<>> /\ J[n] = s
  BY <1>1
<1>3. \A k \in 1 .. n : J[k] = SubSeq(s, 1, k) /\ J[k - 1] = SubSeq(s, 1, k - 1)
  BY <1>1
<1> HIDE DEF J
<1>4. ASSUME NEW k \in 1 .. n
      PROVE  IsSequence(one[k]) /\ J[k] = Join(J[k - 1], one[k])
  <2>1. one[k] = <<s[k]>>
    OBVIOUS
  <2>2. SubSeq(s, 1, k) = SubSeq(s, 1, k - 1) \o <<s[k]>>
    BY <1>1
  <2> QED
    BY <1>3, <2>1, <2>2, WhenSequence DEF Join
<1>5. PICK g : Suffix(g, one, n, r) /\ Join(J[0], g[0]) = Join(J[n], r)
  <2>1. n \in Nat /\ Prefix(J, one, n) /\ IsSequence(r)
    BY <1>1, <1>2, <1>4, EmptySequence DEF Prefix
  <2> HIDE DEF n
  <2> QED
    BY ONLY <2>1, SuffixesExist
<1>6. Join(J[0], g[0]) = g[0]
  <2>1. IsSequence(g[0])
    BY <1>1, <1>5 DEF Suffix
  <2> QED
    BY <1>2, <2>1, FirstJoined DEF Join
<1> QED
  BY <1>2, <1>5, <1>6

(* Parts whose flags are in bytes read before them.                         *)
InOrder(parts, n, names, early) ==
  /\ Len(parts) = n /\ names = early \cup {parts[k][1] : k \in 1 .. n}
  /\ \A k \in 1 .. n : parts[k][3] \in early \/ \E j \in 1 .. k - 1 : parts[j][1] = parts[k][3]

(* The header that such parts make: what its flags announce is on the wire, *)
(* and nothing else is.                                                     *)
PartShown(part, kind, H, x, s) ==
  IF part[4] \in Or(H[part[3]], {}) THEN s = <<<<kind, x>>>> /\ H[part[1]] = <<x>>
  ELSE s = <<>> /\ H[part[1]] = <<>>
HeaderShown(parts, n, names, early, kind, H, x, s) ==
  /\ InOrder(parts, n, names, early) /\ H = [m \in names |-> H[m]]
  /\ \A k \in 1 .. n : PartShown(parts[k], kind[k], H, x[k], s[k])

(* What is read of it before them.                                          *)
Before(names, early, H) == [m \in names |-> IF m \in early THEN H[m] ELSE <<>>]

(* A header that is read part by part, V being what was read before each.   *)
HeaderSteps(parts, n, names, early, kind, H, g, V) ==
  /\ V[0] = Before(names, early, H) /\ V[n] = H
  /\ \A k \in 1 .. n : ReadPart(At(g[k - 1], V[k - 1]), parts[k], kind[k]) = At(g[k], V[k])
  /\ \A k \in 0 .. n : \A j \in 1 .. k : V[k][parts[j][1]] = H[parts[j][1]]

(* Every part of it is read, and its value is the one that was written.     *)
LEMMA PartsPassed ==
  ASSUME NEW n \in Nat, NEW parts, NEW names, NEW early, NEW kind, NEW H, NEW x, NEW s, NEW g, NEW r,
         HeaderShown(parts, n, names, early, kind, H, x, s), Suffix(g, s, n, r)
  PROVE  \E V : HeaderSteps(parts, n, names, early, kind, H, g, V)
<1> USE DEF HeaderShown
<1> DEFINE Seen(m, k) == m \in early \/ \E j \in 1 .. k : parts[j][1] = m
           V == [k \in 0 .. n |-> [m \in names |-> IF Seen(m, k) THEN H[m] ELSE <<>>]]
<1>1. /\ early \subseteq names /\ \A k \in 1 .. n : parts[k][1] \in names
      /\ \A m \in names : Seen(m, n)
      /\ \A k \in 1 .. n : parts[k][3] \in names /\ Seen(parts[k][3], k - 1)
  BY DEF InOrder
<1>2. V[0] = Before(names, early, H)
  <2>1. V[0] = [m \in names |-> IF Seen(m, 0) THEN H[m] ELSE <<>>]
    OBVIOUS
  <2>2. \A m : Seen(m, 0) <=> m \in early
    OBVIOUS
  <2> HIDE DEF V
  <2> QED
    BY <2>1, <2>2 DEF Before
<1>3. V[n] = H
  <2>1. V[n] = [m \in names |-> IF Seen(m, n) THEN H[m] ELSE <<>>]
    OBVIOUS
  <2>2. H = [m \in names |-> H[m]]
    OBVIOUS
  <2> HIDE DEF V, Seen
  <2> QED
    BY <1>1, <2>1, <2>2
<1>4. ASSUME NEW k \in 1 .. n
      PROVE  ReadPart(At(g[k - 1], V[k - 1]), parts[k], kind[k]) = At(g[k], V[k])
  <2> DEFINE part == parts[k]
             v == V[k - 1]
             y == H[part[1]]
  <2>1. k - 1 \in 0 .. n /\ k \in 0 .. n
    OBVIOUS
  <2>2. v = [m \in names |-> IF Seen(m, k - 1) THEN H[m] ELSE <<>>]
    BY <2>1
  <2>3. V[k] = [m \in names |-> IF Seen(m, k) THEN H[m] ELSE <<>>]
    BY <2>1
  <2>4. \A m : Seen(m, k) <=> Seen(m, k - 1) \/ m = part[1]
    OBVIOUS
  <2>5. part[1] \in names /\ v[part[3]] = H[part[3]]
    BY <1>1, <2>2
  <2> HIDE DEF V, v, Seen
  <2>6. V[k] = With(v, part[1], y)
    BY <2>2, <2>3, <2>4, <2>5 DEF With
  <2>7. PartShown(part, kind[k], H, x[k], s[k])
    OBVIOUS
  <2> HIDE DEF part
  <2>8. Shown(part, v, kind[k], x[k], s[k], y)
    BY <2>5, <2>7, Zenon DEF Shown, PartShown
  <2>9. g[k - 1] = s[k] \o g[k] /\ IsSequence(g[k])
    BY <2>1 DEF Suffix, Join
  <2> HIDE DEF y
  <2>10. ReadPart(At(s[k] \o g[k], v), part, kind[k]) = At(g[k], With(v, part[1], y))
    BY ONLY <2>8, <2>9, PartRead
  <2>11. ReadPart(At(g[k - 1], v), part, kind[k]) = At(g[k], V[k])
    BY ONLY <2>6, <2>9, <2>10, Zenon
  <2> QED
    BY <2>11 DEF v, part
<1>5. ASSUME NEW k \in 0 .. n, NEW j \in 1 .. k
      PROVE  V[k][parts[j][1]] = H[parts[j][1]]
  <2>1. parts[j][1] \in names /\ Seen(parts[j][1], k)
    BY <1>1
  <2>2. V[k] = [m \in names |-> IF Seen(m, k) THEN H[m] ELSE <<>>]
    OBVIOUS
  <2> HIDE DEF V, Seen
  <2> QED
    BY <2>1, <2>2
<1> HIDE DEF V
<1>6. HeaderSteps(parts, n, names, early, kind, H, g, V)
  BY <1>2, <1>3, <1>4, <1>5 DEF HeaderSteps
<1> QED
  BY <1>6

(* Reading parts each of its own kind.                                      *)
OwnReads(h, p, parts, n) ==
  /\ Len(parts) = n /\ h = [k \in 0 .. n |-> h[k]] /\ h[0] = p
  /\ \A k \in 1 .. n : h[k] = ReadPart(h[k - 1], parts[k], OwnKind(parts[k], h[k - 1].val))
NmReads(h, p, parts, n) ==
  /\ Len(parts) = n /\ h = [k \in 0 .. n |-> h[k]] /\ h[0] = p
  /\ \A k \in 1 .. n : h[k] = ReadPart(h[k - 1], parts[k], NmKind(parts[k], h[k - 1].val))

(* What follows part by part is what ReadParts() returns, for the header of *)
(* a data set message or a DataValue.                                       *)
LEMMA OwnFollows ==
  ASSUME NEW n \in Nat, NEW p, NEW parts, NEW h, OwnReads(h, p, parts, n)
  PROVE  ReadParts(p, parts, OwnKind) = h[n]
<1> USE DEF OwnReads
<1> DEFINE F == CHOOSE f : f = [k \in 0 .. Len(parts) |->
                   IF k = 0 THEN p ELSE ReadPart(f[k - 1], parts[k], OwnKind(parts[k], f[k - 1].val))]
<1>1. h = [k \in 0 .. Len(parts) |->
             IF k = 0 THEN p ELSE ReadPart(h[k - 1], parts[k], OwnKind(parts[k], h[k - 1].val))]
  <2>1. \A k \in 0 .. n : k # 0 => k \in 1 .. n
    OBVIOUS
  <2>2. \A k \in 0 .. n : h[k] = IF k = 0 THEN p ELSE ReadPart(h[k - 1], parts[k], OwnKind(parts[k], h[k - 1].val))
    BY <2>1
  <2> QED
    BY <2>2
<1>2. F = [k \in 0 .. Len(parts) |->
             IF k = 0 THEN p ELSE ReadPart(F[k - 1], parts[k], OwnKind(parts[k], F[k - 1].val))]
  BY <1>1
<1>3. ReadParts(p, parts, OwnKind) = F[Len(parts)]
  BY DEF ReadParts
<1> HIDE DEF F
<1>4. \A k \in 0 .. n : F[k] = IF k = 0 THEN p ELSE ReadPart(F[k - 1], parts[k], OwnKind(parts[k], F[k - 1].val))
  BY <1>2, Zenon
<1>5. F[0] = h[0]
  BY <1>4
<1>6. ASSUME NEW k \in 1 .. n, F[k - 1] = h[k - 1]
      PROVE  F[k] = h[k]
  <2>1. F[k] = ReadPart(F[k - 1], parts[k], OwnKind(parts[k], F[k - 1].val))
    BY <1>4
  <2>2. h[k] = ReadPart(h[k - 1], parts[k], OwnKind(parts[k], h[k - 1].val))
    OBVIOUS
  <2> QED
    BY ONLY <1>6, <2>1, <2>2, Zenon
<1>7. F[n] = h[n]
  BY ONLY <1>5, <1>6, n \in Nat, Stepwise
<1> QED
  BY <1>3, <1>7

(* And for the header of a network message.                                 *)
LEMMA NmFollows ==
  ASSUME NEW n \in Nat, NEW p, NEW parts, NEW h, NmReads(h, p, parts, n)
  PROVE  ReadParts(p, parts, NmKind) = h[n]
<1> USE DEF NmReads
<1> DEFINE F == CHOOSE f : f = [k \in 0 .. Len(parts) |->
                   IF k = 0 THEN p ELSE ReadPart(f[k - 1], parts[k], NmKind(parts[k], f[k - 1].val))]
<1>1. h = [k \in 0 .. Len(parts) |->
             IF k = 0 THEN p ELSE ReadPart(h[k - 1], parts[k], NmKind(parts[k], h[k - 1].val))]
  <2>1. \A k \in 0 .. n : k # 0 => k \in 1 .. n
    OBVIOUS
  <2>2. \A k \in 0 .. n : h[k] = IF k = 0 THEN p ELSE ReadPart(h[k - 1], parts[k], NmKind(parts[k], h[k - 1].val))
    BY <2>1
  <2> QED
    BY <2>2
<1>2. F = [k \in 0 .. Len(parts) |->
             IF k = 0 THEN p ELSE ReadPart(F[k - 1], parts[k], NmKind(parts[k], F[k - 1].val))]
  BY <1>1
<1>3. ReadParts(p, parts, NmKind) = F[Len(parts)]
  BY DEF ReadParts
<1> HIDE DEF F
<1>4. \A k \in 0 .. n : F[k] = IF k = 0 THEN p ELSE ReadPart(F[k - 1], parts[k], NmKind(parts[k], F[k - 1].val))
  BY <1>2, Zenon
<1>5. F[0] = h[0]
  BY <1>4
<1>6. ASSUME NEW k \in 1 .. n, F[k - 1] = h[k - 1]
      PROVE  F[k] = h[k]
  <2>1. F[k] = ReadPart(F[k - 1], parts[k], NmKind(parts[k], F[k - 1].val))
    BY <1>4
  <2>2. h[k] = ReadPart(h[k - 1], parts[k], NmKind(parts[k], h[k - 1].val))
    OBVIOUS
  <2> QED
    BY ONLY <1>6, <2>1, <2>2, Zenon
<1>7. F[n] = h[n]
  BY ONLY <1>5, <1>6, n \in Nat, Stepwise
<1> QED
  BY <1>3, <1>7

(* A header of a data set message or a DataValue comes back as it was       *)
(* written.                                                                 *)
LEMMA OwnPartsRead ==
  ASSUME NEW n \in Nat, NEW parts, NEW names, NEW early, NEW kind, \A k \in 1 .. n : kind[k] = parts[k][2],
         NEW H, NEW x, NEW s, NEW g, NEW r,
         HeaderShown(parts, n, names, early, kind, H, x, s), Suffix(g, s, n, r)
  PROVE  ReadParts(At(g[0], Before(names, early, H)), parts, OwnKind) = At(r, H)
<1>1. PICK V : HeaderSteps(parts, n, names, early, kind, H, g, V)
  BY ONLY n \in Nat, HeaderShown(parts, n, names, early, kind, H, x, s), Suffix(g, s, n, r), PartsPassed
<1> DEFINE h == [k \in 0 .. n |-> At(g[k], V[k])]
           p == At(g[0], Before(names, early, H))
<1>2. h[0] = p /\ h[n] = At(r, H) /\ h = [k \in 0 .. n |-> h[k]]
  BY <1>1 DEF HeaderSteps, Suffix
<1>3. \A k \in 1 .. n : h[k] = At(g[k], V[k]) /\ h[k - 1] = At(g[k - 1], V[k - 1])
  OBVIOUS
<1> HIDE DEF h, p
<1>4. ASSUME NEW k \in 1 .. n
      PROVE  h[k] = ReadPart(h[k - 1], parts[k], OwnKind(parts[k], h[k - 1].val))
  <2>1. ReadPart(At(g[k - 1], V[k - 1]), parts[k], kind[k]) = At(g[k], V[k])
    BY <1>1 DEF HeaderSteps
  <2>2. OwnKind(parts[k], h[k - 1].val) = kind[k]
    BY DEF OwnKind
  <2> QED
    BY <1>3, <2>1, <2>2
<1>5. Len(parts) = n
  BY DEF HeaderShown, InOrder
<1>6. OwnReads(h, p, parts, n)
  BY <1>2, <1>4, <1>5 DEF OwnReads
<1>7. ReadParts(p, parts, OwnKind) = h[n]
  BY ONLY <1>6, n \in Nat, OwnFollows
<1> QED
  BY <1>2, <1>7 DEF p

(* One more item at the end of what was made so far.                        *)
LEMMA OneMore ==
  ASSUME NEW n \in Nat, NEW v, NEW s, s = [i \in 1 .. n |-> v[i]], NEW x
  PROVE  Append(s, x) = [i \in 1 .. n + 1 |-> IF i = n + 1 THEN x ELSE v[i]]
<1>1. s \in Seq({v[i] : i \in 1 .. n} \cup {x}) /\ Len(s) = n
  <2>1. s \in [1 .. n -> {v[i] : i \in 1 .. n} \cup {x}]
    OBVIOUS
  <2> QED
    BY <2>1
<1>2. Append(s, x) \in Seq({v[i] : i \in 1 .. n} \cup {x}) /\ Len(Append(s, x)) = n + 1
  BY <1>1
<1>3. DOMAIN Append(s, x) = 1 .. n + 1 /\ Append(s, x) = [i \in 1 .. n + 1 |-> Append(s, x)[i]]
  BY <1>2
<1>4. \A i \in 1 .. n + 1 : Append(s, x)[i] = IF i = n + 1 THEN x ELSE v[i]
  <2> TAKE i \in 1 .. n + 1
  <2>1. CASE i = n + 1
    BY <1>1, <2>1
  <2>2. CASE i # n + 1
    <3>1. i \in 1 .. n /\ Append(s, x)[i] = s[i]
      BY <1>1, <2>2
    <3> QED
      BY <2>2, <3>1
  <2> QED
    BY <2>1, <2>2
<1> QED
  BY <1>3, <1>4

(* What is appended is the next element.                                    *)
LEMMA AppendedNext ==
  ASSUME NEW v, NEW k \in Nat, k >= 1
  PROVE  Append([i \in 1 .. k - 1 |-> v[i]], v[k]) = [i \in 1 .. k |-> v[i]]
<1> DEFINE s == [i \in 1 .. k - 1 |-> v[i]]
<1>1. k - 1 \in Nat /\ k - 1 + 1 = k
  OBVIOUS
<1>2. Append(s, v[k]) = [i \in 1 .. k - 1 + 1 |-> IF i = k - 1 + 1 THEN v[k] ELSE v[i]]
  BY ONLY <1>1, OneMore
<1> QED
  BY <1>1, <1>2

-----------------------------------------------------------------------------
(* What becomes of a scalar, of a Variant.                                  *)
Back(t, v) == ReadBack(t, Written(t, v))
VariantBack(f) ==
  IF f = NoVariant THEN NoVariant
  ELSE [type |-> f.type,
        value |-> IF IsArray(f.value) THEN Arr([i \in 1 .. Len(f.value[2]) |-> Back(f.type, f.value[2][i])])
                  ELSE Back(f.type, f.value)]

(* Scalars on the wire.                                                     *)
ScalarTokens(t, v, n) == [i \in 1 .. n |-> <<t, Written(t, v[i])>>]
ScalarsBack(t, v, n) == [i \in 1 .. n |-> Back(t, v[i])]

(* Reading them one by one.                                                 *)
ScalarReads(h, p, t, n) ==
  h = [i \in 0 .. n |-> h[i]] /\ h[0] = [p EXCEPT !.val = <<>>] /\ \A i \in 1 .. n : h[i] = ReadScalar(h[i - 1], t)

(* The scalars read one after the other are what ReadScalars reads.         *)
LEMMA ScalarsFollow ==
  ASSUME NEW n \in Nat, NEW p, NEW t, NEW h, ScalarReads(h, p, t, n)
  PROVE  ReadScalars(p, t, n) = h[n]
<1> USE DEF ScalarReads
<1> DEFINE F == CHOOSE f : f = [i \in 0 .. n |-> IF i = 0 THEN [p EXCEPT !.val = <<>>] ELSE ReadScalar(f[i - 1], t)]
<1>1. h = [i \in 0 .. n |-> IF i = 0 THEN [p EXCEPT !.val = <<>>] ELSE ReadScalar(h[i - 1], t)]
  <2>1. \A i \in 0 .. n : i # 0 => i \in 1 .. n
    OBVIOUS
  <2>2. \A i \in 0 .. n : h[i] = IF i = 0 THEN [p EXCEPT !.val = <<>>] ELSE ReadScalar(h[i - 1], t)
    BY <2>1
  <2> QED
    BY <2>2
<1>2. F = [i \in 0 .. n |-> IF i = 0 THEN [p EXCEPT !.val = <<>>] ELSE ReadScalar(F[i - 1], t)]
  BY <1>1
<1>3. ReadScalars(p, t, n) = F[n]
  BY DEF ReadScalars
<1> HIDE DEF F
<1>4. \A i \in 0 .. n : F[i] = IF i = 0 THEN [p EXCEPT !.val = <<>>] ELSE ReadScalar(F[i - 1], t)
  BY <1>2, Zenon
<1>5. F[0] = h[0]
  BY <1>4
<1>6. ASSUME NEW i \in 1 .. n, F[i - 1] = h[i - 1]
      PROVE  F[i] = h[i]
  <2>1. F[i] = ReadScalar(F[i - 1], t) /\ h[i] = ReadScalar(h[i - 1], t)
    BY <1>4
  <2> QED
    BY ONLY <1>6, <2>1, Zenon
<1>7. F[n] = h[n]
  BY ONLY <1>5, <1>6, n \in Nat, Stepwise
<1> QED
  BY <1>3, <1>7

(* The scalars of a Variant, one by one.                                    *)
LEMMA ScalarsRead ==
  ASSUME NEW n \in Nat, NEW t, NEW v, NEW s, s = ScalarTokens(t, v, n), NEW r, IsSequence(r), NEW x
  PROVE  IsSequence(s) /\ ReadScalars(At(Join(s, r), x), t, n) = At(r, ScalarsBack(t, v, n))
<1> USE DEF ScalarTokens, ScalarsBack
<1> DEFINE w == [i \in 1 .. n |-> Back(t, v[i])]
           one == [i \in 1 .. Len(s) |-> <<s[i]>>]
<1>1. IsSequence(s) /\ Len(s) = n
  BY SequenceMade
<1>2. PICK g : Suffix(g, one, n, r) /\ g[0] = Join(s, r)
  <2>1. IsSequence(s) /\ IsSequence(r) /\ one = [i \in 1 .. Len(s) |-> <<s[i]>>]
    BY <1>1
  <2> HIDE DEF one
  <2>2. \E g : Suffix(g, one, Len(s), r) /\ g[0] = Join(s, r)
    BY ONLY <2>1, TokenSuffixes
  <2> QED
    BY <1>1, <2>2
<1> DEFINE h == [k \in 0 .. n |-> At(g[k], [i \in 1 .. k |-> w[i]])]
           p == At(Join(s, r), x)
<1>3. h = [k \in 0 .. n |-> h[k]] /\ h[n] = At(g[n], [i \in 1 .. n |-> w[i]]) /\ h[0] = At(g[0], [i \in 1 .. 0 |-> w[i]])
  OBVIOUS
<1>4. \A k \in 1 .. n : h[k] = At(g[k], [i \in 1 .. k |-> w[i]]) /\ h[k - 1] = At(g[k - 1], [i \in 1 .. k - 1 |-> w[i]])
  OBVIOUS
<1>5. \A k \in 1 .. n : one[k] = <<<<t, Written(t, v[k])>>>> /\ w[k] = Back(t, v[k])
  BY <1>1
<1>6. w = [i \in 1 .. n |-> w[i]] /\ [i \in 1 .. 0 |-> w[i]] = <<>>
  OBVIOUS
<1> HIDE DEF h, w, one
<1>7. h[0] = [p EXCEPT !.val = <<>>]
  <2>1. h[0] = At(Join(s, r), <<>>)
    BY <1>2, <1>3, <1>6
  <2>2. [At(Join(s, r), x) EXCEPT !.val = <<>>] = At(Join(s, r), <<>>)
    BY ONLY ValueSet
  <2> QED
    BY ONLY <2>1, <2>2 DEF p
<1>8. ASSUME NEW k \in 1 .. n
      PROVE  h[k] = ReadScalar(h[k - 1], t)
  <2> DEFINE q == h[k - 1]
             before == [i \in 1 .. k - 1 |-> w[i]]
             written == Written(t, v[k])
  <2>1. g[k - 1] = <<<<t, written>>>> \o g[k] /\ IsSequence(g[k])
    <3>1. k - 1 \in 0 .. n /\ k \in 0 .. n
      OBVIOUS
    <3>2. g[k - 1] = Join(one[k], g[k]) /\ IsSequence(g[k])
      BY <1>2, <3>1 DEF Suffix
    <3> QED
      BY <1>5, <3>2 DEF Join, written
  <2>2. q = At(g[k - 1], before)
    BY <1>4
  <2>3. Append(before, w[k]) = [i \in 1 .. k |-> w[i]]
    BY AppendedNext
  <2> HIDE DEF q, before, written
  <2>4. Read(q, t) = At(g[k], written)
    BY <2>1, <2>2, TokenRead
  <2>5. ReadScalar(q, t) = At(g[k], Append(before, ReadBack(t, written)))
    <3>0. q.val = before /\ At(g[k], written).ok = TRUE /\ At(g[k], written).val = written
      BY <2>2 DEF At
    <3>1. Read(q, t).ok = TRUE /\ Read(q, t).val = written /\ q.val = before
      BY ONLY <2>4, <3>0, ZenonT(30)
    <3>2. ReadScalar(q, t) = [Read(q, t) EXCEPT !.val = Append(before, ReadBack(t, written))]
      BY ONLY <3>1, ZenonT(30) DEF ReadScalar
    <3>3. [At(g[k], written) EXCEPT !.val = Append(before, ReadBack(t, written))]
            = At(g[k], Append(before, ReadBack(t, written)))
      BY ONLY ValueSet
    <3> QED
      BY ONLY <2>4, <3>2, <3>3, ZenonT(30)
  <2>6. ReadBack(t, written) = w[k]
    BY <1>5 DEF written, Back
  <2>7. h[k] = At(g[k], Append(before, ReadBack(t, written)))
    BY <1>4, <2>3, <2>6
  <2> QED
    BY <2>5, <2>7 DEF q
<1>9. ReadScalars(p, t, n) = h[n]
  <2>1. ScalarReads(h, p, t, n)
    BY <1>3, <1>7, <1>8 DEF ScalarReads
  <2> QED
    BY ONLY <2>1, n \in Nat, ScalarsFollow
<1>10. h[n] = At(r, w)
  BY <1>2, <1>3, <1>6 DEF Suffix
<1> QED
  BY <1>1, <1>9, <1>10 DEF w

(* A Variant with a type comes back, whatever follows it.                   *)
LEMMA ArrayRead ==
  ASSUME NEW t, t # "none", NEW v, IsSequence(v), NEW r, IsSequence(r), NEW x,
         NEW s, s = ScalarTokens(t, v, Len(v)),
         NEW p, p = At(Join(<<<<"variant", <<t, TRUE>>>>>>, Join(<<<<"i32", Len(v)>>>>, Join(s, r))), x)
  PROVE  ReadVariant(p) = At(r, [type |-> t, value |-> Arr(ScalarsBack(t, v, Len(v)))])
<1> DEFINE n == Len(v)
           b == ScalarsBack(t, v, n)
           r2 == Join(s, r)
           r1 == Join(<<<<"i32", n>>>>, r2)
<1>1. n \in Nat
  BY SequenceFacts
<1>2. IsSequence(s) /\ ReadScalars(At(Join(s, r), n), t, n) = At(r, ScalarsBack(t, v, n))
  <2>1. s = ScalarTokens(t, v, n)
    OBVIOUS
  <2> HIDE DEF n
  <2> QED
    BY ONLY <1>1, <2>1, IsSequence(r), ScalarsRead
<1>3. IsSequence(r2) /\ IsSequence(r1)
  <2>1. IsSequence(r2)
    BY <1>2, Joined
  <2>2. IsSequence(<<<<"i32", n>>>>)
    BY WhenSequence
  <2> HIDE DEF r2, n
  <2> QED
    BY <2>1, <2>2, Joined
<1>4. ReadScalars(At(r2, n), t, n) = At(r, b)
  BY <1>2
<1> HIDE DEF n, b, r2, r1
<1>5. Read(p, "variant") = At(r1, <<t, TRUE>>)
  BY <1>3, TokenRead, ZenonT(60) DEF Join, r1, r2, n
<1>6. Read(At(r1, <<t, TRUE>>), "i32") = At(r2, n)
  BY <1>3, TokenRead DEF Join, r1
<1>7. At(r1, <<t, TRUE>>).ok = TRUE /\ At(r1, <<t, TRUE>>).val = <<t, TRUE>> /\ At(r2, n).ok = TRUE /\ At(r2, n).val = n
      /\ At(r, b).ok = TRUE /\ At(r, b).val = b
  BY DEF At
<1>8. ReadVariant(p) = [At(r, b) EXCEPT !.val = [type |-> t, value |-> Arr(At(r, b).val)]]
  <2>1. <<t, TRUE>>[1] = t /\ <<t, TRUE>>[2] = TRUE
    OBVIOUS
  <2> QED
    BY ONLY <1>4, <1>5, <1>6, <1>7, <2>1, t # "none", ZenonT(60) DEF ReadVariant
<1>9. [At(r, b) EXCEPT !.val = [type |-> t, value |-> Arr(b)]] = At(r, [type |-> t, value |-> Arr(b)])
  BY ONLY ValueSet
<1>10. ReadVariant(p) = At(r, [type |-> t, value |-> Arr(b)])
  BY ONLY <1>7, <1>8, <1>9
<1> QED
  BY <1>10 DEF b, n

(* A Variant of one scalar is read back.                                    *)
LEMMA ScalarRead ==
  ASSUME NEW t, t # "none", NEW v, NEW r, IsSequence(r), NEW x,
         NEW s, s = <<<<t, Written(t, v)>>>>,
         NEW p, p = At(Join(<<<<"variant", <<t, FALSE>>>>>>, Join(s, r)), x)
  PROVE  ReadVariant(p) = At(r, [type |-> t, value |-> Back(t, v)])
<1> DEFINE b == ScalarsBack(t, <<v>>, 1)
           r1 == Join(s, r)
           y == <<t, FALSE>>
<1>1. IsSequence(r1)
  BY WhenSequence, Joined
<1>2. ReadScalars(At(r1, y), t, 1) = At(r, b)
  <2>1. s = ScalarTokens(t, <<v>>, 1)
    BY DEF ScalarTokens
  <2> HIDE DEF y
  <2> QED
    <3>1. 1 \in Nat
      OBVIOUS
    <3> QED
      BY ONLY <2>1, <3>1, IsSequence(r), ScalarsRead
<1>3. b[1] = Back(t, v)
  BY DEF ScalarsBack
<1>4. y[1] = t /\ y[2] = FALSE
  OBVIOUS
<1> HIDE DEF b, r1
<1>5. Read(p, "variant") = At(r1, y)
  BY <1>1, TokenRead, ZenonT(60) DEF Join, r1
<1> HIDE DEF y
<1>6. At(r1, y).ok = TRUE /\ At(r1, y).val = y /\ At(r, b).ok = TRUE /\ At(r, b).val = b
  BY DEF At
<1>7. ReadVariant(p) = [At(r, b) EXCEPT !.val = [type |-> t, value |-> b[1]]]
  <2>1. ReadVariant(p) = [At(r, b) EXCEPT !.val = [type |-> t, value |-> At(r, b).val[1]]]
    BY ONLY <1>2, <1>4, <1>5, <1>6, t # "none", ZenonT(60) DEF ReadVariant
  <2> QED
    BY ONLY <1>6, <2>1
<1>8. [At(r, b) EXCEPT !.val = [type |-> t, value |-> b[1]]] = At(r, [type |-> t, value |-> b[1]])
  BY ONLY ValueSet
<1> QED
  BY ONLY <1>3, <1>7, <1>8

(* So is every Variant that can be read, and the one that is none.          *)
LEMMA VariantRead ==
  ASSUME NEW f, IsVariant(f), f.type # "none" \/ f = NoVariant, NEW r, IsSequence(r), NEW x
  PROVE  /\ IsSequence(WriteVariant(f))
         /\ ReadVariant(At(Join(WriteVariant(f), r), x)) = At(r, VariantBack(f))
<1>1. CASE f = NoVariant
  <2>1. WriteVariant(f) = <<<<"variant", <<"none", FALSE>>>>>>
    BY <1>1 DEF WriteVariant
  <2> DEFINE y == <<"none", FALSE>>
  <2>2. y[1] = "none"
    OBVIOUS
  <2> HIDE DEF y
  <2>3. Read(At(Join(WriteVariant(f), r), x), "variant") = At(r, y)
    <3>1. WriteVariant(f) = <<<<"variant", y>>>>
      BY <2>1 DEF y
    <3>2. Read(At(Join(<<<<"variant", y>>>>, r), x), "variant") = At(r, y)
      BY ONLY IsSequence(r), TokenRead DEF Join
    <3> QED
      BY ONLY <3>1, <3>2
  <2>4. ReadVariant(At(Join(WriteVariant(f), r), x)) = [At(r, y) EXCEPT !.val = NoVariant]
    <3>1. At(r, y).ok = TRUE /\ At(r, y).val = y
      BY DEF At
    <3> QED
      BY ONLY <2>2, <2>3, <3>1, ZenonT(30) DEF ReadVariant
  <2>5. [At(r, y) EXCEPT !.val = NoVariant] = At(r, NoVariant)
    BY ONLY ValueSet
  <2>6. VariantBack(f) = NoVariant
    BY <1>1 DEF VariantBack
  <2>7. IsSequence(WriteVariant(f))
    BY ONLY <2>1, WhenSequence
  <2> QED
    BY ONLY <2>4, <2>5, <2>6, <2>7
<1>2. CASE f # NoVariant /\ IsArray(f.value)
  <2> DEFINE t == f.type
             v == f.value[2]
             s == ScalarTokens(t, v, Len(v))
             a == <<<<"variant", <<t, TRUE>>>>>>
             b == <<<<"i32", Len(v)>>>>
  <2>1. IsSequence(v) /\ t # "none"
    BY <1>2 DEF IsVariant, IsValue
  <2>2. IsSequence(s) /\ s = [i \in DOMAIN v |-> <<t, Written(t, v[i])>>]
    <3>1. Len(v) \in Nat /\ DOMAIN v = 1 .. Len(v)
      BY <2>1, SequenceFacts
    <3> QED
      BY <3>1, SequenceMade DEF ScalarTokens
  <2>3. WriteVariant(f) = (a \o b) \o s
    <3>1. IsArray(f.value) = TRUE
      BY <1>2 DEF IsArray
    <3> QED
      BY ONLY <1>2, <2>2, <3>1, ZenonT(30) DEF WriteVariant, When
  <2>4. IsSequence(a) /\ IsSequence(b)
    BY WhenSequence
  <2>5. VariantBack(f) = [type |-> t, value |-> Arr(ScalarsBack(t, v, Len(v)))]
    BY <1>2 DEF VariantBack, ScalarsBack
  <2>6. ASSUME NEW p, p = At(Join(a, Join(b, Join(s, r))), x)
        PROVE  ReadVariant(p) = At(r, VariantBack(f))
    <3>1. ReadVariant(p) = At(r, [type |-> t, value |-> Arr(ScalarsBack(t, v, Len(v)))])
      <4> HIDE DEF t, v
      <4> QED
        BY ONLY <2>1, <2>6, IsSequence(r), ArrayRead
    <3> QED
      BY <2>5, <3>1
  <2> HIDE DEF a, b, s
  <2>7. IsSequence(Join(a, b)) /\ IsSequence(Join(Join(a, b), s))
    BY <2>2, <2>4, Joined
  <2>8. Join(Join(Join(a, b), s), r) = Join(a, Join(b, Join(s, r)))
    <3>1. Join(Join(Join(a, b), s), r) = Join(Join(a, b), Join(s, r))
      BY <2>2, <2>7, JoinedThrice
    <3>2. Join(Join(a, b), Join(s, r)) = Join(a, Join(b, Join(s, r)))
      BY <2>2, <2>4, Joined, JoinedThrice
    <3> QED
      BY <3>1, <3>2
  <2>9. WriteVariant(f) = Join(Join(a, b), s)
    BY <2>3 DEF Join
  <2> QED
    BY <2>6, <2>7, <2>8, <2>9
<1>3. CASE f # NoVariant /\ ~IsArray(f.value)
  <2> DEFINE t == f.type
             v == f.value
             s == <<<<t, Written(t, v)>>>>
             a == <<<<"variant", <<t, FALSE>>>>>>
  <2>1. t # "none"
    BY <1>3
  <2>2. IsSequence(a) /\ IsSequence(s)
    BY WhenSequence
  <2>3. WriteVariant(f) = Join(a, s)
    <3>1. IsArray(f.value) = FALSE
      BY <1>3 DEF IsArray
    <3>2. WriteVariant(f) = (a \o <<>>) \o [i \in DOMAIN <<v>> |-> <<t, Written(t, <<v>>[i])>>]
      BY <1>3, <3>1, ZenonT(30) DEF WriteVariant, When
    <3>3. [i \in DOMAIN <<v>> |-> <<t, Written(t, <<v>>[i])>>] = s
      OBVIOUS
    <3>4. a \o <<>> = a
      BY <2>2, LastOf
    <3> HIDE DEF a, s
    <3> QED
      BY <3>2, <3>3, <3>4 DEF Join
  <2>4. VariantBack(f) = [type |-> t, value |-> Back(t, v)]
    BY <1>3 DEF VariantBack
  <2>5. ASSUME NEW p, p = At(Join(a, Join(s, r)), x)
        PROVE  ReadVariant(p) = At(r, VariantBack(f))
    <3>1. ReadVariant(p) = At(r, [type |-> t, value |-> Back(t, v)])
      <4> HIDE DEF t, v
      <4> QED
        BY ONLY <2>1, <2>5, IsSequence(r), ScalarRead, ZenonT(60)
    <3> QED
      BY <2>4, <3>1
  <2> HIDE DEF a, s
  <2>6. Join(Join(a, s), r) = Join(a, Join(s, r)) /\ IsSequence(Join(a, s))
    BY <2>2, Joined, JoinedThrice
  <2> QED
    BY <2>3, <2>5, <2>6
<1> QED
  BY <1>1, <1>2, <1>3

(* The first byte of flags is read.                                         *)
LEMMA FirstByte ==
  ASSUME NEW f0, NEW r, IsSequence(r), NEW x, NEW names, NEW name
  PROVE  Opened(At(Join(<<<<"flags", f0>>>>, r), x), names, name)
           = At(r, [n \in names |-> IF n = name THEN <<f0>> ELSE <<>>])
<1> DEFINE p == At(Join(<<<<"flags", f0>>>>, r), x)
           q == Read(p, "flags")
           v == [n \in names |-> IF n = name THEN <<f0>> ELSE <<>>]
<1>1. q = At(r, f0)
  BY TokenRead DEF Join
<1>2. q.ok = TRUE /\ q.val = f0
  <2> HIDE DEF q
  <2> QED
    BY ONLY <1>1, OnTrack, Zenon
<1>3. [n \in names |-> IF n = name /\ q.ok THEN <<q.val>> ELSE <<>>] = v
  <2> HIDE DEF q
  <2> QED
    BY <1>2
<1>4. Opened(p, names, name)
      = [q EXCEPT !.val = [n \in names |-> IF n = name /\ q.ok THEN <<q.val>> ELSE <<>>]]
  BY DEF Opened
<1>5. [At(r, f0) EXCEPT !.val = v] = At(r, v)
  BY ValueSet, Zenon
<1> HIDE DEF p, q, v
<1>6. Opened(p, names, name) = At(r, v)
  BY <1>1, <1>3, <1>4, <1>5, Zenon
<1> QED
  BY <1>6 DEF p, v

(* A value within the value read is replaced, and nothing else.             *)
LEMMA ValueWithin ==
  ASSUME NEW s, NEW v, NEW w
  PROVE  [At(s, v) EXCEPT !.val.value = w] = At(s, [v EXCEPT !.value = w])
<1> DEFINE q == At(s, v)
           u == [v EXCEPT !.value = w]
<1>1. q.val = v
  BY DEF At
<1>2. [q EXCEPT !.val.value = w] = [q EXCEPT !.val = [q.val EXCEPT !.value = w]]
  <2> HIDE DEF q
  <2> QED
    OBVIOUS
<1>3. [q EXCEPT !.val = u] = At(s, u)
  <2> HIDE DEF u
  <2> QED
    BY ValueSet
<1>4. [q EXCEPT !.val = [q.val EXCEPT !.value = w]] = [q EXCEPT !.val = u]
  <2> HIDE DEF q
  <2> QED
    BY <1>1
<1>5. [q EXCEPT !.val.value = w] = At(s, u)
  <2> HIDE DEF q, u
  <2> QED
    BY <1>2, <1>3, <1>4
<1> QED
  BY <1>5

(* Sequences of sequences are joined to sequences.                          *)
LEMMA FlattenedSequence ==
  ASSUME NEW ss, IsSequence(ss), \A i \in 1 .. Len(ss) : IsSequence(ss[i])
  PROVE  IsSequence(FlattenSeq(ss))
<1> DEFINE S == UNION {ToSet(ss[i]) : i \in 1 .. Len(ss)}
<1>1. ASSUME NEW i \in 1 .. Len(ss)
      PROVE  ss[i] \in Seq(S)
  <2>1. ss[i] \in Seq(ToSet(ss[i])) /\ ToSet(ss[i]) \subseteq S
    BY DEF IsSequence
  <2> HIDE DEF S
  <2>2. Len(ss[i]) \in Nat /\ ss[i] = [k \in 1 .. Len(ss[i]) |-> ss[i][k]] /\ \A k \in 1 .. Len(ss[i]) : ss[i][k] \in S
    BY <2>1
  <2> QED
    BY <2>2
<1> HIDE DEF S
<1>2. \A s \in ToSet(ss) : s \in Seq(S)
  BY <1>1, SequenceFacts
<1>3. FlattenSeq(ss) \in Seq(S)
  BY <1>2, FlattenTyped
<1> QED
  BY <1>3, SequenceOf

(* What a decoder understands, what it makes of a DataValue, and the part   *)
(* of the header that shows it.                                             *)
Readable(f) == IsVariant(f) /\ (f.type # "none" \/ f = NoVariant)
DataValueBack(dv) == [k \in DataValueNames \ {"mask"} |-> IF k = "value" THEN VariantBack(dv.value) ELSE dv[k]]
DataValueHeader(dv) ==
  [k \in DataValueNames |-> IF k = "mask" THEN <<DataValueMask(dv)>>
                            ELSE IF k = "value" THEN VariantBack(dv.value) ELSE dv[k]]

DataValuePart(k, name, kind) ==
  DataValueParts[k] = <<name, kind, "mask", name>> /\ DataValueParts[k][1] = name /\ DataValueParts[k][2] = kind
  /\ DataValueParts[k][3] = "mask" /\ DataValueParts[k][4] = name

(* The parts of a DataValue come in order, each under its own bit.          *)
LEMMA DataValueOrder ==
  /\ InOrder(DataValueParts, 5, DataValueNames, {"mask", "value"})
  /\ \A k \in 1 .. 5 : /\ DataValueParts[k][4] = DataValueParts[k][1] /\ DataValueParts[k][3] = "mask"
                       /\ DataValueParts[k][1] \in DataValueNames \ {"mask", "value"}
  /\ DOMAIN DataValueParts = 1 .. 5
<1>1. /\ DataValuePart(1, "status", "u32") /\ DataValuePart(2, "source", "date") /\ DataValuePart(3, "server", "date")
      /\ DataValuePart(4, "sourcePico", "u16") /\ DataValuePart(5, "serverPico", "u16")
  BY DEF DataValuePart, DataValueParts
<1>2. DOMAIN DataValueParts = 1 .. 5 /\ Len(DataValueParts) = 5
  BY DEF DataValueParts
<1>3. \A k \in 1 .. 5 : k = 1 \/ k = 2 \/ k = 3 \/ k = 4 \/ k = 5
  OBVIOUS
<1>4. {DataValueParts[k][1] : k \in 1 .. 5} = {"status", "source", "server", "sourcePico", "serverPico"}
  BY <1>1, <1>3 DEF DataValuePart
<1>5. DataValueNames = {"mask", "value"} \cup {DataValueParts[k][1] : k \in 1 .. 5}
  BY <1>4 DEF DataValueNames
<1>6. \A k \in 1 .. 5 : DataValueParts[k][4] = DataValueParts[k][1] /\ DataValueParts[k][3] = "mask"
  BY <1>1, <1>3 DEF DataValuePart
<1>7. \A k \in 1 .. 5 : DataValueParts[k][1] \in DataValueNames \ {"mask", "value"}
  <2>1. \A n \in {"status", "source", "server", "sourcePico", "serverPico"} : n \in DataValueNames \ {"mask", "value"}
    BY DEF DataValueNames
  <2> QED
    BY <1>4, <2>1
<1> QED
  BY <1>2, <1>5, <1>6, <1>7 DEF InOrder

(* A DataValue comes back: its Variant, its status and its timestamps, or   *)
(* none where there were none.                                              *)
LEMMA DataValueRead ==
  ASSUME NEW dv, IsDataValue(dv), Readable(dv.value), NEW r, IsSequence(r), NEW x
  PROVE  /\ IsSequence(WriteDataValue(dv))
         /\ ReadDataValue(At(Join(WriteDataValue(dv), r), x)) = At(r, DataValueBack(dv))
<1> DEFINE mask == DataValueMask(dv)
           H == DataValueHeader(dv)
           y == [k \in 1 .. 5 |-> dv[DataValueParts[k][1]][1]]
           rest == [i \in 1 .. 5 |-> When(DataValueParts[i][1] \in mask, <<<<DataValueParts[i][2], y[i]>>>>)]
           kind == [k \in 1 .. 5 |-> DataValueParts[k][2]]
           a == <<<<"flags", mask>>>>
           b == When("value" \in mask, WriteVariant(dv.value))
           early == {"mask", "value"}
           opened == [n \in DataValueNames |-> IF n = "mask" THEN <<mask>> ELSE <<>>]
           valued == Before(DataValueNames, early, H)
<1>1. DOMAIN dv = DataValueNames \ {"mask"}
  BY DEF IsDataValue, DataValueNames
<1>2. \A k \in 1 .. 5 : LET n == DataValueParts[k][1] IN
        /\ H["mask"] = <<mask>> /\ H[n] = dv[n] /\ IsSetting(dv[n]) /\ (n \in mask <=> Has(dv[n]))
        /\ y[k] = dv[n][1] /\ kind[k] = DataValueParts[k][2]
        /\ rest[k] = When(n \in mask, <<<<DataValueParts[k][2], y[k]>>>>)
  <2> TAKE k \in 1 .. 5
  <2> DEFINE n == DataValueParts[k][1]
  <2>1. n \in DOMAIN dv \ {"value"} /\ n \in DataValueNames \ {"mask", "value"}
    BY <1>1, DataValueOrder
  <2>2. IsSetting(dv[n])
    BY <2>1 DEF IsDataValue
  <2>3. n \in mask <=> Has(dv[n])
    BY <2>1 DEF DataValueMask, Reason
  <2>4. "mask" \in DataValueNames
    BY DEF DataValueNames
  <2>5. H["mask"] = <<mask>> /\ H[n] = dv[n]
    BY <2>1, <2>4 DEF DataValueHeader
  <2> QED
    BY <2>2, <2>3, <2>5
<1>3. WriteDataValue(dv) = (a \o b) \o FlattenSeq(rest)
  <2>1. rest = [i \in DOMAIN DataValueParts |->
                  LET part == DataValueParts[i] IN When(part[1] \in mask, <<<<part[2], dv[part[1]][1]>>>>)]
    BY DataValueOrder
  <2> HIDE DEF rest
  <2> QED
    BY <2>1, Zenon DEF WriteDataValue
<1>4. H = [k \in DataValueNames |-> H[k]] /\ H["value"] = VariantBack(dv.value)
  BY DEF DataValueHeader, DataValueNames
<1>5. "value" \in mask <=> dv.value # NoVariant
  BY DEF DataValueMask, Reason
<1>6. IsSequence(a) /\ IsSequence(b) /\ IsSequence(rest) /\ Len(rest) = 5
  <2>1. IsSequence(WriteVariant(dv.value))
    BY VariantRead DEF Readable
  <2>2. IsSequence(b)
    BY <2>1, EmptySequence DEF When
  <2>3. IsSequence(rest) /\ Len(rest) = 5
    BY SequenceMade
  <2> QED
    BY <2>2, <2>3, WhenSequence
<1>7. \A i \in 1 .. 5 : IsSequence(rest[i])
  BY <1>2, WhenSequence
<1>8. valued = [opened EXCEPT !.value = VariantBack(dv.value)]
  <2>1. \A m \in DataValueNames : valued[m] = [opened EXCEPT !.value = VariantBack(dv.value)][m]
    BY <1>2, <1>4 DEF DataValueNames, DataValueHeader, Before
  <2>2. DOMAIN valued = DataValueNames /\ valued = [m \in DataValueNames |-> valued[m]]
    BY DEF Before
  <2> HIDE DEF valued
  <2> QED
    BY <2>1, <2>2
<1>9. opened["mask"] = <<mask>>
  BY DEF DataValueNames
<1> HIDE DEF mask, H, y, rest, kind, a, b, opened, valued
<1>10. HeaderShown(DataValueParts, 5, DataValueNames, early, kind, H, y, rest)
  <2>1. ASSUME NEW k \in 1 .. 5
        PROVE  PartShown(DataValueParts[k], kind[k], H, y[k], rest[k])
    <3> DEFINE n == DataValueParts[k][1]
    <3>1. DataValueParts[k][4] = n /\ DataValueParts[k][3] = "mask"
      BY DataValueOrder
    <3>2. Or(H["mask"], {}) = mask
      BY <1>2, Some, 1 \in 1 .. 5
    <3>3. CASE n \in mask
      <4>1. rest[k] = <<<<kind[k], y[k]>>>> /\ H[n] = <<y[k]>>
        BY <1>2, <3>3 DEF When, IsSetting, Get
      <4> HIDE DEF n
      <4> QED
        BY <3>1, <3>2, <3>3, <4>1 DEF PartShown, n
    <3>4. CASE n \notin mask
      <4>1. rest[k] = <<>> /\ H[n] = <<>>
        BY <1>2, <3>4 DEF When, Has
      <4> HIDE DEF n
      <4> QED
        BY <3>1, <3>2, <3>4, <4>1 DEF PartShown, n
    <3> QED
      BY <3>3, <3>4
  <2> QED
    BY <1>4, <2>1, DataValueOrder DEF HeaderShown
<1>11. PICK g : Suffix(g, rest, 5, r) /\ g[0] = Join(FlattenSeq(rest), r)
  BY <1>6, <1>7, FlattenSuffixes
<1>12. IsSequence(FlattenSeq(rest))
  BY <1>6, <1>7, FlattenedSequence
<1>13. IsSequence(g[0]) /\ 0 \in 0 .. 5
  BY <1>11 DEF Suffix
<1>14. WriteDataValue(dv) = Join(Join(a, b), FlattenSeq(rest)) /\ IsSequence(WriteDataValue(dv))
       /\ Join(WriteDataValue(dv), r) = Join(a, Join(b, g[0])) /\ IsSequence(Join(b, g[0]))
  <2>1. IsSequence(Join(a, b)) /\ IsSequence(Join(Join(a, b), FlattenSeq(rest)))
    BY <1>6, <1>12, Joined
  <2>2. Join(Join(Join(a, b), FlattenSeq(rest)), r) = Join(Join(a, b), g[0])
    BY <1>11, <1>12, <2>1, JoinedThrice
  <2>3. Join(Join(a, b), g[0]) = Join(a, Join(b, g[0])) /\ IsSequence(Join(b, g[0]))
    BY <1>6, <1>13, Joined, JoinedThrice
  <2>4. WriteDataValue(dv) = Join(Join(a, b), FlattenSeq(rest))
    BY <1>3 DEF Join
  <2> QED
    BY <2>1, <2>2, <2>3, <2>4
<1> DEFINE p == At(Join(WriteDataValue(dv), r), x)
<1>15. Opened(p, DataValueNames, "mask") = At(Join(b, g[0]), opened)
  BY <1>14, FirstByte DEF a, opened
<1>16. ReadValuePart(At(Join(b, g[0]), opened)) = At(g[0], valued)
  <2> DEFINE q == At(Join(b, g[0]), opened)
  <2>1. q.ok = TRUE /\ q.val = opened
    BY DEF At
  <2>2. CASE dv.value = NoVariant
    <3>1. b = <<>> /\ "value" \notin mask /\ VariantBack(dv.value) = NoVariant
      BY <1>5, <2>2 DEF b, When, VariantBack
    <3>2. Join(b, g[0]) = g[0]
      BY <1>13, <3>1, FirstJoined DEF Join
    <3>3. ReadValuePart(q) = [q EXCEPT !.val.value = NoVariant]
      <4>1. <<mask>>[1] = mask
        OBVIOUS
      <4>2. q.val.mask = <<mask>>
        BY <1>9, <2>1
      <4> HIDE DEF q
      <4> QED
        BY ONLY <3>1, <4>1, <4>2, Zenon DEF ReadValuePart
    <3>4. [q EXCEPT !.val.value = NoVariant] = At(g[0], [opened EXCEPT !.value = NoVariant])
      BY <3>2, ValueWithin
    <3> QED
      BY <1>8, <3>1, <3>3, <3>4
  <2>3. CASE dv.value # NoVariant
    <3>1. b = WriteVariant(dv.value) /\ "value" \in mask
      BY <1>5, <2>3 DEF b, When
    <3>2. ReadVariant(q) = At(g[0], VariantBack(dv.value))
      BY <1>13, <3>1, VariantRead DEF Readable
    <3>3. ReadValuePart(q) = [ReadVariant(q) EXCEPT !.val = [opened EXCEPT !.value = ReadVariant(q).val]]
      <4>1. <<mask>>[1] = mask
        OBVIOUS
      <4>2. q.val.mask = <<mask>>
        BY <1>9, <2>1
      <4> HIDE DEF q
      <4> QED
        BY ONLY <2>1, <3>1, <4>1, <4>2, Zenon DEF ReadValuePart
    <3>4. ReadVariant(q).val = VariantBack(dv.value)
      BY <3>2 DEF At
    <3> HIDE DEF q
    <3>5. ReadValuePart(q) = [At(g[0], VariantBack(dv.value)) EXCEPT !.val = valued]
      <4>1. [opened EXCEPT !.value = ReadVariant(q).val] = valued
        BY ONLY <1>8, <3>4
      <4> QED
        BY ONLY <3>2, <3>3, <4>1
    <3>6. [At(g[0], VariantBack(dv.value)) EXCEPT !.val = valued] = At(g[0], valued)
      BY ONLY ValueSet
    <3> QED
      BY ONLY <3>5, <3>6 DEF q
  <2> QED
    BY <2>2, <2>3
<1>17. ReadParts(At(g[0], valued), DataValueParts, OwnKind) = At(r, H)
  <2>1. (\A k \in 1 .. 5 : kind[k] = DataValueParts[k][2]) /\ 5 \in Nat
    BY <1>2
  <2> HIDE DEF early
  <2>2. ReadParts(At(g[0], Before(DataValueNames, early, H)), DataValueParts, OwnKind) = At(r, H)
    BY ONLY <1>10, <1>11, <2>1, OwnPartsRead
  <2> QED
    BY <2>2 DEF valued
<1>18. WithoutMask(At(r, H)) = At(r, DataValueBack(dv))
  <2>1. [k \in DOMAIN H \ {"mask"} |-> H[k]] = DataValueBack(dv)
    BY DEF H, DataValueHeader, DataValueBack
  <2>2. At(r, H).val = H
    BY DEF At
  <2>3. WithoutMask(At(r, H)) = [At(r, H) EXCEPT !.val = [k \in DOMAIN H \ {"mask"} |-> H[k]]]
    <3> HIDE DEF H
    <3> QED
      BY <2>2, Zenon DEF WithoutMask
  <2>4. [At(r, H) EXCEPT !.val = DataValueBack(dv)] = At(r, DataValueBack(dv))
    BY ONLY ValueSet
  <2> QED
    BY ONLY <2>1, <2>3, <2>4, Zenon
<1>19. ReadDataValue(p) = At(r, DataValueBack(dv))
  <2> HIDE DEF p
  <2> QED
    BY ONLY <1>15, <1>16, <1>17, <1>18, Zenon DEF ReadDataValue
<1> QED
  BY <1>14, <1>19

(* What becomes of a field, and which can be read.                          *)
FieldBack(encoding, f) ==
  [name |-> f.name, data |-> IF encoding = "datavalue" THEN DataValueBack(f.data) ELSE VariantBack(f.data)]
FieldReadable(encoding, f) ==
  IF encoding = "datavalue" THEN IsDataValue(f.data) /\ Readable(f.data.value)
  ELSE encoding = "variant" /\ Readable(f.data)

(* A field comes back, with its name.                                       *)
LEMMA FieldRead ==
  ASSUME NEW encoding, NEW f, FieldReadable(encoding, f), NEW r, IsSequence(r), NEW x
  PROVE  /\ IsSequence(WriteField(encoding, f))
         /\ ReadField(At(Join(WriteField(encoding, f), r), x), encoding) = At(r, Append(x, FieldBack(encoding, f)))
<1> DEFINE w == IF encoding = "datavalue" THEN WriteDataValue(f.data) ELSE WriteVariant(f.data)
           b == IF encoding = "datavalue" THEN DataValueBack(f.data) ELSE VariantBack(f.data)
           a == <<<<"name", f.name>>>>
           p == At(Join(WriteField(encoding, f), r), x)
           q == At(Join(w, r), f.name)
           y == [name |-> f.name, data |-> b]
<1>1. IsSequence(w) /\ (IF encoding = "datavalue" THEN ReadDataValue(q) ELSE ReadVariant(q)) = At(r, b)
  <2>1. CASE encoding = "datavalue"
    <3>1. w = WriteDataValue(f.data) /\ b = DataValueBack(f.data) /\ q = At(Join(WriteDataValue(f.data), r), f.name)
      BY <2>1
    <3>2. IsSequence(WriteDataValue(f.data))
          /\ ReadDataValue(At(Join(WriteDataValue(f.data), r), f.name)) = At(r, DataValueBack(f.data))
      <4>1. IsDataValue(f.data) /\ Readable(f.data.value)
        BY <2>1 DEF FieldReadable
      <4> QED
        BY ONLY <4>1, IsSequence(r), DataValueRead
    <3> HIDE DEF w, b, q
    <3> QED
      BY <2>1, <3>1, <3>2
  <2>2. CASE encoding # "datavalue"
    <3>1. w = WriteVariant(f.data) /\ b = VariantBack(f.data) /\ q = At(Join(WriteVariant(f.data), r), f.name)
      BY <2>2
    <3>2. IsSequence(WriteVariant(f.data))
          /\ ReadVariant(At(Join(WriteVariant(f.data), r), f.name)) = At(r, VariantBack(f.data))
      <4>1. IsVariant(f.data) /\ (f.data.type # "none" \/ f.data = NoVariant)
        BY <2>2 DEF FieldReadable, Readable
      <4> QED
        BY ONLY <4>1, IsSequence(r), VariantRead
    <3> HIDE DEF w, b, q
    <3> QED
      BY <2>2, <3>1, <3>2
  <2> QED
    BY <2>1, <2>2
<1>2. WriteField(encoding, f) = a \o w
  BY DEF WriteField, FieldReadable
<1>3. FieldBack(encoding, f) = y
  BY DEF FieldBack
<1>4. IsSequence(a)
  BY WhenSequence
<1> HIDE DEF w, b, a
<1>5. IsSequence(Join(a, w)) /\ IsSequence(Join(w, r)) /\ Join(Join(a, w), r) = Join(a, Join(w, r))
  BY <1>1, <1>4, Joined, JoinedThrice
<1>6. WriteField(encoding, f) = Join(a, w)
  BY <1>2 DEF Join
<1>7. Read(p, "name") = q
  <2>1. p = At(Join(a, Join(w, r)), x)
    BY <1>5, <1>6
  <2>2. Read(At(a \o Join(w, r), x), "name") = q
    BY <1>5, TokenRead DEF a
  <2> HIDE DEF p, q
  <2> QED
    BY ONLY <2>1, <2>2 DEF Join
<1>8. p.val = x /\ q.val = f.name /\ At(r, b).val = b
  BY DEF At
<1> HIDE DEF p, q, y
<1>9. ReadField(p, encoding) = [At(r, b) EXCEPT !.val = Append(x, [name |-> f.name, data |-> b])]
  BY ONLY <1>1, <1>7, <1>8, Zenon DEF ReadField
<1>10. [At(r, b) EXCEPT !.val = Append(x, y)] = At(r, Append(x, y))
  BY ONLY ValueSet
<1>11. ReadField(p, encoding) = At(r, Append(x, y))
  BY ONLY <1>9, <1>10 DEF y
<1> QED
  BY <1>3, <1>5, <1>6, <1>11 DEF p

-----------------------------------------------------------------------------
(* Fields on the wire, read one by one.                                     *)
FieldTokens(encoding, fs) == [i \in 1 .. Len(fs) |-> WriteField(encoding, fs[i])]
FieldsBack(encoding, fs) == [i \in 1 .. Len(fs) |-> FieldBack(encoding, fs[i])]
FieldReads(h, p, encoding, n) ==
  h = [i \in 0 .. n |-> h[i]] /\ h[0] = [p EXCEPT !.val = <<>>] /\ \A i \in 1 .. n : h[i] = ReadField(h[i - 1], encoding)

(* The fields read one after the other are what ReadFields reads.           *)
LEMMA FieldsFollow ==
  ASSUME NEW n \in Nat, NEW p, NEW encoding, NEW h, FieldReads(h, p, encoding, n)
  PROVE  ReadFields(p, encoding, n) = h[n]
<1> USE DEF FieldReads
<1> DEFINE F == CHOOSE f : f = [i \in 0 .. n |-> IF i = 0 THEN [p EXCEPT !.val = <<>>] ELSE ReadField(f[i - 1], encoding)]
<1>1. h = [i \in 0 .. n |-> IF i = 0 THEN [p EXCEPT !.val = <<>>] ELSE ReadField(h[i - 1], encoding)]
  <2>1. \A i \in 0 .. n : i # 0 => i \in 1 .. n
    OBVIOUS
  <2>2. \A i \in 0 .. n : h[i] = IF i = 0 THEN [p EXCEPT !.val = <<>>] ELSE ReadField(h[i - 1], encoding)
    BY <2>1
  <2> QED
    BY <2>2
<1>2. F = [i \in 0 .. n |-> IF i = 0 THEN [p EXCEPT !.val = <<>>] ELSE ReadField(F[i - 1], encoding)]
  BY <1>1
<1>3. ReadFields(p, encoding, n) = F[n]
  BY DEF ReadFields
<1> HIDE DEF F
<1>4. \A i \in 0 .. n : F[i] = IF i = 0 THEN [p EXCEPT !.val = <<>>] ELSE ReadField(F[i - 1], encoding)
  BY <1>2, Zenon
<1>5. F[0] = h[0]
  BY <1>4
<1>6. ASSUME NEW i \in 1 .. n, F[i - 1] = h[i - 1]
      PROVE  F[i] = h[i]
  <2>1. F[i] = ReadField(F[i - 1], encoding) /\ h[i] = ReadField(h[i - 1], encoding)
    BY <1>4
  <2> QED
    BY ONLY <1>6, <2>1, Zenon
<1>7. F[n] = h[n]
  BY ONLY <1>5, <1>6, n \in Nat, Stepwise
<1> QED
  BY <1>3, <1>7

(* The fields of a data set message, one by one.                            *)
LEMMA FieldsRead ==
  ASSUME NEW encoding, NEW fs, IsSequence(fs), \A i \in 1 .. Len(fs) : FieldReadable(encoding, fs[i]),
         NEW r, IsSequence(r), NEW x, NEW ss, ss = FieldTokens(encoding, fs)
  PROVE  /\ IsSequence(FlattenSeq(ss))
         /\ ReadFields(At(Join(FlattenSeq(ss), r), x), encoding, Len(fs)) = At(r, FieldsBack(encoding, fs))
<1> USE DEF FieldTokens, FieldsBack
<1> DEFINE n == Len(fs)
           w == [i \in 1 .. n |-> FieldBack(encoding, fs[i])]
           s == FlattenSeq(ss)
<1>1. n \in Nat
  BY SequenceFacts
<1>2. IsSequence(ss) /\ Len(ss) = n /\ \A i \in 1 .. n : ss[i] = WriteField(encoding, fs[i])
  BY <1>1, SequenceMade
<1>3. \A i \in 1 .. n : IsSequence(ss[i])
  BY <1>2, FieldRead
<1>4. IsSequence(s)
  BY <1>2, <1>3, FlattenedSequence
<1>5. PICK g : Suffix(g, ss, n, r) /\ g[0] = Join(s, r)
  BY <1>2, <1>3, FlattenSuffixes
<1> DEFINE h == [k \in 0 .. n |-> At(g[k], [i \in 1 .. k |-> w[i]])]
           p == At(Join(s, r), x)
<1>6. h = [k \in 0 .. n |-> h[k]] /\ h[n] = At(g[n], [i \in 1 .. n |-> w[i]]) /\ h[0] = At(g[0], [i \in 1 .. 0 |-> w[i]])
  BY <1>1
<1>7. \A k \in 1 .. n : h[k] = At(g[k], [i \in 1 .. k |-> w[i]]) /\ h[k - 1] = At(g[k - 1], [i \in 1 .. k - 1 |-> w[i]])
  BY <1>1
<1>8. \A k \in 1 .. n : w[k] = FieldBack(encoding, fs[k])
  BY <1>1
<1>9. w = [i \in 1 .. n |-> w[i]] /\ [i \in 1 .. 0 |-> w[i]] = <<>>
  OBVIOUS
<1> HIDE DEF h, w, s, n
<1>10. h[0] = [p EXCEPT !.val = <<>>]
  <2>1. h[0] = At(Join(s, r), <<>>)
    BY <1>5, <1>6, <1>9
  <2>2. [At(Join(s, r), x) EXCEPT !.val = <<>>] = At(Join(s, r), <<>>)
    BY ONLY ValueSet
  <2> QED
    BY ONLY <2>1, <2>2 DEF p
<1>11. ASSUME NEW k \in 1 .. n
       PROVE  h[k] = ReadField(h[k - 1], encoding)
  <2> DEFINE q == h[k - 1]
             before == [i \in 1 .. k - 1 |-> w[i]]
  <2>1. g[k - 1] = Join(WriteField(encoding, fs[k]), g[k]) /\ IsSequence(g[k])
    <3>1. k - 1 \in 0 .. n /\ k \in 0 .. n
      BY <1>1
    <3> QED
      BY <1>2, <1>5, <3>1 DEF Suffix
  <2>2. q = At(g[k - 1], before)
    BY <1>7
  <2>3. Append(before, w[k]) = [i \in 1 .. k |-> w[i]]
    BY <1>1, AppendedNext
  <2> HIDE DEF q, before
  <2>4. ReadField(q, encoding) = At(g[k], Append(before, FieldBack(encoding, fs[k])))
    <3>1. FieldReadable(encoding, fs[k])
      BY DEF n
    <3> QED
      BY <2>1, <2>2, <3>1, FieldRead
  <2>5. h[k] = At(g[k], Append(before, FieldBack(encoding, fs[k])))
    BY <1>7, <1>8, <2>3
  <2> QED
    BY <2>4, <2>5 DEF q
<1>12. ReadFields(p, encoding, n) = h[n]
  <2>1. FieldReads(h, p, encoding, n)
    BY <1>6, <1>10, <1>11 DEF FieldReads
  <2> QED
    BY ONLY <1>1, <2>1, FieldsFollow
<1>13. h[n] = At(r, w)
  BY <1>5, <1>6, <1>9 DEF Suffix
<1> QED
  BY <1>4, <1>12, <1>13 DEF w, s, n

-----------------------------------------------------------------------------
(* What becomes of a data set message.                                      *)
DsmBack(d) ==
  [valid |-> d.valid, fieldEncoding |-> d.fieldEncoding, messageType |-> d.messageType,
   dataSetWriterId |-> <<>>, writerName |-> <<>>, sequenceNumber |-> d.sequenceNumber, status |-> d.status,
   major |-> d.major, minor |-> d.minor, timestamp |-> d.timestamp,
   picoseconds |-> When(Has(d.timestamp), d.picoseconds),
   fields |-> IF d.messageType = "keepalive" THEN <<>> ELSE FieldsBack(d.fieldEncoding, d.fields)]

(* A data set message that the decoder understands.                         *)
DsmReadable(d) ==
  /\ IsDsm(d) /\ d.fieldEncoding \in {"variant", "datavalue"} /\ d.messageType \in MessageTypes
  /\ d.messageType # "keepalive" => \A i \in 1 .. Len(d.fields) : FieldReadable(d.fieldEncoding, d.fields[i])

(* Its header, and the tokens it is written as.                             *)
DsmHeader(d) ==
  LET f2 == DataSetFlags2(d) f1 == DataSetFlags1(d, f2) IN
  [m \in DsmNames |->
     CASE m = "flags1" -> <<f1>>
       [] m = "flags2" -> When(f2 # {}, <<f2>>)
       [] m = "sequenceNumber" -> d.sequenceNumber
       [] m = "status" -> d.status
       [] m = "major" -> d.major
       [] m = "minor" -> d.minor
       [] m = "timestamp" -> d.timestamp
       [] m = "picoseconds" -> When(Has(d.timestamp), d.picoseconds)]

(* A part of a header by its place.                                         *)
PartOf(parts, k, name, kind, byte, bit) ==
  parts[k][1] = name /\ parts[k][2] = kind /\ parts[k][3] = byte /\ parts[k][4] = bit

(* The parts of the header of a data set message come in order.             *)
LEMMA DsmOrder ==
  /\ InOrder(DsmParts, 7, DsmNames, {"flags1"})
  /\ PartOf(DsmParts, 1, "flags2", "flags", "flags1", "flags2")
  /\ PartOf(DsmParts, 2, "sequenceNumber", "u16", "flags1", "sequenceNumber")
  /\ PartOf(DsmParts, 3, "status", "u16", "flags1", "status")
  /\ PartOf(DsmParts, 4, "major", "u32", "flags1", "major")
  /\ PartOf(DsmParts, 5, "minor", "u32", "flags1", "minor")
  /\ PartOf(DsmParts, 6, "timestamp", "date", "flags2", "timestamp")
  /\ PartOf(DsmParts, 7, "picoseconds", "u16", "flags2", "picoseconds")
<1>1. /\ PartOf(DsmParts, 1, "flags2", "flags", "flags1", "flags2")
      /\ PartOf(DsmParts, 2, "sequenceNumber", "u16", "flags1", "sequenceNumber")
      /\ PartOf(DsmParts, 3, "status", "u16", "flags1", "status")
      /\ PartOf(DsmParts, 4, "major", "u32", "flags1", "major")
      /\ PartOf(DsmParts, 5, "minor", "u32", "flags1", "minor")
      /\ PartOf(DsmParts, 6, "timestamp", "date", "flags2", "timestamp")
      /\ PartOf(DsmParts, 7, "picoseconds", "u16", "flags2", "picoseconds")
  BY DEF PartOf, DsmParts
<1>2. Len(DsmParts) = 7
  BY DEF DsmParts
<1>3. \A k \in 1 .. 7 : k = 1 \/ k = 2 \/ k = 3 \/ k = 4 \/ k = 5 \/ k = 6 \/ k = 7
  OBVIOUS
<1>4. {DsmParts[k][1] : k \in 1 .. 7} = DsmNames \ {"flags1"}
  BY <1>1, <1>3 DEF PartOf, DsmNames
<1>5. DsmNames = {"flags1"} \cup {DsmParts[k][1] : k \in 1 .. 7}
  BY <1>4 DEF DsmNames
<1>6. \A k \in 1 .. 7 : DsmParts[k][3] \in {"flags1"} \/ \E j \in 1 .. k - 1 : DsmParts[j][1] = DsmParts[k][3]
  <2>1. \A k \in 1 .. 5 : DsmParts[k][3] \in {"flags1"}
    BY <1>1 DEF PartOf
  <2>2. DsmParts[1][1] = DsmParts[6][3] /\ DsmParts[1][1] = DsmParts[7][3] /\ 1 \in 1 .. 6 - 1 /\ 1 \in 1 .. 7 - 1
    BY <1>1 DEF PartOf
  <2> TAKE k \in 1 .. 7
  <2>3. CASE k \in 1 .. 5
    BY <2>1, <2>3
  <2>4. CASE k = 6 \/ k = 7
    <3>1. 1 \in 1 .. k - 1 /\ DsmParts[1][1] = DsmParts[k][3]
      BY <2>2, <2>4
    <3> QED
      BY <3>1
  <2> QED
    BY <2>3, <2>4
<1> QED
  BY <1>1, <1>2, <1>5, <1>6 DEF InOrder

(* Its flags say what is present, and of which kind it is.                  *)
LEMMA DsmFlags ==
  ASSUME NEW d, DsmReadable(d), NEW f2, f2 = DataSetFlags2(d), NEW f1, f1 = DataSetFlags1(d, f2)
  PROVE  /\ "valid" \in f1 <=> d.valid
         /\ "sequenceNumber" \in f1 <=> Has(d.sequenceNumber)
         /\ "status" \in f1 <=> Has(d.status)
         /\ "major" \in f1 <=> Has(d.major)
         /\ "minor" \in f1 <=> Has(d.minor)
         /\ "flags2" \in f1 <=> f2 # {}
         /\ "datavalue" \in f1 <=> d.fieldEncoding = "datavalue"
         /\ "rawdata" \notin f1
         /\ "timestamp" \in f2 <=> Has(d.timestamp)
         /\ "picoseconds" \in f2 <=> Has(d.timestamp) /\ Has(d.picoseconds)
         /\ f2 \cap MessageTypes = IF d.messageType = "keyframe" THEN {} ELSE {d.messageType}
BY DEF DsmReadable, DataSetFlags1, DataSetFlags2, Reason, MessageTypes, IsDsm

(* And they are found in its header.                                        *)
LEMMA DsmRecovered ==
  ASSUME NEW d, DsmReadable(d), NEW H, H = DsmHeader(d)
  PROVE  /\ MessageType(H) = d.messageType /\ FieldEncoding(H) = d.fieldEncoding
         /\ "rawdata" \notin Get(H.flags1) /\ d.valid = ("valid" \in Get(H.flags1))
         /\ H.sequenceNumber = d.sequenceNumber /\ H.status = d.status /\ H.major = d.major
         /\ H.minor = d.minor /\ H.timestamp = d.timestamp
         /\ H.picoseconds = When(Has(d.timestamp), d.picoseconds)
<1> DEFINE f2 == DataSetFlags2(d)
           f1 == DataSetFlags1(d, f2)
<1>1. /\ H.flags1 = <<f1>> /\ H.flags2 = When(f2 # {}, <<f2>>)
      /\ H.sequenceNumber = d.sequenceNumber /\ H.status = d.status /\ H.major = d.major
      /\ H.minor = d.minor /\ H.timestamp = d.timestamp
      /\ H.picoseconds = When(Has(d.timestamp), d.picoseconds)
  <2> HIDE DEF f2, f1
  <2>1. H = [m \in DsmNames |->
               CASE m = "flags1" -> <<f1>>
                 [] m = "flags2" -> When(f2 # {}, <<f2>>)
                 [] m = "sequenceNumber" -> d.sequenceNumber
                 [] m = "status" -> d.status
                 [] m = "major" -> d.major
                 [] m = "minor" -> d.minor
                 [] m = "timestamp" -> d.timestamp
                 [] m = "picoseconds" -> When(Has(d.timestamp), d.picoseconds)]
    BY Zenon DEF DsmHeader, f1, f2
  <2> QED
    BY <2>1 DEF DsmNames
<1>2. /\ "valid" \in f1 <=> d.valid
      /\ "datavalue" \in f1 <=> d.fieldEncoding = "datavalue"
      /\ "rawdata" \notin f1
      /\ f2 \cap MessageTypes = IF d.messageType = "keyframe" THEN {} ELSE {d.messageType}
  BY DsmFlags
<1> HIDE DEF f1, f2
<1>3. Get(H.flags1) = f1 /\ Or(H.flags2, {}) = f2
  BY <1>1, Some DEF When, Or, Has
<1>4. FieldEncoding(H) = d.fieldEncoding
  BY <1>2, <1>3 DEF FieldEncoding, DsmReadable
<1>5. MessageType(H) = d.messageType
  <2>1. CASE d.messageType = "keyframe"
    BY <1>2, <1>3, <2>1 DEF MessageType
  <2>2. CASE d.messageType # "keyframe"
    <3>1. Or(H.flags2, {}) \cap MessageTypes = {d.messageType}
      BY <1>2, <1>3, <2>2
    <3>2. MessageType(H) = CHOOSE t \in {d.messageType} : TRUE
      BY <3>1, Zenon DEF MessageType
    <3> QED
      BY <3>2
  <2> QED
    BY <2>1, <2>2
<1>6. d.valid \in BOOLEAN
  BY DEF DsmReadable, IsDsm
<1> QED
  BY <1>1, <1>2, <1>3, <1>4, <1>5, <1>6

(* Its tokens, in the order of the wire.                                    *)
DsmTokens(d, s, body) ==
  LET f2 == DataSetFlags2(d) f1 == DataSetFlags1(d, f2) IN
  /\ s[1] = When("flags2" \in f1, <<<<"flags", f2>>>>)
  /\ s[2] = When("sequenceNumber" \in f1, <<<<"u16", Or(d.sequenceNumber, 0)>>>>)
  /\ s[3] = When("status" \in f1, <<<<"u16", Or(d.status, 0)>>>>)
  /\ s[4] = When("major" \in f1, <<<<"u32", Or(d.major, 0)>>>>)
  /\ s[5] = When("minor" \in f1, <<<<"u32", Or(d.minor, 0)>>>>)
  /\ s[6] = When("timestamp" \in f2, <<<<"date", Or(d.timestamp, 0)>>>>)
  /\ s[7] = When("picoseconds" \in f2, <<<<"u16", Or(d.picoseconds, 0)>>>>)
  /\ body = When(d.messageType # "keepalive",
               <<<<"u16", Len(d.fields)>>>> \o FlattenSeq(FieldTokens(d.fieldEncoding, d.fields)))

(* What the parts hold, and how they are read.                              *)
DsmContents(d) ==
  <<DataSetFlags2(d), Or(d.sequenceNumber, 0), Or(d.status, 0), Or(d.major, 0), Or(d.minor, 0),
    Or(d.timestamp, 0), Or(d.picoseconds, 0)>>
DsmKinds == <<"flags", "u16", "u16", "u32", "u32", "date", "u16">>

(* A part of a header is shown by its token.                                *)
TokenShows(H, F, name, bit, kind, x, s) ==
  /\ s = When(bit \in F, <<<<kind, x>>>>)
  /\ (bit \in F => H[name] = <<x>>) /\ (bit \notin F => H[name] = <<>>)

(* So a reader finds the part.                                              *)
LEMMA PartIsShown ==
  ASSUME NEW parts, NEW k, NEW name, NEW own, NEW byte, NEW bit, PartOf(parts, k, name, own, byte, bit),
         NEW H, NEW F, F = Or(H[byte], {}), NEW kind, NEW x, NEW s, TokenShows(H, F, name, bit, kind, x, s)
  PROVE  PartShown(parts[k], kind, H, x, s)
<1> USE DEF TokenShows
<1>1. parts[k][1] = name /\ parts[k][3] = byte /\ parts[k][4] = bit
  BY DEF PartOf
<1>2. CASE bit \in F
  BY <1>1, <1>2, Zenon DEF PartShown, When
<1>3. CASE bit \notin F
  BY <1>1, <1>3, Zenon DEF PartShown, When
<1> QED
  BY <1>2, <1>3

(* What is optional is itself, or is missing.                               *)
LEMMA SettingRead ==
  ASSUME NEW o, IsSetting(o), NEW x
  PROVE  (Has(o) => o = <<Or(o, x)>>) /\ (~Has(o) => o = <<>>)
BY DEF IsSetting, Has, Or

(* Every part of a data set message is shown by its token.                  *)
LEMMA DsmShown ==
  ASSUME NEW d, DsmReadable(d), NEW s, NEW body, DsmTokens(d, s, body)
  PROVE  HeaderShown(DsmParts, 7, DsmNames, {"flags1"}, DsmKinds, DsmHeader(d), DsmContents(d), s)
<1> DEFINE H == DsmHeader(d)
           x == DsmContents(d)
           f2 == DataSetFlags2(d)
           f1 == DataSetFlags1(d, f2)
<1>1. H["flags1"] = <<f1>> /\ H["flags2"] = When(f2 # {}, <<f2>>) /\ H = [m \in DsmNames |-> H[m]]
  <2>1. H = [m \in DsmNames |->
               CASE m = "flags1" -> <<f1>>
                 [] m = "flags2" -> When(f2 # {}, <<f2>>)
                 [] m = "sequenceNumber" -> d.sequenceNumber
                 [] m = "status" -> d.status
                 [] m = "major" -> d.major
                 [] m = "minor" -> d.minor
                 [] m = "timestamp" -> d.timestamp
                 [] m = "picoseconds" -> When(Has(d.timestamp), d.picoseconds)]
    BY Zenon DEF DsmHeader
  <2> HIDE DEF f1, f2, H
  <2> QED
    BY <2>1 DEF DsmNames
<1>2. Or(H["flags1"], {}) = f1 /\ Or(H["flags2"], {}) = f2
  <2> HIDE DEF f1, f2, H
  <2> QED
    BY <1>1, Some DEF When, Or, Has
<1>3. /\ x[1] = f2 /\ x[2] = Or(d.sequenceNumber, 0) /\ x[3] = Or(d.status, 0) /\ x[4] = Or(d.major, 0)
      /\ x[5] = Or(d.minor, 0) /\ x[6] = Or(d.timestamp, 0) /\ x[7] = Or(d.picoseconds, 0)
  BY DEF DsmContents
<1>4. /\ DsmKinds[1] = "flags" /\ DsmKinds[2] = "u16" /\ DsmKinds[3] = "u16" /\ DsmKinds[4] = "u32"
      /\ DsmKinds[5] = "u32" /\ DsmKinds[6] = "date" /\ DsmKinds[7] = "u16"
  BY DEF DsmKinds
<1>5. /\ s[1] = When("flags2" \in f1, <<<<"flags", f2>>>>)
      /\ s[2] = When("sequenceNumber" \in f1, <<<<"u16", Or(d.sequenceNumber, 0)>>>>)
      /\ s[3] = When("status" \in f1, <<<<"u16", Or(d.status, 0)>>>>)
      /\ s[4] = When("major" \in f1, <<<<"u32", Or(d.major, 0)>>>>)
      /\ s[5] = When("minor" \in f1, <<<<"u32", Or(d.minor, 0)>>>>)
      /\ s[6] = When("timestamp" \in f2, <<<<"date", Or(d.timestamp, 0)>>>>)
      /\ s[7] = When("picoseconds" \in f2, <<<<"u16", Or(d.picoseconds, 0)>>>>)
  BY DEF DsmTokens
<1>6. /\ "sequenceNumber" \in f1 <=> Has(d.sequenceNumber)
      /\ "status" \in f1 <=> Has(d.status)
      /\ "major" \in f1 <=> Has(d.major)
      /\ "minor" \in f1 <=> Has(d.minor)
      /\ "flags2" \in f1 <=> f2 # {}
      /\ "timestamp" \in f2 <=> Has(d.timestamp)
      /\ "picoseconds" \in f2 <=> Has(d.timestamp) /\ Has(d.picoseconds)
  BY DsmFlags
<1>7. /\ H["sequenceNumber"] = d.sequenceNumber /\ H["status"] = d.status /\ H["major"] = d.major
      /\ H["minor"] = d.minor /\ H["timestamp"] = d.timestamp
      /\ H["picoseconds"] = When(Has(d.timestamp), d.picoseconds)
  <2> HIDE DEF f1, f2
  <2> QED
    BY DsmRecovered
<1>8. /\ IsSetting(d.sequenceNumber) /\ IsSetting(d.status) /\ IsSetting(d.major) /\ IsSetting(d.minor)
      /\ IsSetting(d.timestamp) /\ IsSetting(d.picoseconds)
  BY DEF DsmReadable, IsDsm
<1> HIDE DEF H, x, f2, f1
<1>9. PartShown(DsmParts[1], DsmKinds[1], H, x[1], s[1])
  <2>1. "flags2" \in f1 => H["flags2"] = <<f2>>
    BY <1>1, <1>6 DEF When
  <2>2. "flags2" \notin f1 => H["flags2"] = <<>>
    BY <1>1, <1>6 DEF When
  <2>3. PartShown(DsmParts[1], "flags", H, f2, s[1])
    <3>1. TokenShows(H, f1, "flags2", "flags2", "flags", f2, s[1])
      BY ONLY <1>5, <2>1, <2>2 DEF TokenShows
    <3>2. PartOf(DsmParts, 1, "flags2", "flags", "flags1", "flags2")
      BY DsmOrder
    <3> QED
      BY ONLY <1>2, <3>1, <3>2, PartIsShown
  <2> QED
    BY ONLY <1>3, <1>4, <2>3
<1>10. PartShown(DsmParts[2], DsmKinds[2], H, x[2], s[2])
  <2>1. /\ "sequenceNumber" \in f1 => H["sequenceNumber"] = <<Or(d.sequenceNumber, 0)>>
        /\ "sequenceNumber" \notin f1 => H["sequenceNumber"] = <<>>
    BY ONLY <1>6, <1>7, <1>8, SettingRead
  <2>2. PartShown(DsmParts[2], "u16", H, Or(d.sequenceNumber, 0), s[2])
    <3>1. TokenShows(H, f1, "sequenceNumber", "sequenceNumber", "u16", Or(d.sequenceNumber, 0), s[2])
      BY ONLY <1>5, <2>1 DEF TokenShows
    <3>2. PartOf(DsmParts, 2, "sequenceNumber", "u16", "flags1", "sequenceNumber")
      BY DsmOrder
    <3> QED
      BY ONLY <1>2, <3>1, <3>2, PartIsShown
  <2> QED
    BY ONLY <1>3, <1>4, <2>2
<1>11. PartShown(DsmParts[3], DsmKinds[3], H, x[3], s[3])
  <2>1. /\ "status" \in f1 => H["status"] = <<Or(d.status, 0)>>
        /\ "status" \notin f1 => H["status"] = <<>>
    BY ONLY <1>6, <1>7, <1>8, SettingRead
  <2>2. PartShown(DsmParts[3], "u16", H, Or(d.status, 0), s[3])
    <3>1. TokenShows(H, f1, "status", "status", "u16", Or(d.status, 0), s[3])
      BY ONLY <1>5, <2>1 DEF TokenShows
    <3>2. PartOf(DsmParts, 3, "status", "u16", "flags1", "status")
      BY DsmOrder
    <3> QED
      BY ONLY <1>2, <3>1, <3>2, PartIsShown
  <2> QED
    BY ONLY <1>3, <1>4, <2>2
<1>12. PartShown(DsmParts[4], DsmKinds[4], H, x[4], s[4])
  <2>1. /\ "major" \in f1 => H["major"] = <<Or(d.major, 0)>>
        /\ "major" \notin f1 => H["major"] = <<>>
    BY ONLY <1>6, <1>7, <1>8, SettingRead
  <2>2. PartShown(DsmParts[4], "u32", H, Or(d.major, 0), s[4])
    <3>1. TokenShows(H, f1, "major", "major", "u32", Or(d.major, 0), s[4])
      BY ONLY <1>5, <2>1 DEF TokenShows
    <3>2. PartOf(DsmParts, 4, "major", "u32", "flags1", "major")
      BY DsmOrder
    <3> QED
      BY ONLY <1>2, <3>1, <3>2, PartIsShown
  <2> QED
    BY ONLY <1>3, <1>4, <2>2
<1>13. PartShown(DsmParts[5], DsmKinds[5], H, x[5], s[5])
  <2>1. /\ "minor" \in f1 => H["minor"] = <<Or(d.minor, 0)>>
        /\ "minor" \notin f1 => H["minor"] = <<>>
    BY ONLY <1>6, <1>7, <1>8, SettingRead
  <2>2. PartShown(DsmParts[5], "u32", H, Or(d.minor, 0), s[5])
    <3>1. TokenShows(H, f1, "minor", "minor", "u32", Or(d.minor, 0), s[5])
      BY ONLY <1>5, <2>1 DEF TokenShows
    <3>2. PartOf(DsmParts, 5, "minor", "u32", "flags1", "minor")
      BY DsmOrder
    <3> QED
      BY ONLY <1>2, <3>1, <3>2, PartIsShown
  <2> QED
    BY ONLY <1>3, <1>4, <2>2
<1>14. PartShown(DsmParts[6], DsmKinds[6], H, x[6], s[6])
  <2>1. /\ "timestamp" \in f2 => H["timestamp"] = <<Or(d.timestamp, 0)>>
        /\ "timestamp" \notin f2 => H["timestamp"] = <<>>
    BY ONLY <1>6, <1>7, <1>8, SettingRead
  <2>2. PartShown(DsmParts[6], "date", H, Or(d.timestamp, 0), s[6])
    <3>1. TokenShows(H, f2, "timestamp", "timestamp", "date", Or(d.timestamp, 0), s[6])
      BY ONLY <1>5, <2>1 DEF TokenShows
    <3>2. PartOf(DsmParts, 6, "timestamp", "date", "flags2", "timestamp")
      BY DsmOrder
    <3> QED
      BY ONLY <1>2, <3>1, <3>2, PartIsShown
  <2> QED
    BY ONLY <1>3, <1>4, <2>2
<1>15. PartShown(DsmParts[7], DsmKinds[7], H, x[7], s[7])
  <2>1. /\ "picoseconds" \in f2 => H["picoseconds"] = <<Or(d.picoseconds, 0)>>
        /\ "picoseconds" \notin f2 => H["picoseconds"] = <<>>
    BY ONLY <1>6, <1>7, <1>8, SettingRead DEF When
  <2>2. PartShown(DsmParts[7], "u16", H, Or(d.picoseconds, 0), s[7])
    <3>1. TokenShows(H, f2, "picoseconds", "picoseconds", "u16", Or(d.picoseconds, 0), s[7])
      BY ONLY <1>5, <2>1 DEF TokenShows
    <3>2. PartOf(DsmParts, 7, "picoseconds", "u16", "flags2", "picoseconds")
      BY DsmOrder
    <3> QED
      BY ONLY <1>2, <3>1, <3>2, PartIsShown
  <2> QED
    BY ONLY <1>3, <1>4, <2>2
<1>16. \A k \in 1 .. 7 : k = 1 \/ k = 2 \/ k = 3 \/ k = 4 \/ k = 5 \/ k = 6 \/ k = 7
  OBVIOUS
<1>17. \A k \in 1 .. 7 : PartShown(DsmParts[k], DsmKinds[k], H, x[k], s[k])
  BY ONLY <1>9, <1>10, <1>11, <1>12, <1>13, <1>14, <1>15, <1>16
<1>18. HeaderShown(DsmParts, 7, DsmNames, {"flags1"}, DsmKinds, H, x, s)
  BY <1>1, <1>17, DsmOrder DEF HeaderShown
<1> QED
  BY <1>18 DEF H, x

(* The fields after the header.                                             *)
LEMMA DsmBodyRead ==
  ASSUME NEW d, DsmReadable(d), NEW body,
         body = When(d.messageType # "keepalive",
                  <<<<"u16", Len(d.fields)>>>> \o FlattenSeq(FieldTokens(d.fieldEncoding, d.fields))),
         NEW r, IsSequence(r), NEW q, q = At(Join(body, r), DsmHeader(d))
  PROVE  IsSequence(body) /\ DsmBody(q) = At(r, DsmBack(d).fields)
<1> DEFINE H == DsmHeader(d)
           fs == d.fields
           encoding == d.fieldEncoding
<1>1. MessageType(H) = d.messageType /\ FieldEncoding(H) = encoding
  BY DsmRecovered
<1>2. q.val = H /\ q.ok = TRUE
  BY DEF At
<1> HIDE DEF H
<1>3. CASE d.messageType = "keepalive"
  <2>1. body = <<>> /\ DsmBack(d).fields = <<>>
    BY <1>3 DEF When, DsmBack
  <2>2. Join(body, r) = r /\ IsSequence(body)
    BY <2>1, FirstJoined, EmptySequence DEF Join
  <2>3. DsmBody(q) = [q EXCEPT !.val = <<>>]
    BY ONLY <1>1, <1>2, <1>3, Zenon DEF DsmBody
  <2>4. [At(r, H) EXCEPT !.val = <<>>] = At(r, <<>>)
    BY ONLY ValueSet
  <2>5. q = At(r, H)
    BY <2>2 DEF H
  <2> QED
    BY ONLY <2>1, <2>2, <2>3, <2>4, <2>5
<1>4. CASE d.messageType # "keepalive"
  <2> DEFINE ss == FieldTokens(encoding, fs)
             s == FlattenSeq(ss)
             n == Len(fs)
             a == <<<<"u16", n>>>>
             q2 == At(Join(s, r), n)
  <2>1. /\ IsSequence(s)
        /\ ReadFields(q2, encoding, n) = At(r, FieldsBack(encoding, fs))
    <3>1. IsSequence(fs) /\ \A i \in 1 .. Len(fs) : FieldReadable(encoding, fs[i])
      BY <1>4 DEF DsmReadable, IsDsm
    <3> HIDE DEF fs, encoding, n
    <3>2. IsSequence(FlattenSeq(ss))
          /\ ReadFields(At(Join(FlattenSeq(ss), r), n), encoding, Len(fs)) = At(r, FieldsBack(encoding, fs))
      BY <3>1, FieldsRead
    <3> QED
      BY <3>2 DEF n
  <2>2. body = a \o s
    BY <1>4 DEF When
  <2>3. IsSequence(a) /\ DsmBack(d).fields = FieldsBack(encoding, fs)
    BY <1>4, WhenSequence DEF DsmBack
  <2> HIDE DEF ss, s
  <2>4. IsSequence(Join(a, s)) /\ IsSequence(Join(s, r)) /\ Join(Join(a, s), r) = Join(a, Join(s, r)) /\ body = Join(a, s)
    <3>1. body = Join(a, s)
      BY <2>2 DEF Join
    <3> HIDE DEF a
    <3> QED
      BY <2>1, <2>3, <3>1, Joined, JoinedThrice
  <2>5. Read(q, "u16") = q2
    <3>1. q = At(a \o Join(s, r), H)
      BY <2>4 DEF H, Join
    <3>2. Read(At(a \o Join(s, r), H), "u16") = q2
      BY <2>4, TokenRead
    <3> HIDE DEF a, q2
    <3> QED
      BY ONLY <3>1, <3>2
  <2>6. q2.ok = TRUE /\ q2.val = n
    BY DEF At
  <2> HIDE DEF q2, n, fs, encoding
  <2>7. CountedFields(q2, encoding) = At(r, FieldsBack(encoding, fs))
    BY ONLY <2>1, <2>6, Zenon DEF CountedFields
  <2>8. DsmBody(q) = CountedFields(q2, encoding)
    BY ONLY <1>1, <1>2, <1>4, <2>5, Zenon DEF DsmBody
  <2> QED
    BY <2>3, <2>4, <2>7, <2>8
<1> QED
  BY <1>3, <1>4

(* What is made of the header and the fields.                               *)
LEMMA DsmAfterRead ==
  ASSUME NEW d, DsmReadable(d), NEW r, NEW q, q.ok = TRUE, q.val = DsmHeader(d),
         DsmBody(q) = At(r, DsmBack(d).fields)
  PROVE  DsmAfter(q) = At(r, DsmBack(d))
<1> DEFINE H == DsmHeader(d)
           fs == DsmBack(d).fields
           b == [valid |-> "valid" \in Get(H.flags1), fieldEncoding |-> FieldEncoding(H),
                 messageType |-> MessageType(H), dataSetWriterId |-> <<>>, writerName |-> <<>>,
                 sequenceNumber |-> H.sequenceNumber, status |-> H.status, major |-> H.major,
                 minor |-> H.minor, timestamp |-> H.timestamp, picoseconds |-> H.picoseconds,
                 fields |-> fs]
<1>1. /\ MessageType(H) = d.messageType /\ FieldEncoding(H) = d.fieldEncoding
      /\ "rawdata" \notin Get(H.flags1) /\ d.valid = ("valid" \in Get(H.flags1))
      /\ H.sequenceNumber = d.sequenceNumber /\ H.status = d.status /\ H.major = d.major
      /\ H.minor = d.minor /\ H.timestamp = d.timestamp
      /\ H.picoseconds = When(Has(d.timestamp), d.picoseconds)
  BY DsmRecovered
<1>2. At(r, fs).val = fs
  BY DEF At
<1>3. q.val = H
  OBVIOUS
<1>4. b = DsmBack(d)
  <2>1. b = [valid |-> d.valid, fieldEncoding |-> d.fieldEncoding, messageType |-> d.messageType,
             dataSetWriterId |-> <<>>, writerName |-> <<>>, sequenceNumber |-> d.sequenceNumber, status |-> d.status,
             major |-> d.major, minor |-> d.minor, timestamp |-> d.timestamp,
             picoseconds |-> When(Has(d.timestamp), d.picoseconds), fields |-> fs]
    <3> HIDE DEF H, fs
    <3> QED
      BY ONLY <1>1, ZenonT(30)
  <2>2. fs = IF d.messageType = "keepalive" THEN <<>> ELSE FieldsBack(d.fieldEncoding, d.fields)
    BY DEF DsmBack
  <2> HIDE DEF fs, b, H
  <2> QED
    BY ONLY <2>1, <2>2 DEF DsmBack
<1>5. DsmBody(q) = At(r, fs)
  OBVIOUS
<1>6. DsmAfter(q) = [At(r, fs) EXCEPT !.val = b]
  <2> HIDE DEF H, fs
  <2> QED
    BY ONLY <1>1, <1>2, <1>3, <1>5, q.ok = TRUE, ZenonT(60) DEF DsmAfter
<1>7. [At(r, fs) EXCEPT !.val = b] = At(r, b)
  BY ONLY ValueSet
<1> HIDE DEF b
<1> QED
  BY ONLY <1>4, <1>6, <1>7

-----------------------------------------------------------------------------
(* A data set message comes back, whatever follows it.                      *)
LEMMA DsmRead ==
  ASSUME NEW d, DsmReadable(d), NEW r, IsSequence(r), NEW x
  PROVE  /\ IsSequence(EncodeDataSetMessage(d))
         /\ Join(EncodeDataSetMessage(d), r) # <<>> /\ TokenBytes(Join(EncodeDataSetMessage(d), r)[1]) = 1
         /\ DecodeDataSetMessage(At(Join(EncodeDataSetMessage(d), r), x)) = At(r, DsmBack(d))
<1> DEFINE f2 == DataSetFlags2(d)
           f1 == DataSetFlags1(d, f2)
           H == DsmHeader(d)
           a == <<<<"flags", f1>>>>
           s1 == When("flags2" \in f1, <<<<"flags", f2>>>>)
           s2 == When("sequenceNumber" \in f1, <<<<"u16", Or(d.sequenceNumber, 0)>>>>)
           s3 == When("status" \in f1, <<<<"u16", Or(d.status, 0)>>>>)
           s4 == When("major" \in f1, <<<<"u32", Or(d.major, 0)>>>>)
           s5 == When("minor" \in f1, <<<<"u32", Or(d.minor, 0)>>>>)
           s6 == When("timestamp" \in f2, <<<<"date", Or(d.timestamp, 0)>>>>)
           s7 == When("picoseconds" \in f2, <<<<"u16", Or(d.picoseconds, 0)>>>>)
           body == When(d.messageType # "keepalive",
                        <<<<"u16", Len(d.fields)>>>> \o FlattenSeq(FieldTokens(d.fieldEncoding, d.fields)))
           s == <<s1, s2, s3, s4, s5, s6, s7>>
           J1 == Join(a, s1)
           J2 == Join(J1, s2)
           J3 == Join(J2, s3)
           J4 == Join(J3, s4)
           J5 == Join(J4, s5)
           J6 == Join(J5, s6)
           J7 == Join(J6, s7)
           J == [k \in 0 .. 7 |-> <<a, J1, J2, J3, J4, J5, J6, J7>>[k + 1]]
           e == EncodeDataSetMessage(d)
<1>1. e = Join(J7, body)
  <2>1. FieldTokens(d.fieldEncoding, d.fields) = [i \in DOMAIN d.fields |-> WriteField(d.fieldEncoding, d.fields[i])]
    BY SequenceFacts DEF FieldTokens, DsmReadable, IsDsm
  <2> HIDE DEF f1, f2
  <2>2. e = a \o s1 \o s2 \o s3 \o s4 \o s5 \o s6 \o s7 \o body
    BY <2>1, Zenon DEF EncodeDataSetMessage, f1, f2
  <2> HIDE DEF e, a, s1, s2, s3, s4, s5, s6, s7, body
  <2> QED
    BY <2>2, Zenon DEF Join
<1>2. DsmTokens(d, s, body)
  <2>1. /\ s[1] = s1 /\ s[2] = s2 /\ s[3] = s3 /\ s[4] = s4 /\ s[5] = s5 /\ s[6] = s6 /\ s[7] = s7
    <3> HIDE DEF s1, s2, s3, s4, s5, s6, s7
    <3> QED
      OBVIOUS
  <2> HIDE DEF s, f1, f2, body
  <2> QED
    BY <2>1, Zenon DEF DsmTokens, f1, f2, body
<1>3. /\ IsSequence(a) /\ IsSequence(s1) /\ IsSequence(s2) /\ IsSequence(s3) /\ IsSequence(s4)
      /\ IsSequence(s5) /\ IsSequence(s6) /\ IsSequence(s7)
  <2> HIDE DEF f1, f2
  <2> QED
    BY WhenSequence
<1>4. body = When(d.messageType # "keepalive",
                  <<<<"u16", Len(d.fields)>>>> \o FlattenSeq(FieldTokens(d.fieldEncoding, d.fields)))
  OBVIOUS
<1> HIDE DEF f1, f2, H, a, s1, s2, s3, s4, s5, s6, s7, body, e
<1>5. IsSequence(body)
  BY ONLY <1>4, DsmReadable(d), IsSequence(r), DsmBodyRead
<1>6. /\ s[1] = s1 /\ s[2] = s2 /\ s[3] = s3 /\ s[4] = s4 /\ s[5] = s5 /\ s[6] = s6 /\ s[7] = s7
  OBVIOUS
<1>7. /\ IsSequence(J1) /\ IsSequence(J2) /\ IsSequence(J3) /\ IsSequence(J4) /\ IsSequence(J5)
      /\ IsSequence(J6) /\ IsSequence(J7)
  <2>1. IsSequence(J1)
    BY ONLY <1>3, Joined
  <2>2. IsSequence(J2)
    BY ONLY <1>3, <2>1, Joined
  <2>3. IsSequence(J3)
    BY ONLY <1>3, <2>2, Joined
  <2>4. IsSequence(J4)
    BY ONLY <1>3, <2>3, Joined
  <2>5. IsSequence(J5)
    BY ONLY <1>3, <2>4, Joined
  <2>6. IsSequence(J6)
    BY ONLY <1>3, <2>5, Joined
  <2>7. IsSequence(J7)
    BY ONLY <1>3, <2>6, Joined
  <2> QED
    BY ONLY <2>1, <2>2, <2>3, <2>4, <2>5, <2>6, <2>7
<1>8. /\ J1 = Join(a, s1) /\ J2 = Join(J1, s2) /\ J3 = Join(J2, s3) /\ J4 = Join(J3, s4) /\ J5 = Join(J4, s5)
      /\ J6 = Join(J5, s6) /\ J7 = Join(J6, s7)
  OBVIOUS
<1> HIDE DEF J1, J2, J3, J4, J5, J6, J7
<1>9. J[0] = a /\ J[1] = J1 /\ J[2] = J2 /\ J[3] = J3 /\ J[4] = J4 /\ J[5] = J5 /\ J[6] = J6 /\ J[7] = J7
  OBVIOUS
<1> HIDE DEF s, J
<1>10. ASSUME NEW k \in 1 .. 7
       PROVE  IsSequence(s[k]) /\ J[k] = Join(J[k - 1], s[k])
  <2>1. k = 1 \/ k = 2 \/ k = 3 \/ k = 4 \/ k = 5 \/ k = 6 \/ k = 7
    OBVIOUS
  <2>2. IsSequence(s[k])
    BY ONLY <1>3, <1>6, <2>1
  <2>3. J[k] = Join(J[k - 1], s[k])
    BY <1>6, <1>8, <1>9, <2>1
  <2> QED
    BY <2>2, <2>3
<1>11. Prefix(J, s, 7)
  BY <1>3, <1>9, <1>10 DEF Prefix
<1>12. IsSequence(Join(body, r)) /\ IsSequence(e) /\ Join(e, r) = Join(J[7], Join(body, r))
  BY <1>1, <1>5, <1>7, <1>9, Joined, JoinedThrice
<1>13. PICK g : Suffix(g, s, 7, Join(body, r)) /\ Join(J[0], g[0]) = Join(J[7], Join(body, r))
  <2>1. 7 \in Nat
    OBVIOUS
  <2> QED
    BY ONLY <1>11, <1>12, <2>1, SuffixesExist
<1>14. IsSequence(g[0])
  BY <1>13 DEF Suffix
<1> DEFINE p == At(Join(e, r), x)
<1>15. Opened(p, DsmNames, "flags1") = At(g[0], Before(DsmNames, {"flags1"}, H))
  <2>1. p = At(Join(<<<<"flags", f1>>>>, g[0]), x)
    BY <1>9, <1>12, <1>13 DEF a
  <2>2. Opened(At(Join(<<<<"flags", f1>>>>, g[0]), x), DsmNames, "flags1")
          = At(g[0], [n \in DsmNames |-> IF n = "flags1" THEN <<f1>> ELSE <<>>])
    BY ONLY <1>14, FirstByte
  <2>3. [n \in DsmNames |-> IF n = "flags1" THEN <<f1>> ELSE <<>>] = Before(DsmNames, {"flags1"}, H)
    <3>1. H["flags1"] = <<f1>>
      BY DEF H, DsmHeader, f1, f2, DsmNames
    <3> QED
      BY <3>1 DEF Before
  <2> QED
    BY <2>1, <2>2, <2>3
<1>16. ReadParts(At(g[0], Before(DsmNames, {"flags1"}, H)), DsmParts, OwnKind) = At(Join(body, r), H)
  <2>1. HeaderShown(DsmParts, 7, DsmNames, {"flags1"}, DsmKinds, H, DsmContents(d), s)
    BY <1>2, DsmShown DEF H
  <2>2. \A k \in 1 .. 7 : DsmKinds[k] = DsmParts[k][2]
    <3>1. \A k \in 1 .. 7 : k = 1 \/ k = 2 \/ k = 3 \/ k = 4 \/ k = 5 \/ k = 6 \/ k = 7
      OBVIOUS
    <3> QED
      BY <3>1, DsmOrder DEF PartOf, DsmKinds
  <2>3. 7 \in Nat
    OBVIOUS
  <2>4. Suffix(g, s, 7, Join(body, r))
    BY <1>13
  <2> QED
    BY ONLY <2>1, <2>2, <2>3, <2>4, OwnPartsRead
<1>17. DsmAfter(At(Join(body, r), H)) = At(r, DsmBack(d))
  <2> DEFINE q == At(Join(body, r), H)
  <2>1. q.ok = TRUE /\ q.val = H
    BY DEF At
  <2>2. DsmBody(q) = At(r, DsmBack(d).fields)
    <3>1. q = At(Join(body, r), DsmHeader(d))
      BY DEF H
    <3> HIDE DEF q
    <3> QED
      BY ONLY <1>4, <3>1, DsmReadable(d), IsSequence(r), DsmBodyRead
  <2>3. q.val = DsmHeader(d)
    BY <2>1 DEF H
  <2> HIDE DEF q
  <2>4. DsmAfter(q) = At(r, DsmBack(d))
    BY ONLY <2>1, <2>2, <2>3, DsmReadable(d), DsmAfterRead
  <2> QED
    BY <2>4 DEF q
<1>18. DecodeDataSetMessage(p) = At(r, DsmBack(d))
  <2> HIDE DEF p
  <2> QED
    BY ONLY <1>15, <1>16, <1>17, Zenon DEF DecodeDataSetMessage
<1>19. Join(e, r) # <<>> /\ TokenBytes(Join(e, r)[1]) = 1
  <2>1. Join(e, r) = <<<<"flags", f1>>>> \o g[0]
    BY <1>9, <1>12, <1>13 DEF a, Join
  <2>2. g[0] \in Seq(ToSet(g[0]))
    BY <1>14 DEF IsSequence
  <2>3. Join(e, r) # <<>> /\ Join(e, r)[1] = <<"flags", f1>>
    BY <2>1, <2>2
  <2>4. TokenBytes(<<"flags", f1>>) = 1
    BY DEF TokenBytes
  <2> QED
    BY ONLY <2>3, <2>4
<1> QED
  BY <1>12, <1>18, <1>19 DEF p, e

-----------------------------------------------------------------------------
(* The flags of a network message, and what its header has on the wire.     *)
Flags2(h) == ExtendedFlags2(h)
Flags1(h) == ExtendedFlags1(h, Flags2(h))
Flags0(h) == UADPFlags(h, Flags1(h))
FlagByte(h, byte) == IF byte = "flags" THEN Flags0(h) ELSE IF byte = "ext1" THEN Flags1(h) ELSE Flags2(h)

IdKind(h) == IF TypeBits(h.publisherId) # {} THEN PublisherIdType(Get(h.publisherId)) ELSE "u8"
IdContent(h) ==
  LET id == IF Has(h.publisherId) THEN Get(h.publisherId) ELSE Null IN
  IF IdKind(h) = "string" THEN id ELSE id[2]
NmContents(h, c) ==
  LET gh == h.groupHeader[1] IN
  <<Flags1(h), Flags2(h), IdContent(h), Or(h.dataSetClassId, Null), gh.writerGroupId, Or(gh.groupVersion, 0),
    Or(gh.networkMessageNumber, 0), gh.sequenceNumber, h.ids, Or(h.timestamp, 0), Or(h.picoseconds, 0), c>>
NmKinds(h) == [k \in 1 .. 12 |-> IF k = 3 THEN IdKind(h) ELSE NmParts[k][2]]
NmTokens(h, c) ==
  [k \in 1 .. 12 |-> When(NmParts[k][4] \in FlagByte(h, NmParts[k][3]), <<<<NmKinds(h)[k], NmContents(h, c)[k]>>>>)]
NmHeader(h, c) ==
  [m \in NmNames |->
     IF m = "flags" THEN <<Flags0(h)>>
     ELSE LET k == CHOOSE k \in 1 .. 12 : NmParts[k][1] = m IN
          When(NmParts[k][4] \in FlagByte(h, NmParts[k][3]), <<NmContents(h, c)[k]>>)]

(* The parts of the header of a network message come in order.              *)
LEMMA NmOrder ==
  /\ InOrder(NmParts, 12, NmNames, {"flags"})
  /\ \A j, k \in 1 .. 12 : NmParts[j][1] = NmParts[k][1] => j = k
  /\ \A k \in 1 .. 12 : NmParts[k][3] \in {"flags", "ext1", "ext2"} /\ NmParts[k][1] \in NmNames \ {"flags"}
  /\ \A k \in 1 .. 12 : NmParts[k][1] = "publisherId" <=> k = 3
<1> DEFINE name == <<"ext1", "ext2", "publisherId", "classId", "writerGroupId", "groupVersion",
                     "networkMessageNumber", "sequenceNumber", "ids", "timestamp", "picoseconds", "chunk">>
           byte == <<"flags", "ext1", "flags", "ext1", "flags", "flags", "flags", "flags", "flags",
                     "ext1", "ext1", "ext2">>
<1>1. Len(NmParts) = 12 /\ DOMAIN NmParts = 1 .. 12
  BY DEF NmParts
<1>2. \A k \in 1 .. 12 : k = 1 \/ k = 2 \/ k = 3 \/ k = 4 \/ k = 5 \/ k = 6 \/ k = 7 \/ k = 8 \/ k = 9 \/ k = 10
                         \/ k = 11 \/ k = 12
  OBVIOUS
<1>3. ASSUME NEW k \in 1 .. 12
      PROVE  NmParts[k][1] = name[k] /\ NmParts[k][3] = byte[k]
  <2>1. /\ name[1] = "ext1" /\ name[2] = "ext2" /\ name[3] = "publisherId" /\ name[4] = "classId"
        /\ name[5] = "writerGroupId" /\ name[6] = "groupVersion" /\ name[7] = "networkMessageNumber"
        /\ name[8] = "sequenceNumber" /\ name[9] = "ids" /\ name[10] = "timestamp" /\ name[11] = "picoseconds"
        /\ name[12] = "chunk"
    OBVIOUS
  <2>2. /\ byte[1] = "flags" /\ byte[2] = "ext1" /\ byte[3] = "flags" /\ byte[4] = "ext1" /\ byte[5] = "flags"
        /\ byte[6] = "flags" /\ byte[7] = "flags" /\ byte[8] = "flags" /\ byte[9] = "flags" /\ byte[10] = "ext1"
        /\ byte[11] = "ext1" /\ byte[12] = "ext2"
    OBVIOUS
  <2>3. /\ NmParts[1][1] = "ext1" /\ NmParts[2][1] = "ext2" /\ NmParts[3][1] = "publisherId"
        /\ NmParts[4][1] = "classId" /\ NmParts[5][1] = "writerGroupId" /\ NmParts[6][1] = "groupVersion"
        /\ NmParts[7][1] = "networkMessageNumber" /\ NmParts[8][1] = "sequenceNumber" /\ NmParts[9][1] = "ids"
        /\ NmParts[10][1] = "timestamp" /\ NmParts[11][1] = "picoseconds" /\ NmParts[12][1] = "chunk"
    BY HeaderParts DEF PartIs
  <2>4. /\ NmParts[1][3] = "flags" /\ NmParts[2][3] = "ext1" /\ NmParts[3][3] = "flags" /\ NmParts[4][3] = "ext1"
        /\ NmParts[5][3] = "flags" /\ NmParts[6][3] = "flags" /\ NmParts[7][3] = "flags" /\ NmParts[8][3] = "flags"
        /\ NmParts[9][3] = "flags" /\ NmParts[10][3] = "ext1" /\ NmParts[11][3] = "ext1" /\ NmParts[12][3] = "ext2"
    BY HeaderParts DEF PartIs
  <2> HIDE DEF name, byte
  <2>5. NmParts[k][1] = name[k]
    BY ONLY <1>2, <2>1, <2>3, k \in 1 .. 12
  <2>6. NmParts[k][3] = byte[k]
    BY ONLY <1>2, <2>2, <2>4, k \in 1 .. 12
  <2> QED
    BY <2>5, <2>6
<1>4. \A j, k \in 1 .. 12 : name[j] = name[k] => j = k
  <2> SUFFICES ASSUME NEW j \in 1 .. 12, NEW k \in 1 .. 12, j < k
               PROVE  name[j] # name[k]
    OBVIOUS
  <2> QED
    BY <1>2
<1>5. \A k \in 1 .. 12 : byte[k] \in {"flags", "ext1", "ext2"} /\ name[k] # "flags" /\ (name[k] = "publisherId" <=> k = 3)
  BY <1>2
<1>6. NmNames = {"flags"} \cup {NmParts[k][1] : k \in 1 .. 12}
  BY <1>1 DEF NmNames
<1>7. ASSUME NEW k \in 1 .. 12
      PROVE  NmParts[k][3] \in {"flags"} \/ \E j \in 1 .. k - 1 : NmParts[j][1] = NmParts[k][3]
  <2>1. CASE byte[k] = "flags"
    BY <1>3, <2>1
  <2>2. CASE byte[k] = "ext1"
    <3>1. k >= 2
      BY <1>2, <2>2
    <3>2. 1 \in 1 .. k - 1 /\ name[1] = "ext1" /\ 1 \in 1 .. 12
      BY <3>1
    <3> HIDE DEF name, byte
    <3> QED
      BY <1>3, <2>2, <3>2
  <2>3. CASE byte[k] = "ext2"
    <3>1. k >= 3
      BY <1>2, <2>3
    <3>2. 2 \in 1 .. k - 1 /\ name[2] = "ext2" /\ 2 \in 1 .. 12
      BY <3>1
    <3> HIDE DEF name, byte
    <3> QED
      BY <1>3, <2>3, <3>2
  <2> QED
    BY <1>5, <2>1, <2>2, <2>3
<1> HIDE DEF name, byte
<1>8. \A k \in 1 .. 12 : NmParts[k][3] \in {"flags", "ext1", "ext2"} /\ NmParts[k][1] \in NmNames \ {"flags"}
  BY <1>3, <1>5, <1>6
<1>9. InOrder(NmParts, 12, NmNames, {"flags"})
  BY <1>1, <1>6, <1>7 DEF InOrder
<1>10. \A j, k \in 1 .. 12 : NmParts[j][1] = NmParts[k][1] => j = k
  BY <1>3, <1>4
<1>11. \A k \in 1 .. 12 : NmParts[k][1] = "publisherId" <=> k = 3
  BY <1>3, <1>5
<1> QED
  BY <1>8, <1>9, <1>10, <1>11

(* A byte of flags is there if any of its flags is set.                     *)
LEMMA NmFlags ==
  ASSUME NEW h
  PROVE  /\ "ext1" \in Flags0(h) <=> Flags1(h) # {}
         /\ "ext2" \in Flags1(h) <=> Flags2(h) # {}
         /\ Flags1(h) \cap {"u16", "u32", "u64", "string"} = TypeBits(h.publisherId)
         /\ "classId" \in Flags1(h) <=> Has(h.dataSetClassId)
         /\ "timestamp" \in Flags1(h) <=> Has(h.timestamp)
         /\ "picoseconds" \in Flags1(h) <=> Has(h.timestamp) /\ Has(h.picoseconds)
         /\ "version" \in Flags0(h)
         /\ "publisherId" \in Flags0(h) <=> Has(h.publisherId)
         /\ "groupHeader" \in Flags0(h) <=> Has(h.groupHeader)
         /\ "payloadHeader" \in Flags0(h) <=> h.ids # <<>>
<1> DEFINE bits == TypeBits(h.publisherId)
           f2 == Flags2(h)
           rest == Reason(Has(h.dataSetClassId), "classId") \cup Reason(Has(h.timestamp), "timestamp")
                   \cup Reason(Has(h.timestamp) /\ Has(h.picoseconds), "picoseconds") \cup Reason(f2 # {}, "ext2")
           f1 == Flags1(h)
<1>1. bits \subseteq {"u16", "u32", "u64", "string"}
  <2>1. \A v : PublisherIdType(v) \in {"string", "u64", "u8", "u16", "u32"}
    BY DEF PublisherIdType
  <2> QED
    BY <2>1 DEF TypeBits
<1>2. f1 = bits \cup rest
  BY DEF Flags1, ExtendedFlags1
<1>3. /\ rest \subseteq {"classId", "timestamp", "picoseconds", "ext2"}
      /\ "ext2" \in rest <=> f2 # {}
      /\ "classId" \in rest <=> Has(h.dataSetClassId)
      /\ "timestamp" \in rest <=> Has(h.timestamp)
      /\ "picoseconds" \in rest <=> Has(h.timestamp) /\ Has(h.picoseconds)
  <2> HIDE DEF f2
  <2> QED
    BY DEF Reason
<1> HIDE DEF bits, rest, f2
<1>4. f1 \cap {"u16", "u32", "u64", "string"} = bits
  BY <1>1, <1>2, <1>3
<1>5. /\ "ext2" \in f1 <=> f2 # {}
      /\ "classId" \in f1 <=> Has(h.dataSetClassId)
      /\ "timestamp" \in f1 <=> Has(h.timestamp)
      /\ "picoseconds" \in f1 <=> Has(h.timestamp) /\ Has(h.picoseconds)
  BY <1>1, <1>2, <1>3
<1>6. Flags0(h) = {"version"} \cup Reason(Has(h.publisherId), "publisherId")
                  \cup Reason(Has(h.groupHeader), "groupHeader") \cup Reason(h.ids # <<>>, "payloadHeader")
                  \cup Reason(f1 # {}, "ext1")
  BY DEF Flags0, UADPFlags
<1> HIDE DEF f1
<1>7. /\ "ext1" \in Flags0(h) <=> f1 # {}
      /\ "version" \in Flags0(h)
      /\ "publisherId" \in Flags0(h) <=> Has(h.publisherId)
      /\ "groupHeader" \in Flags0(h) <=> Has(h.groupHeader)
      /\ "payloadHeader" \in Flags0(h) <=> h.ids # <<>>
  BY <1>6 DEF Reason
<1> QED
  BY <1>4, <1>5, <1>7 DEF bits, f1, f2

(* A part of a header, if its flag announces it.                            *)
LEMMA NmHeaderPart ==
  ASSUME NEW h, NEW c, NEW k \in 1 .. 12
  PROVE  NmHeader(h, c)[NmParts[k][1]] = When(NmParts[k][4] \in FlagByte(h, NmParts[k][3]), <<NmContents(h, c)[k]>>)
<1> DEFINE H == NmHeader(h, c)
           m == NmParts[k][1]
           j == CHOOSE j \in 1 .. 12 : NmParts[j][1] = m
<1>1. j \in 1 .. 12 /\ NmParts[j][1] = m
  OBVIOUS
<1>2. m \in NmNames \ {"flags"} /\ j = k
  <2> HIDE DEF j
  <2> QED
    BY <1>1, NmOrder
<1>3. H[m] = When(NmParts[j][4] \in FlagByte(h, NmParts[j][3]), <<NmContents(h, c)[j]>>)
  BY <1>2 DEF NmHeader
<1> HIDE DEF j
<1> QED
  BY <1>2, <1>3

(* What is read of a header: each part that its flag announces.             *)
LEMMA NmHeaderParts ==
  ASSUME NEW h, NEW c
  PROVE  /\ NmHeader(h, c)["flags"] = <<Flags0(h)>>
         /\ \A k \in 1 .. 12 : NmHeader(h, c)[NmParts[k][1]]
              = When(NmParts[k][4] \in FlagByte(h, NmParts[k][3]), <<NmContents(h, c)[k]>>)
         /\ NmHeader(h, c) = [m \in NmNames |-> NmHeader(h, c)[m]]
         /\ \A byte \in {"flags", "ext1", "ext2"} : Or(NmHeader(h, c)[byte], {}) = FlagByte(h, byte)
<1> DEFINE H == NmHeader(h, c)
<1>1. H["flags"] = <<Flags0(h)>> /\ H = [m \in NmNames |-> H[m]]
  <2> DEFINE V(m) == LET k == CHOOSE k \in 1 .. 12 : NmParts[k][1] = m IN
                     When(NmParts[k][4] \in FlagByte(h, NmParts[k][3]), <<NmContents(h, c)[k]>>)
  <2>1. H = [m \in NmNames |-> IF m = "flags" THEN <<Flags0(h)>> ELSE V(m)]
    BY Zenon DEF NmHeader
  <2>2. "flags" \in NmNames
    BY HeaderParts
  <2> HIDE DEF H, V
  <2> QED
    BY <2>1, <2>2
<1>2. ASSUME NEW k \in 1 .. 12
      PROVE  H[NmParts[k][1]] = When(NmParts[k][4] \in FlagByte(h, NmParts[k][3]), <<NmContents(h, c)[k]>>)
  BY NmHeaderPart, ZenonT(60)
<1> HIDE DEF H
<1>3. H["ext1"] = When("ext1" \in Flags0(h), <<Flags1(h)>>)
  <2>1. NmContents(h, c)[1] = Flags1(h) /\ NmParts[1][1] = "ext1" /\ NmParts[1][3] = "flags" /\ NmParts[1][4] = "ext1"
    BY HeaderParts DEF NmContents, PartIs
  <2>2. FlagByte(h, "flags") = Flags0(h) /\ 1 \in 1 .. 12
    BY DEF FlagByte
  <2> QED
    BY <1>2, <2>1, <2>2
<1>4. H["ext2"] = When("ext2" \in Flags1(h), <<Flags2(h)>>)
  <2>1. NmContents(h, c)[2] = Flags2(h) /\ NmParts[2][1] = "ext2" /\ NmParts[2][3] = "ext1" /\ NmParts[2][4] = "ext2"
    BY HeaderParts DEF NmContents, PartIs
  <2>2. FlagByte(h, "ext1") = Flags1(h) /\ 2 \in 1 .. 12
    BY DEF FlagByte
  <2> QED
    BY <1>2, <2>1, <2>2
<1>5. ASSUME NEW F, NEW on, on <=> F # {}
      PROVE  Or(When(on, <<F>>), {}) = F
  <2>1. CASE on
    BY <2>1, Some DEF When
  <2>2. CASE ~on
    BY <1>5, <2>2 DEF When, Or, Has
  <2> QED
    BY <2>1, <2>2
<1>6. Or(H["flags"], {}) = FlagByte(h, "flags")
  BY <1>1, Some DEF FlagByte
<1>7. Or(H["ext1"], {}) = FlagByte(h, "ext1")
  <2>1. Or(When("ext1" \in Flags0(h), <<Flags1(h)>>), {}) = Flags1(h)
    BY <1>5, NmFlags
  <2> QED
    BY <1>3, <2>1 DEF FlagByte
<1>8. Or(H["ext2"], {}) = FlagByte(h, "ext2")
  <2>1. Or(When("ext2" \in Flags1(h), <<Flags2(h)>>), {}) = Flags2(h)
    BY <1>5, NmFlags
  <2> QED
    BY <1>4, <2>1 DEF FlagByte
<1> QED
  BY <1>1, <1>2, <1>6, <1>7, <1>8 DEF H

(* The type of the publisher's identifier is the one it was written with.   *)
LEMMA IdKindRead ==
  ASSUME NEW v, NEW h, Or(v["ext1"], {}) = Flags1(h)
  PROVE  IdType(v) = IdKind(h)
<1> DEFINE bits == TypeBits(h.publisherId)
           t == PublisherIdType(Get(h.publisherId))
           read == Or(v["ext1"], {}) \cap {"u16", "u32", "u64", "string"}
<1>1. read = bits
  BY NmFlags
<1>2. bits # {} => bits = {t}
  BY DEF TypeBits
<1>3. IdType(v) = IF read = {} THEN "u8" ELSE CHOOSE b \in read : TRUE
  BY DEF IdType
<1>4. IdKind(h) = IF bits # {} THEN t ELSE "u8"
  BY DEF IdKind
<1> HIDE DEF bits, t, read
<1>5. CASE bits = {}
  <2>1. IdType(v) = "u8"
    BY <1>1, <1>3, <1>5
  <2> QED
    BY <1>4, <1>5, <2>1
<1>6. CASE bits # {}
  <2>1. read = {t}
    BY <1>1, <1>2, <1>6
  <2>2. IdType(v) = CHOOSE b \in {t} : TRUE
    BY <1>3, <2>1
  <2>3. IdType(v) = t
    BY <2>2
  <2> QED
    BY <1>4, <1>6, <2>3
<1> QED
  BY <1>5, <1>6

(* The header of a network message, part by part.                           *)
LEMMA NmPartsRead ==
  ASSUME NEW h, NEW c, NEW g, NEW r, Suffix(g, NmTokens(h, c), 12, r)
  PROVE  ReadParts(At(g[0], Before(NmNames, {"flags"}, NmHeader(h, c))), NmParts, NmKind) = At(r, NmHeader(h, c))
<1>0. \A k \in 1 .. 12 : NmHeader(h, c)[NmParts[k][1]]
        = When(NmParts[k][4] \in FlagByte(h, NmParts[k][3]), <<NmContents(h, c)[k]>>)
  BY NmHeaderPart
<1> DEFINE H == NmHeader(h, c)
           s == NmTokens(h, c)
           x == NmContents(h, c)
           kind == NmKinds(h)
           names == NmNames
           early == {"flags"}
           n == 12
<1>1. n \in Nat
  OBVIOUS
<1>2. \A k \in 1 .. n : s[k] = When(NmParts[k][4] \in FlagByte(h, NmParts[k][3]), <<<<kind[k], x[k]>>>>)
  BY DEF NmTokens
<1>3. \A k \in 1 .. n : kind[k] = IF k = 3 THEN IdKind(h) ELSE NmParts[k][2]
  BY DEF NmKinds
<1>4. \A k \in 1 .. n : H[NmParts[k][1]] = When(NmParts[k][4] \in FlagByte(h, NmParts[k][3]), <<x[k]>>)
  BY ONLY <1>0
<1>5. H = [m \in names |-> H[m]] /\ Or(H["ext1"], {}) = Flags1(h)
      /\ \A byte \in {"flags", "ext1", "ext2"} : Or(H[byte], {}) = FlagByte(h, byte)
  BY NmHeaderParts DEF FlagByte
<1>6. /\ InOrder(NmParts, n, names, early)
      /\ \A k \in 1 .. n : NmParts[k][3] \in {"flags", "ext1", "ext2"}
      /\ \A k \in 1 .. n : NmParts[k][1] = "publisherId" <=> k = 3
  BY NmOrder
<1>7. NmParts[1][1] = "ext1"
  BY HeaderParts DEF PartIs
<1>8. Suffix(g, s, n, r)
  OBVIOUS
<1> HIDE DEF H, s, x, kind, names, early
<1>9. ASSUME NEW k \in 1 .. n
      PROVE  PartShown(NmParts[k], kind[k], H, x[k], s[k])
  <2> DEFINE part == NmParts[k]
             F == FlagByte(h, part[3])
  <2>1. Or(H[part[3]], {}) = F
    BY <1>5, <1>6
  <2>2. s[k] = When(part[4] \in F, <<<<kind[k], x[k]>>>>) /\ H[part[1]] = When(part[4] \in F, <<x[k]>>)
    BY <1>2, <1>4
  <2> HIDE DEF part, F
  <2>3. PartShown(part, kind[k], H, x[k], s[k])
    BY ONLY <2>1, <2>2 DEF PartShown, When
  <2> QED
    BY <2>3 DEF part
<1>10. HeaderShown(NmParts, n, names, early, kind, H, x, s)
  BY <1>5, <1>6, <1>9 DEF HeaderShown
<1>11. PICK V : HeaderSteps(NmParts, n, names, early, kind, H, g, V)
  BY ONLY <1>1, <1>8, <1>10, PartsPassed
<1> DEFINE f == [k \in 0 .. n |-> At(g[k], V[k])]
           p == At(g[0], Before(names, early, H))
<1>12. f[0] = p /\ f[n] = At(r, H) /\ f = [k \in 0 .. n |-> f[k]]
  <2>1. V[0] = Before(names, early, H) /\ V[n] = H
    BY <1>11, Zenon DEF HeaderSteps
  <2>2. g[n] = r
    BY <1>8, Zenon DEF Suffix
  <2>3. f[0] = At(g[0], V[0]) /\ f[n] = At(g[n], V[n])
    BY <1>1
  <2>4. f = [k \in 0 .. n |-> f[k]]
    BY ONLY <1>1
  <2> HIDE DEF f
  <2> QED
    BY <2>1, <2>2, <2>3, <2>4
<1>13. \A k \in 1 .. n : f[k] = At(g[k], V[k]) /\ f[k - 1] = At(g[k - 1], V[k - 1])
  OBVIOUS
<1> HIDE DEF f, p
<1>14. ASSUME NEW k \in 1 .. n
       PROVE  f[k] = ReadPart(f[k - 1], NmParts[k], NmKind(NmParts[k], f[k - 1].val))
  <2>1. ReadPart(At(g[k - 1], V[k - 1]), NmParts[k], kind[k]) = At(g[k], V[k])
    BY <1>11 DEF HeaderSteps
  <2>2. f[k - 1].val = V[k - 1]
    BY <1>13 DEF At
  <2>3. NmKind(NmParts[k], V[k - 1]) = kind[k]
    <3>1. CASE k = 3
      <4>1. 2 \in 0 .. n /\ 1 \in 1 .. 2 /\ k - 1 = 2
        BY <3>1
      <4>2. V[k - 1]["ext1"] = H["ext1"]
        BY <1>7, <1>11, <4>1 DEF HeaderSteps
      <4>3. Or(V[k - 1]["ext1"], {}) = Flags1(h)
        BY <1>5, <4>2
      <4>4. IdType(V[k - 1]) = IdKind(h)
        BY ONLY <4>3, IdKindRead
      <4> QED
        BY <1>3, <1>6, <3>1, <4>4 DEF NmKind
    <3>2. CASE k # 3
      BY <1>3, <1>6, <3>2 DEF NmKind
    <3> QED
      BY <3>1, <3>2
  <2> QED
    BY <1>13, <2>1, <2>2, <2>3
<1>15. Len(NmParts) = n
  BY <1>6 DEF InOrder
<1>16. NmReads(f, p, NmParts, n)
  BY <1>12, <1>14, <1>15 DEF NmReads
<1>17. ReadParts(p, NmParts, NmKind) = f[n]
  BY ONLY <1>1, <1>16, NmFollows
<1> QED
  BY <1>12, <1>17 DEF p, H, names, early

-----------------------------------------------------------------------------
(* The tokens of a header, from the left.                                   *)
LEMMA HeaderTokens ==
  ASSUME NEW h, NEW c
  PROVE  \E J : Prefix(J, NmTokens(h, c), 12) /\ J[0] = <<<<"flags", Flags0(h)>>>> /\ J[11] = WriteHeader(h)
<1> DEFINE s == NmTokens(h, c)
           gh == h.groupHeader[1]
           f0 == Flags0(h)
           f1 == Flags1(h)
           f2 == Flags2(h)
           a == <<<<"flags", f0>>>>
           s1 == When("ext1" \in f0, <<<<"flags", f1>>>>)
           s2 == When("ext2" \in f1, <<<<"flags", f2>>>>)
           s3 == When("publisherId" \in f0, <<<<IdKind(h), IdContent(h)>>>>)
           s4 == When("classId" \in f1, <<<<"guid", Or(h.dataSetClassId, Null)>>>>)
           s5 == When("groupHeader" \in f0, <<<<"u16", gh.writerGroupId>>>>)
           s6 == When("groupHeader" \in f0, <<<<"u32", Or(gh.groupVersion, 0)>>>>)
           s7 == When("groupHeader" \in f0, <<<<"u16", Or(gh.networkMessageNumber, 0)>>>>)
           s8 == When("groupHeader" \in f0, <<<<"u16", gh.sequenceNumber>>>>)
           s9 == When("payloadHeader" \in f0, <<<<"ids", h.ids>>>>)
           s10 == When("timestamp" \in f1, <<<<"date", Or(h.timestamp, 0)>>>>)
           s11 == When("picoseconds" \in f1, <<<<"u16", Or(h.picoseconds, 0)>>>>)
           s12 == When("chunk" \in f2, <<<<"chunk", c>>>>)
           group == When("groupHeader" \in f0, WriteGroupHeader(gh))
<1>1. /\ s[1] = s1 /\ s[2] = s2 /\ s[3] = s3 /\ s[4] = s4 /\ s[5] = s5 /\ s[6] = s6 /\ s[7] = s7 /\ s[8] = s8
      /\ s[9] = s9 /\ s[10] = s10 /\ s[11] = s11 /\ s[12] = s12
  <2> DEFINE x == NmContents(h, c)
  <2>1. /\ x[1] = f1 /\ x[2] = f2 /\ x[3] = IdContent(h) /\ x[4] = Or(h.dataSetClassId, Null)
        /\ x[5] = gh.writerGroupId /\ x[6] = Or(gh.groupVersion, 0) /\ x[7] = Or(gh.networkMessageNumber, 0)
        /\ x[8] = gh.sequenceNumber /\ x[9] = h.ids /\ x[10] = Or(h.timestamp, 0) /\ x[11] = Or(h.picoseconds, 0)
        /\ x[12] = c
    BY DEF NmContents
  <2>2. FlagByte(h, "flags") = f0 /\ FlagByte(h, "ext1") = f1 /\ FlagByte(h, "ext2") = f2
    BY DEF FlagByte
  <2>3. \A k \in 1 .. 12 : s[k] = When(NmParts[k][4] \in FlagByte(h, NmParts[k][3]),
                                       <<<<IF k = 3 THEN IdKind(h) ELSE NmParts[k][2], x[k]>>>>)
    BY DEF NmTokens, NmKinds
  <2> HIDE DEF x, s, f0, f1, f2, gh
  <2>4. \A k \in 1 .. 12 : k # 3 => s[k] = When(NmParts[k][4] \in FlagByte(h, NmParts[k][3]), <<<<NmParts[k][2], x[k]>>>>)
    BY <2>3
  <2>5. s[1] = s1
    <3>1. NmParts[1][2] = "flags" /\ NmParts[1][3] = "flags" /\ NmParts[1][4] = "ext1"
      BY HeaderParts DEF PartIs
    <3>2. s[1] = When(NmParts[1][4] \in FlagByte(h, NmParts[1][3]), <<<<NmParts[1][2], x[1]>>>>)
      BY ONLY <2>4, 1 \in 1 .. 12, 1 # 3
    <3> QED
      BY ONLY <2>1, <2>2, <3>1, <3>2
  <2>6. s[2] = s2
    <3>1. NmParts[2][2] = "flags" /\ NmParts[2][3] = "ext1" /\ NmParts[2][4] = "ext2"
      BY HeaderParts DEF PartIs
    <3>2. s[2] = When(NmParts[2][4] \in FlagByte(h, NmParts[2][3]), <<<<NmParts[2][2], x[2]>>>>)
      BY ONLY <2>4, 2 \in 1 .. 12, 2 # 3
    <3> QED
      BY ONLY <2>1, <2>2, <3>1, <3>2
  <2>7. s[3] = s3
    <3>1. NmParts[3][3] = "flags" /\ NmParts[3][4] = "publisherId"
      BY HeaderParts DEF PartIs
    <3>2. s[3] = When(NmParts[3][4] \in FlagByte(h, NmParts[3][3]), <<<<IdKind(h), x[3]>>>>)
      BY ONLY <2>3, 3 \in 1 .. 12
    <3> QED
      BY ONLY <2>1, <2>2, <3>1, <3>2
  <2>8. s[4] = s4
    <3>1. NmParts[4][2] = "guid" /\ NmParts[4][3] = "ext1" /\ NmParts[4][4] = "classId"
      BY HeaderParts DEF PartIs
    <3>2. s[4] = When(NmParts[4][4] \in FlagByte(h, NmParts[4][3]), <<<<NmParts[4][2], x[4]>>>>)
      BY ONLY <2>4, 4 \in 1 .. 12, 4 # 3
    <3> QED
      BY ONLY <2>1, <2>2, <3>1, <3>2
  <2>9. s[5] = s5
    <3>1. NmParts[5][2] = "u16" /\ NmParts[5][3] = "flags" /\ NmParts[5][4] = "groupHeader"
      BY HeaderParts DEF PartIs
    <3>2. s[5] = When(NmParts[5][4] \in FlagByte(h, NmParts[5][3]), <<<<NmParts[5][2], x[5]>>>>)
      BY ONLY <2>4, 5 \in 1 .. 12, 5 # 3
    <3> QED
      BY ONLY <2>1, <2>2, <3>1, <3>2
  <2>10. s[6] = s6
    <3>1. NmParts[6][2] = "u32" /\ NmParts[6][3] = "flags" /\ NmParts[6][4] = "groupHeader"
      BY HeaderParts DEF PartIs
    <3>2. s[6] = When(NmParts[6][4] \in FlagByte(h, NmParts[6][3]), <<<<NmParts[6][2], x[6]>>>>)
      BY ONLY <2>4, 6 \in 1 .. 12, 6 # 3
    <3> QED
      BY ONLY <2>1, <2>2, <3>1, <3>2
  <2>11. s[7] = s7
    <3>1. NmParts[7][2] = "u16" /\ NmParts[7][3] = "flags" /\ NmParts[7][4] = "groupHeader"
      BY HeaderParts DEF PartIs
    <3>2. s[7] = When(NmParts[7][4] \in FlagByte(h, NmParts[7][3]), <<<<NmParts[7][2], x[7]>>>>)
      BY ONLY <2>4, 7 \in 1 .. 12, 7 # 3
    <3> QED
      BY ONLY <2>1, <2>2, <3>1, <3>2
  <2>12. s[8] = s8
    <3>1. NmParts[8][2] = "u16" /\ NmParts[8][3] = "flags" /\ NmParts[8][4] = "groupHeader"
      BY HeaderParts DEF PartIs
    <3>2. s[8] = When(NmParts[8][4] \in FlagByte(h, NmParts[8][3]), <<<<NmParts[8][2], x[8]>>>>)
      BY ONLY <2>4, 8 \in 1 .. 12, 8 # 3
    <3> QED
      BY ONLY <2>1, <2>2, <3>1, <3>2
  <2>13. s[9] = s9
    <3>1. NmParts[9][2] = "ids" /\ NmParts[9][3] = "flags" /\ NmParts[9][4] = "payloadHeader"
      BY HeaderParts DEF PartIs
    <3>2. s[9] = When(NmParts[9][4] \in FlagByte(h, NmParts[9][3]), <<<<NmParts[9][2], x[9]>>>>)
      BY ONLY <2>4, 9 \in 1 .. 12, 9 # 3
    <3> QED
      BY ONLY <2>1, <2>2, <3>1, <3>2
  <2>14. s[10] = s10
    <3>1. NmParts[10][2] = "date" /\ NmParts[10][3] = "ext1" /\ NmParts[10][4] = "timestamp"
      BY HeaderParts DEF PartIs
    <3>2. s[10] = When(NmParts[10][4] \in FlagByte(h, NmParts[10][3]), <<<<NmParts[10][2], x[10]>>>>)
      BY ONLY <2>4, 10 \in 1 .. 12, 10 # 3
    <3> QED
      BY ONLY <2>1, <2>2, <3>1, <3>2
  <2>15. s[11] = s11
    <3>1. NmParts[11][2] = "u16" /\ NmParts[11][3] = "ext1" /\ NmParts[11][4] = "picoseconds"
      BY HeaderParts DEF PartIs
    <3>2. s[11] = When(NmParts[11][4] \in FlagByte(h, NmParts[11][3]), <<<<NmParts[11][2], x[11]>>>>)
      BY ONLY <2>4, 11 \in 1 .. 12, 11 # 3
    <3> QED
      BY ONLY <2>1, <2>2, <3>1, <3>2
  <2>16. s[12] = s12
    <3>1. NmParts[12][2] = "chunk" /\ NmParts[12][3] = "ext2" /\ NmParts[12][4] = "chunk"
      BY HeaderParts DEF PartIs
    <3>2. s[12] = When(NmParts[12][4] \in FlagByte(h, NmParts[12][3]), <<<<NmParts[12][2], x[12]>>>>)
      BY ONLY <2>4, 12 \in 1 .. 12, 12 # 3
    <3> QED
      BY ONLY <2>1, <2>2, <3>1, <3>2
  <2> QED
    BY ONLY <2>5, <2>6, <2>7, <2>8, <2>9, <2>10, <2>11, <2>12, <2>13, <2>14, <2>15, <2>16
<1>2. WriteHeader(h) = a \o s1 \o s2 \o s3 \o s4 \o group \o s9 \o s10 \o s11
  <2> DEFINE ext == "ext1" \in f0
             id == IF Has(h.publisherId) THEN Get(h.publisherId) ELSE Null
             type == IF ext /\ TypeBits(h.publisherId) # {} THEN PublisherIdType(id) ELSE "u8"
  <2>1. ext <=> f1 # {}
    BY NmFlags
  <2>2. TypeBits(h.publisherId) # {} => ext /\ Has(h.publisherId)
    <3>1. TypeBits(h.publisherId) # {} => Has(h.publisherId)
      BY DEF TypeBits
    <3>2. TypeBits(h.publisherId) \subseteq f1
      BY NmFlags
    <3> HIDE DEF f1, f0
    <3> QED
      BY <2>1, <3>1, <3>2
  <2>3. type = IdKind(h)
    BY <2>2, Zenon DEF IdKind
  <2>4. (IF type = "string" THEN id ELSE id[2]) = IdContent(h)
    BY <2>3, Zenon DEF IdContent
  <2> HIDE DEF f0, f1, f2
  <2>5. \A bit : ext /\ bit \in f1 <=> bit \in f1
    BY <2>1
  <2>6. WriteHeader(h) =
          a \o When(ext, <<<<"flags", f1>>>>) \o When(ext /\ "ext2" \in f1, <<<<"flags", f2>>>>)
          \o When("publisherId" \in f0, <<<<type, IF type = "string" THEN id ELSE id[2]>>>>)
          \o When(ext /\ "classId" \in f1, <<<<"guid", Or(h.dataSetClassId, Null)>>>>)
          \o When("groupHeader" \in f0, WriteGroupHeader(h.groupHeader[1]))
          \o When("payloadHeader" \in f0, <<<<"ids", h.ids>>>>)
          \o When(ext /\ "timestamp" \in f1, <<<<"date", Or(h.timestamp, 0)>>>>)
          \o When(ext /\ "picoseconds" \in f1, <<<<"u16", Or(h.picoseconds, 0)>>>>)
    BY ONLY DEF WriteHeader, f0, f1, f2, Flags0, Flags1, Flags2
  <2> HIDE DEF type, id
  <2>7. /\ When(ext /\ "ext2" \in f1, <<<<"flags", f2>>>>) = s2
        /\ When("publisherId" \in f0, <<<<type, IF type = "string" THEN id ELSE id[2]>>>>) = s3
        /\ When(ext /\ "classId" \in f1, <<<<"guid", Or(h.dataSetClassId, Null)>>>>) = s4
        /\ When(ext /\ "timestamp" \in f1, <<<<"date", Or(h.timestamp, 0)>>>>) = s10
        /\ When(ext /\ "picoseconds" \in f1, <<<<"u16", Or(h.picoseconds, 0)>>>>) = s11
    <3>1. \A bit, x : When(ext /\ bit \in f1, x) = When(bit \in f1, x)
      BY <2>5 DEF When
    <3> HIDE DEF ext
    <3> QED
      BY ONLY <2>3, <2>4, <3>1
  <2>8. When(ext, <<<<"flags", f1>>>>) = s1 /\ When("groupHeader" \in f0, WriteGroupHeader(h.groupHeader[1])) = group
        /\ When("payloadHeader" \in f0, <<<<"ids", h.ids>>>>) = s9
    OBVIOUS
  <2> HIDE DEF a, s1, s2, s3, s4, group, s9, s10, s11, ext
  <2> QED
    BY ONLY <2>6, <2>7, <2>8, ZenonT(30)
<1>3. /\ IsSequence(a) /\ IsSequence(s1) /\ IsSequence(s2) /\ IsSequence(s3) /\ IsSequence(s4) /\ IsSequence(s5)
      /\ IsSequence(s6) /\ IsSequence(s7) /\ IsSequence(s8) /\ IsSequence(s9) /\ IsSequence(s10)
      /\ IsSequence(s11) /\ IsSequence(s12)
  <2> HIDE DEF f0, f1, f2, gh
  <2> QED
    BY WhenSequence
<1>4. group = Join(Join(Join(s5, s6), s7), s8)
  <2> DEFINE pa == <<<<"u16", gh.writerGroupId>>>>
             pb == <<<<"u32", Or(gh.groupVersion, 0)>>>>
             pc == <<<<"u16", Or(gh.networkMessageNumber, 0)>>>>
             pd == <<<<"u16", gh.sequenceNumber>>>>
  <2>1. CASE "groupHeader" \in f0
    <3>1. WriteGroupHeader(gh) = pa \o pb \o pc \o pd
      BY ONLY DEF WriteGroupHeader
    <3>2. group = WriteGroupHeader(gh) /\ s5 = pa /\ s6 = pb /\ s7 = pc /\ s8 = pd
      BY <2>1 DEF When
    <3> HIDE DEF pa, pb, pc, pd, group, s5, s6, s7, s8
    <3> QED
      BY ONLY <3>1, <3>2 DEF Join
  <2>2. CASE "groupHeader" \notin f0
    <3>1. group = <<>> /\ s5 = <<>> /\ s6 = <<>> /\ s7 = <<>> /\ s8 = <<>>
      BY <2>2 DEF When
    <3>2. Join(<<>>, <<>>) = <<>>
      BY FirstJoined, EmptySequence DEF Join
    <3> HIDE DEF group, s5, s6, s7, s8
    <3> QED
      BY ONLY <3>1, <3>2
  <2> QED
    BY <2>1, <2>2
<1> DEFINE J1 == Join(a, s1)
           J2 == Join(J1, s2)
           J3 == Join(J2, s3)
           J4 == Join(J3, s4)
           J5 == Join(J4, s5)
           J6 == Join(J5, s6)
           J7 == Join(J6, s7)
           J8 == Join(J7, s8)
           J9 == Join(J8, s9)
           J10 == Join(J9, s10)
           J11 == Join(J10, s11)
           J12 == Join(J11, s12)
           J == [k \in 0 .. 12 |-> <<a, J1, J2, J3, J4, J5, J6, J7, J8, J9, J10, J11, J12>>[k + 1]]
<1>5. a = <<<<"flags", Flags0(h)>>>>
  OBVIOUS
<1> HIDE DEF s, f0, f1, f2, gh, a, s1, s2, s3, s4, s5, s6, s7, s8, s9, s10, s11, s12, group
<1>6. J1 = Join(a, s1) /\ J2 = Join(J1, s2) /\ J3 = Join(J2, s3) /\ J4 = Join(J3, s4) /\ J5 = Join(J4, s5)
      /\ J6 = Join(J5, s6) /\ J7 = Join(J6, s7) /\ J8 = Join(J7, s8) /\ J9 = Join(J8, s9) /\ J10 = Join(J9, s10)
      /\ J11 = Join(J10, s11) /\ J12 = Join(J11, s12)
  OBVIOUS
<1> HIDE DEF J1, J2, J3, J4, J5, J6, J7, J8, J9, J10, J11, J12
<1>7. /\ J[0] = a /\ J[1] = J1 /\ J[2] = J2 /\ J[3] = J3 /\ J[4] = J4 /\ J[5] = J5 /\ J[6] = J6 /\ J[7] = J7
      /\ J[8] = J8 /\ J[9] = J9 /\ J[10] = J10 /\ J[11] = J11 /\ J[12] = J12
  OBVIOUS
<1> HIDE DEF J
<1>8. IsSequence(J1) /\ IsSequence(J2) /\ IsSequence(J3) /\ IsSequence(J4)
  <2>1. IsSequence(J1) /\ IsSequence(J2)
    BY ONLY <1>3, <1>6, Joined
  <2> QED
    BY ONLY <1>3, <1>6, <2>1, Joined
<1>9. J8 = Join(J4, group)
  <2>1. /\ IsSequence(Join(s5, s6)) /\ IsSequence(Join(Join(s5, s6), s7))
    BY ONLY <1>3, Joined
  <2>2. Join(J4, Join(s5, s6)) = J6
    BY ONLY <1>3, <1>6, <1>8, JoinedThrice
  <2>3. Join(J4, Join(Join(s5, s6), s7)) = J7
    BY ONLY <1>3, <1>6, <1>8, <2>1, <2>2, JoinedThrice
  <2>4. Join(J4, Join(Join(Join(s5, s6), s7), s8)) = J8
    BY ONLY <1>3, <1>6, <1>8, <2>1, <2>3, JoinedThrice
  <2> QED
    BY ONLY <1>4, <2>4
<1>10. J11 = WriteHeader(h)
  <2>1. WriteHeader(h) = Join(Join(Join(Join(Join(Join(Join(Join(a, s1), s2), s3), s4), group), s9), s10), s11)
    BY ONLY <1>2 DEF Join
  <2> QED
    BY ONLY <1>6, <1>9, <2>1
<1>11. ASSUME NEW k \in 1 .. 12
       PROVE  IsSequence(s[k]) /\ J[k] = Join(J[k - 1], s[k])
  <2>1. k = 1 \/ k = 2 \/ k = 3 \/ k = 4 \/ k = 5 \/ k = 6 \/ k = 7 \/ k = 8 \/ k = 9 \/ k = 10 \/ k = 11 \/ k = 12
    OBVIOUS
  <2>2. IsSequence(s[k])
    BY ONLY <1>1, <1>3, <2>1
  <2>3. J[k] = Join(J[k - 1], s[k])
    BY ONLY <1>1, <1>6, <1>7, <2>1
  <2> QED
    BY <2>2, <2>3
<1>12. Prefix(J, s, 12)
  BY <1>3, <1>7, <1>11 DEF Prefix
<1>13. J[0] = <<<<"flags", Flags0(h)>>>> /\ J[11] = WriteHeader(h)
  BY <1>5, <1>7, <1>10
<1> QED
  BY <1>12, <1>13 DEF s

(* A header of a network message comes back, whatever follows it.           *)
LEMMA NmHeaderRead ==
  ASSUME NEW h, NEW c, NEW tokens, tokens = Join(WriteHeader(h), When("chunk" \in Flags2(h), <<<<"chunk", c>>>>)),
         NEW r, IsSequence(r), NEW x
  PROVE  /\ IsSequence(tokens) /\ IsSequence(WriteHeader(h))
         /\ ReadParts(Opened(At(Join(tokens, r), x), NmNames, "flags"), NmParts, NmKind) = At(r, NmHeader(h, c))
<1> DEFINE s == NmTokens(h, c)
           H == NmHeader(h, c)
<1>1. PICK J : Prefix(J, s, 12) /\ J[0] = <<<<"flags", Flags0(h)>>>> /\ J[11] = WriteHeader(h)
  BY HeaderTokens
<1>2. s[12] = When("chunk" \in Flags2(h), <<<<"chunk", c>>>>)
  <2>1. NmParts[12][2] = "chunk" /\ NmParts[12][3] = "ext2" /\ NmParts[12][4] = "chunk"
    BY HeaderParts DEF PartIs
  <2>2. NmContents(h, c)[12] = c /\ FlagByte(h, "ext2") = Flags2(h)
    BY DEF NmContents, FlagByte
  <2>3. NmKinds(h)[12] = NmParts[12][2]
    BY DEF NmKinds
  <2>4. s[12] = When(NmParts[12][4] \in FlagByte(h, NmParts[12][3]), <<<<NmKinds(h)[12], NmContents(h, c)[12]>>>>)
    BY DEF NmTokens
  <2> QED
    BY ONLY <2>1, <2>2, <2>3, <2>4
<1>3. H = NmHeader(h, c) /\ s = NmTokens(h, c)
  OBVIOUS
<1> HIDE DEF s, H
<1>4. J[12] = tokens /\ IsSequence(s[12])
  <2>1. 12 \in 1 .. 12 /\ 12 - 1 = 11
    OBVIOUS
  <2>2. J[12] = Join(J[12 - 1], s[12]) /\ IsSequence(s[12])
    BY ONLY <1>1, <2>1 DEF Prefix
  <2> QED
    BY <1>1, <1>2, <2>1, <2>2
<1>5. PICK g : Suffix(g, s, 12, r) /\ Join(J[0], g[0]) = Join(J[12], r)
  <2>1. 12 \in Nat
    OBVIOUS
  <2> QED
    BY ONLY <1>1, <2>1, IsSequence(r), SuffixesExist
<1>6. IsSequence(g[0])
  BY <1>5 DEF Suffix
<1>7. Opened(At(Join(tokens, r), x), NmNames, "flags") = At(g[0], Before(NmNames, {"flags"}, H))
  <2>1. Join(tokens, r) = Join(<<<<"flags", Flags0(h)>>>>, g[0])
    BY <1>1, <1>4, <1>5
  <2>2. Opened(At(Join(<<<<"flags", Flags0(h)>>>>, g[0]), x), NmNames, "flags")
          = At(g[0], [n \in NmNames |-> IF n = "flags" THEN <<Flags0(h)>> ELSE <<>>])
    BY ONLY <1>6, FirstByte
  <2>3. [n \in NmNames |-> IF n = "flags" THEN <<Flags0(h)>> ELSE <<>>] = Before(NmNames, {"flags"}, H)
    <3>1. H["flags"] = <<Flags0(h)>>
      BY <1>3, NmHeaderParts
    <3> QED
      BY <3>1 DEF Before
  <2> QED
    BY <2>1, <2>2, <2>3
<1>8. ReadParts(At(g[0], Before(NmNames, {"flags"}, H)), NmParts, NmKind) = At(r, H)
  <2>1. Suffix(g, NmTokens(h, c), 12, r)
    BY <1>3, <1>5
  <2>2. ReadParts(At(g[0], Before(NmNames, {"flags"}, NmHeader(h, c))), NmParts, NmKind) = At(r, NmHeader(h, c))
    BY ONLY <2>1, NmPartsRead
  <2> QED
    BY <1>3, <2>2
<1>9. \A k \in 0 .. 12 : IsSequence(J[k])
  <2> DEFINE Bad == {k \in 0 .. 12 : ~IsSequence(J[k])}
  <2> SUFFICES ASSUME Bad # {}
               PROVE  FALSE
    OBVIOUS
  <2>1. Bad \subseteq Nat
    OBVIOUS
  <2>2. PICK m \in Bad : \A k \in Bad : m <= k
    BY <2>1, LeastNumber
  <2>3. m \in 1 .. 12
    BY <1>1 DEF Prefix
  <2>4. m - 1 \in 0 .. 12 /\ m - 1 \notin Bad
    BY <2>2, <2>3
  <2> QED
    BY <1>1, <2>3, <2>4, Joined DEF Prefix
<1> QED
  BY <1>1, <1>3, <1>4, <1>7, <1>8, <1>9

-----------------------------------------------------------------------------
(* What is made of a header and what follows it.                            *)
NmBack(h, c, payload) ==
  LET H == NmHeader(h, c) IN
  [publisherId |-> ReadPublisherId(H), groupName |-> <<>>,
   dataSetClassId |-> When(Has(H.classId), <<Guid("upper")>>),
   groupHeader |-> ReadGroupHeader(H), ids |-> Or(H.ids, <<>>), timestamp |-> H.timestamp,
   picoseconds |-> H.picoseconds, promoted |-> FALSE, chunk |-> H.chunk, payload |-> payload]

(* What the decoder makes of a header and a payload that it has read.       *)
LEMMA NmAfterRead ==
  ASSUME NEW h, NEW c, NEW r, NEW payload, NEW q, q = At(r, NmHeader(h, c)), "promoted" \notin Flags2(h),
         NEW left, NmBody(q) = At(left, payload)
  PROVE  NmAfter(q) = At(left, NmBack(h, c, payload))
<1> DEFINE H == NmHeader(h, c)
           val == [publisherId |-> ReadPublisherId(H), groupName |-> <<>>,
                   dataSetClassId |-> When(Has(H.classId), <<Guid("upper")>>),
                   groupHeader |-> ReadGroupHeader(H), ids |-> Or(H.ids, <<>>), timestamp |-> H.timestamp,
                   picoseconds |-> H.picoseconds, promoted |-> FALSE, chunk |-> H.chunk, payload |-> payload]
<1>1. q.ok = TRUE /\ q.val = H
  BY DEF At
<1>2. "version" \in Get(H.flags) /\ "promoted" \notin Or(H.ext2, {})
  <2>1. H["flags"] = <<Flags0(h)>> /\ Or(H["ext2"], {}) = FlagByte(h, "ext2")
    BY NmHeaderParts
  <2>2. Get(<<Flags0(h)>>) = Flags0(h) /\ FlagByte(h, "ext2") = Flags2(h) /\ "version" \in Flags0(h)
    BY NmFlags DEF Get, FlagByte
  <2> HIDE DEF H
  <2> QED
    BY <2>1, <2>2
<1>3. At(left, payload).val = payload
  BY DEF At
<1>4. NmBody(q) = At(left, payload)
  OBVIOUS
<1>5. NmAfter(q) = [At(left, payload) EXCEPT !.val = val]
  <2> HIDE DEF H
  <2> QED
    BY ONLY <1>1, <1>2, <1>3, <1>4, ZenonT(60) DEF NmAfter
<1>6. [At(left, payload) EXCEPT !.val = val] = At(left, val)
  BY ONLY ValueSet
<1>7. val = NmBack(h, c, payload)
  BY DEF NmBack
<1> HIDE DEF val
<1> QED
  BY ONLY <1>5, <1>6, <1>7

(* The decoder of a chunk finds the chunk that was encoded.                 *)
THEOREM ChunkDecoded ==
  ASSUME NEW m, NEW c
  PROVE  DecodeUadp(EncodeChunk(m, c)).ok = TRUE /\ DecodeUadp(EncodeChunk(m, c)).val.chunk = <<c>>
<1> DEFINE h == HeaderOf(m, c)
           H == NmHeader(h, c)
           q == At(<<>>, H)
           e == EncodeChunk(m, c)
<1>1. ExtendedFlags2(h) = {"chunk"}
  BY ChunkFlags
<1>2. e = Join(WriteHeader(h), When("chunk" \in Flags2(h), <<<<"chunk", c>>>>))
  <2>1. When("chunk" \in Flags2(h), <<<<"chunk", c>>>>) = <<<<"chunk", c>>>>
    BY <1>1 DEF When, Flags2
  <2>2. e = WriteHeader(h) \o <<<<"chunk", c>>>>
    BY Zenon DEF EncodeChunk, ChunkHeader, HeaderOf
  <2> HIDE DEF e, h
  <2> QED
    BY <2>1, <2>2 DEF Join
<1> HIDE DEF e
<1>3. IsSequence(<<>>)
  BY EmptySequence
<1>4. /\ IsSequence(e)
      /\ ReadParts(Opened(At(Join(e, <<>>), Null), NmNames, "flags"), NmParts, NmKind) = q
  <2> HIDE DEF h
  <2> QED
    BY ONLY <1>2, <1>3, NmHeaderRead DEF q, H
<1>5. At(Join(e, <<>>), Null) = From(e)
  BY <1>4, LastOf DEF Join, At, From
<1>6. DecodeUadp(e) = NmAfter(q)
  BY ONLY <1>4, <1>5, Zenon DEF DecodeUadp
<1>7. H["chunk"] = <<c>>
  <2>1. NmParts[12][1] = "chunk" /\ NmParts[12][3] = "ext2" /\ NmParts[12][4] = "chunk"
    BY HeaderParts DEF PartIs
  <2>2. NmContents(h, c)[12] = c /\ FlagByte(h, "ext2") = {"chunk"}
    BY <1>1 DEF NmContents, FlagByte, Flags2
  <2>3. H[NmParts[12][1]] = When(NmParts[12][4] \in FlagByte(h, NmParts[12][3]), <<NmContents(h, c)[12]>>)
    <3> HIDE DEF h
    <3>1. \A k \in 1 .. 12 : H[NmParts[k][1]] = When(NmParts[k][4] \in FlagByte(h, NmParts[k][3]), <<NmContents(h, c)[k]>>)
      BY NmHeaderPart, ZenonT(60)
    <3> HIDE DEF H
    <3> QED
      BY <3>1
  <2> QED
    BY ONLY <2>1, <2>2, <2>3 DEF When
<1>8. NmBody(q) = At(<<>>, <<>>)
  <2>1. q.val = H
    BY DEF At
  <2>2. Has(q.val.chunk)
    BY <1>7, <2>1, Some
  <2>3. NmBody(q) = [q EXCEPT !.val = <<>>]
    BY ONLY <2>2, Zenon DEF NmBody
  <2>4. [At(<<>>, H) EXCEPT !.val = <<>>] = At(<<>>, <<>>)
    BY ONLY ValueSet
  <2> QED
    BY <2>3, <2>4
<1>9. NmAfter(q) = At(<<>>, NmBack(h, c, <<>>))
  <2>1. "promoted" \notin Flags2(h)
    BY <1>1 DEF Flags2
  <2>2. q = At(<<>>, NmHeader(h, c))
    OBVIOUS
  <2> HIDE DEF q
  <2> QED
    BY ONLY <1>8, <2>1, <2>2, NmAfterRead
<1>10. NmBack(h, c, <<>>).chunk = <<c>>
  <2> HIDE DEF h
  <2> QED
    BY <1>7 DEF NmBack
<1> HIDE DEF h, H, q
<1>11. DecodeUadp(e) = At(<<>>, NmBack(h, c, <<>>))
  BY ONLY <1>6, <1>9
<1> QED
  BY <1>10, <1>11 DEF At, e

-----------------------------------------------------------------------------
(* The states of a message: what a configuration makes of it.               *)

WithMessage == {"built", "sent", "received", "failed"}

(* A configuration that is past its validators was accepted by them.        *)
Deployed ==
  /\ stage = "config" => cfg \in Publishers
  /\ cfg # <<>> /\ stage \in WithMessage \cup {"ready"} => cfg \in Publishers /\ Accepted(cfg)

(* What is under way is a message, and its mtu a number.                    *)
HasMessage == stage \in WithMessage => IsMessage(nm) /\ mtu \in Int

(* What was sent is what the encoder made of it; a failure has reasons of    *)
(* the encoder, or else the topic's.                                        *)
AsEncoded ==
  /\ stage = "sent" /\ format = "uadp" => UadpReasons(nm, mtu) = {} /\ wire = EncodeUadp(nm, mtu)
  /\ stage = "failed" => reasons = IF EncoderReasons # {} THEN EncoderReasons ELSE TopicReasons

(* The counters of the group and of each of its writers are numbers.        *)
Counting ==
  cfg # <<>> => /\ nmSeq \in Nat /\ \A w \in ToSet(cfg.writers) : w.dataSetWriterId[2] \in DOMAIN dsmSeq
                /\ \A id \in DOMAIN dsmSeq : dsmSeq[id] \in Nat

(* A data set message as a publisher makes it.                              *)
FrameTaken(d) ==
  /\ d.fieldEncoding = "variant" /\ d.messageType \in {"keyframe", "keepalive"}
  /\ ~Above(d.sequenceNumber, U16) /\ ~Above(d.status, U16)

(* A message of an accepted configuration has nothing the encoder refuses   *)
(* but its publisher's identifier and too many writers.                     *)
FromConfiguration ==
  cfg # <<>> /\ stage \in WithMessage =>
    HeaderReasons(nm) \subseteq {"publisherId", "writers"} /\ \A d \in ToSet(nm.payload) : FrameTaken(d)
MessageInv == Deployed /\ HasMessage /\ AsEncoded /\ Counting /\ FromConfiguration

(* A writer group without issues has an identifier of 16 bits and a size.   *)
LEMMA AcceptedGroup ==
  ASSUME NEW c, IsPublisher(c), Accepted(c)
  PROVE  /\ c.group.writerGroupId[2] \in 0 .. U16
         /\ Twice(WriterGroup(c.group).maxNetworkMessageSize) \div 2 \in Int
<1>1. WriterGroupIssues(c.group) = {}
  BY DEF Accepted
<1>2. IdIssues(c.group) = {} /\ ~Wrong(c.group.maxNetworkMessageSize, IsPositiveNumber)
  <2>1. \A A, B, C, D, E, F : A \cup B \cup C \cup D \cup E \cup F = {} => D = {} /\ F = {}
    OBVIOUS
  <2>2. /\ IdIssues(c.group) = {}
        /\ Reason(Wrong(c.group.maxNetworkMessageSize, IsPositiveNumber),
                  <<"maxNetworkMessageSize", "MUST_BE_POSITIVE_NUMBER">>) = {}
    BY <1>1, <2>1, Zenon DEF WriterGroupIssues
  <2> QED
    BY <2>2 DEF Reason
<1>3. c.group.writerGroupId[2] \in 0 .. U16
  BY <1>2 DEF IdIssues, Reason, IsUInt16
<1>4. Twice(WriterGroup(c.group).maxNetworkMessageSize) \div 2 \in Int
  <2> DEFINE o == c.group.maxNetworkMessageSize
             size == WriterGroup(c.group).maxNetworkMessageSize
  <2>1. size = Or(o, Num(1400))
    BY DEF WriterGroup
  <2>2. CASE Has(o)
    <3>1. Get(o)[1] \in {"num", "half"} /\ IsScalar(Get(o))
      BY <1>2, <2>2 DEF Wrong, IsPositiveNumber, Numeric, IsPublisher, IsOptional, Has
    <3>2. size = Get(o)
      BY <2>1, <2>2 DEF Or
    <3> HIDE DEF o, size
    <3>3. size[1] = "num" => size[2] \in Int
      BY <3>1, <3>2 DEF IsScalar
    <3>4. Twice(size) \in Int
      <4>1. CASE size[1] = "num"
        BY <3>3, <4>1 DEF Twice
      <4>2. CASE size[1] # "num"
        BY <4>2 DEF Twice
      <4> QED
        BY <4>1, <4>2
    <3>5. \A x \in Int : x \div 2 \in Int
      OBVIOUS
    <3> QED
      BY <3>4, <3>5, Zenon DEF size
  <2>3. CASE ~Has(o)
    BY <2>1, <2>3 DEF Or, Num, Twice
  <2> QED
    BY <2>2, <2>3
<1> QED
  BY <1>3, <1>4

(* Writers without issues have identifiers of 16 bits and fields with       *)
(* names.                                                                   *)
LEMMA AcceptedWriter ==
  ASSUME NEW c, IsPublisher(c), Accepted(c), NEW i \in DOMAIN c.writers
  PROVE  /\ c.writers[i] \in ToSet(c.writers)
         /\ Id(c, i) = c.writers[i].dataSetWriterId[2] /\ Id(c, i) \in 0 .. U16
         /\ \A f \in ToSet(c.writers[i].publishedDataSet.fields) : f.name[1] = "str"
<1> DEFINE w == c.writers[i]
<1>1. w \in ToSet(c.writers)
  BY DEF ToSet
<1>2. PublishedDataSetIssues(w.publishedDataSet) = {} /\ DataSetWriterIssues(w) = {}
  BY <1>1 DEF Accepted
<1>3. Id(c, i) = w.dataSetWriterId[2]
  BY DEF Id, DataSetWriter
<1> HIDE DEF w
<1>4. w.dataSetWriterId[2] \in 0 .. U16
  BY <1>2 DEF DataSetWriterIssues, Reason, IsUInt16
<1>5. \A f \in ToSet(w.publishedDataSet.fields) : f.name[1] = "str"
  <2> DEFINE named == \E f \in ToSet(w.publishedDataSet.fields) : f.name[1] # "str"
  <2>1. Reason(named, <<"fields.name", "MUST_BE_NON_EMPTY_STRING">>) = {}
    <3>1. \A A, B, C, D, E : A \cup B \cup C \cup D \cup E = {} => C = {}
      OBVIOUS
    <3> QED
      BY <1>2, <3>1, Zenon DEF PublishedDataSetIssues
  <2>2. ~named
    BY <2>1, Zenon DEF Reason
  <2> QED
    BY <2>2
<1> QED
  BY <1>1, <1>3, <1>4, <1>5 DEF w

(* The fields of a frame are fields that can be written.                    *)
LEMMA FieldsTyped ==
  ASSUME NEW c, IsPublisher(c), Accepted(c), NEW i \in DOMAIN c.writers, NEW payload \in Payloads,
         NEW fs, fs = Fields(c.writers[i], payload)
  PROVE  IsSequence(fs) /\ \A f \in ToSet(fs) : IsField("variant", f)
<1> DEFINE fields == c.writers[i].publishedDataSet.fields
           Given(f) == [name |-> f.name, data |-> [type |-> Get(f.type), value |-> payload[f.name]]]
           rows == [k \in DOMAIN fields |-> When(payload[fields[k].name] # Missing, <<Given(fields[k])>>)]
           S == {Given(f) : f \in ToSet(fields)}
           n == Len(fields)
<1>1. /\ IsSequence(fields)
      /\ \A f \in ToSet(fields) : f.name[1] = "str" /\ IsScalar(f.name) /\ IsValue(payload[f.name])
  BY AcceptedWriter DEF IsPublisher
<1>2. fs = FlattenSeq(rows)
  BY Zenon DEF Fields, PublishedDataSet
<1> HIDE DEF fields
<1>3. n \in Nat /\ DOMAIN fields = 1 .. n /\ \A k \in 1 .. n : fields[k] \in ToSet(fields)
  BY <1>1, SequenceFacts
<1>4. \A g \in S : IsField("variant", g)
  <2> SUFFICES ASSUME NEW f \in ToSet(fields), NEW g, g = Given(f)
               PROVE  IsField("variant", g)
    OBVIOUS
  <2>1. g.name = f.name /\ g.data.value = payload[f.name] /\ g.data = [type |-> g.data.type, value |-> g.data.value]
    OBVIOUS
  <2> HIDE DEF Given
  <2> QED
    BY <1>1, <2>1 DEF IsField, IsVariant
<1>5. ASSUME NEW k \in 1 .. n
      PROVE  rows[k] \in Seq(S)
  <2>1. rows[k] = When(payload[fields[k].name] # Missing, <<Given(fields[k])>>) /\ Given(fields[k]) \in S
    BY <1>3
  <2> HIDE DEF rows, S, Given
  <2> QED
    BY <2>1 DEF When
<1>6. DOMAIN rows = 1 .. n /\ rows = [k \in 1 .. n |-> rows[k]]
  BY <1>3
<1> HIDE DEF rows, S
<1>7. IsSequence(rows) /\ Len(rows) = n
  BY <1>3, <1>6, SequenceMade
<1>8. \A s \in ToSet(rows) : s \in Seq(S)
  BY <1>5, <1>7, SequenceFacts
<1>9. fs \in Seq(S)
  BY <1>2, <1>7, <1>8, FlattenTyped
<1> QED
  BY <1>4, <1>9, SequenceOf

(* Sequence numbers stay within 16 bits.                                    *)
LEMMA CountTyped ==
  ASSUME NEW n, n \in Nat, NEW k, k \in Nat
  PROVE  Counted(n, k) \in 0 .. U16
<1>1. U16 \in Nat
  BY WidthsAssumption
<1> QED
  BY <1>1 DEF Counted

(* A writer's identifier is counted a number of times.                      *)
LEMMA HowOften ==
  ASSUME NEW c, IsSequence(c.writers)
  PROVE  /\ \A i \in DOMAIN c.writers : Ahead(c, i) \in Nat
         /\ \A id : Cardinality({i \in DOMAIN c.writers : Id(c, i) = id}) \in Nat
<1>1. Len(c.writers) \in Nat /\ DOMAIN c.writers = 1 .. Len(c.writers)
  BY SequenceFacts
<1>2. ASSUME NEW n \in Int, NEW S, S \subseteq 1 .. n
      PROVE  Cardinality(S) \in Nat
  <2>1. IsFiniteSet(1 .. n)
    BY FS_Interval
  <2> QED
    BY <1>2, <2>1, FS_Subset, FS_CardinalityType
<1>3. ASSUME NEW i \in DOMAIN c.writers
      PROVE  Ahead(c, i) \in Nat
  <2>1. i \in Int /\ {k \in 1 .. i : Id(c, k) = Id(c, i)} \subseteq 1 .. i
    BY <1>1
  <2> QED
    BY <1>2, <2>1 DEF Ahead
<1>4. ASSUME NEW id
      PROVE  Cardinality({i \in DOMAIN c.writers : Id(c, i) = id}) \in Nat
  <2>1. {i \in DOMAIN c.writers : Id(c, i) = id} \subseteq 1 .. Len(c.writers)
    BY <1>1
  <2> QED
    BY <1>1, <1>2, <2>1
<1> QED
  BY <1>3, <1>4

(* Such a message, with fields that can be written.                         *)
FrameTyped(d) == IsDsm(d) /\ FrameTaken(d)

(* An optional setting that is there, or is not.                            *)
LEMMA SettingOne ==
  ASSUME NEW x
  PROVE  IsSetting(<<x>>) /\ IsSetting(<<>>)
<1>1. <<x>> = <<Get(<<x>>)>>
  BY DEF Get
<1> QED
  BY <1>1 DEF IsSetting, Has

(* What a key frame is made of.                                             *)
IsKeyFrame(d, c, i, payload) ==
  /\ d.fieldEncoding = "variant" /\ d.messageType = "keyframe"
  /\ d.sequenceNumber = <<Counted(dsmSeq[Id(c, i)], Ahead(c, i))>> /\ d.status = <<>>
  /\ d.fields = Fields(c.writers[i], payload)
  /\ d.valid = TRUE /\ d.timestamp = <<>> /\ d.picoseconds = <<>>
  /\ IsSetting(d.major) /\ IsSetting(d.minor)
  /\ DOMAIN d = {"dataSetWriterId", "writerName", "valid", "fieldEncoding", "messageType", "sequenceNumber",
                 "status", "major", "minor", "timestamp", "picoseconds", "fields"}

(* It is made so for every writer and every payload.                        *)
LEMMA FrameParts ==
  ASSUME NEW c, NEW i, NEW payload, NEW d, d = KeyFrame(c, i, payload)
  PROVE  IsKeyFrame(d, c, i, payload)
<1>1. \E x, y : d.major = <<x>> /\ d.minor = <<y>>
  BY DEF KeyFrame
<1>2. IsSetting(d.major) /\ IsSetting(d.minor)
  BY <1>1, SettingOne
<1> QED
  BY <1>2 DEF KeyFrame, IsKeyFrame

(* The frames of an accepted configuration are such frames.                 *)
LEMMA FramesTyped ==
  ASSUME NEW c, IsPublisher(c), Accepted(c), c = cfg, c # <<>>, Counting, NEW i \in DOMAIN c.writers
  PROVE  /\ \A payload \in Payloads : FrameTyped(KeyFrame(c, i, payload))
         /\ FrameTyped(KeepAliveFrame(c, i))
<1>1. <<Counted(dsmSeq[Id(c, i)], Ahead(c, i))>>[1] \in 0 .. U16
  <2>1. dsmSeq[Id(c, i)] \in Nat
    BY AcceptedWriter DEF Counting
  <2>2. Ahead(c, i) \in Nat
    BY HowOften DEF IsPublisher
  <2>3. Counted(dsmSeq[Id(c, i)], Ahead(c, i)) \in 0 .. U16
    BY ONLY <2>1, <2>2, CountTyped, Zenon
  <2> QED
    BY <2>3
<1>2. ASSUME NEW payload \in Payloads, NEW d, d = KeyFrame(c, i, payload)
      PROVE  FrameTyped(d)
  <2>1. /\ d.fieldEncoding = "variant" /\ d.messageType = "keyframe" /\ d.status = <<>>
        /\ d.sequenceNumber = <<Counted(dsmSeq[Id(c, i)], Ahead(c, i))>> /\ d.fields = Fields(c.writers[i], payload)
        /\ d.valid = TRUE /\ d.timestamp = <<>> /\ d.picoseconds = <<>>
        /\ IsSetting(d.major) /\ IsSetting(d.minor)
    <3>1. IsKeyFrame(d, c, i, payload)
      BY <1>2, FrameParts
    <3> QED
      BY <3>1 DEF IsKeyFrame
  <2>2. IsSequence(d.fields) /\ \A f \in ToSet(d.fields) : IsField("variant", f)
    BY <2>1, FieldsTyped
  <2>3. IsDsm(d)
    BY <2>1, <2>2, SettingOne DEF IsDsm
  <2>4. FrameTaken(d)
    BY <1>1, <2>1 DEF FrameTaken, Above, Has, Get
  <2> QED
    BY <2>3, <2>4 DEF FrameTyped
<1>3. ASSUME NEW d, d = KeepAliveFrame(c, i)
      PROVE  FrameTyped(d)
  <2> DEFINE k == KeyFrame(c, i, Nothing)
  <2>0. k = KeyFrame(c, i, Nothing)
    OBVIOUS
  <2> HIDE DEF k
  <2>1. /\ k.fieldEncoding = "variant" /\ k.status = <<>>
        /\ k.sequenceNumber = <<Counted(dsmSeq[Id(c, i)], Ahead(c, i))>>
        /\ {"messageType", "fields", "major", "minor"} \subseteq DOMAIN k
        /\ k.valid = TRUE /\ k.timestamp = <<>> /\ k.picoseconds = <<>>
    <3>1. IsKeyFrame(k, c, i, Nothing)
      BY <2>0, FrameParts
    <3> QED
      BY <3>1 DEF IsKeyFrame
  <2>2. d = [k EXCEPT !.messageType = "keepalive", !.major = <<>>, !.minor = <<>>, !.fields = <<>>]
    BY <1>3 DEF KeepAliveFrame, k
  <2>3. /\ d.fieldEncoding = "variant" /\ d.status = <<>> /\ d.messageType = "keepalive" /\ d.fields = <<>>
        /\ d.sequenceNumber = <<Counted(dsmSeq[Id(c, i)], Ahead(c, i))>>
        /\ d.valid = TRUE /\ d.timestamp = <<>> /\ d.picoseconds = <<>> /\ d.major = <<>> /\ d.minor = <<>>
    BY <2>1, <2>2
  <2>4. IsSequence(d.fields) /\ ToSet(d.fields) = {}
    BY <2>3, EmptySequence DEF ToSet
  <2>5. IsDsm(d)
    BY <2>3, <2>4, SettingOne DEF IsDsm
  <2>6. FrameTaken(d)
    BY <1>1, <2>3 DEF FrameTaken, Above, Has, Get
  <2> QED
    BY <2>5, <2>6 DEF FrameTyped
<1> QED
  BY <1>2, <1>3

(* A header with numbers of 16 bits, of which only the identifier and the   *)
(* number of writers are open.                                              *)
LEMMA HeaderTaken ==
  ASSUME NEW m, m.dataSetClassId = <<>>,
         NEW gh, m.groupHeader = <<gh>>, gh.writerGroupId \in 0 .. U16, gh.sequenceNumber \in 0 .. U16,
         \A i \in DOMAIN m.ids : m.ids[i] \in 0 .. U16, m.picoseconds = <<>>, m.promoted = FALSE
  PROVE  HeaderReasons(m) \subseteq {"publisherId", "writers"}
<1>1. ToSet(m.groupHeader) = {gh}
  BY DEF ToSet
<1> DEFINE a == Reason(Has(m.dataSetClassId) /\ Get(m.dataSetClassId)[1] # "guid", "classId")
           b == Reason(\E g \in ToSet(m.groupHeader) :
                         \/ g.writerGroupId \notin 0 .. U16 \/ g.sequenceNumber \notin 0 .. U16, "groupHeader")
           c == Reason(Len(m.ids) > U8, "writers")
           d == Reason(\E i \in DOMAIN m.ids : m.ids[i] \notin 0 .. U16, "ids")
           e == Reason(Has(m.timestamp) /\ Above(m.picoseconds, U16), "picoseconds")
           f == Reason(m.promoted, "promoted")
<1>2. HeaderReasons(m) = PublisherIdReasons(m.publisherId) \cup a \cup b \cup c \cup d \cup e \cup f
  BY Zenon DEF HeaderReasons
<1>3. a = {} /\ c \subseteq {"writers"} /\ d = {} /\ f = {}
  BY DEF Reason, Has
<1>4. b = {}
  BY <1>1 DEF Reason
<1>5. e = {}
  BY DEF Reason, Has, Above
<1>6. PublisherIdReasons(m.publisherId) \subseteq {"publisherId"}
  BY DEF PublisherIdReasons, Reason
<1> HIDE DEF a, b, c, d, e, f
<1> QED
  BY <1>2, <1>3, <1>4, <1>5, <1>6

(* What is built of such frames is a message, and the counters stay         *)
(* numbers.                                                                 *)
LEMMA BuiltTyped ==
  ASSUME cfg \in Publishers, cfg # <<>>, Accepted(cfg), Counting, UNCHANGED cfg,
         NEW frames, frames = [i \in DOMAIN cfg.writers |-> frames[i]],
         \A i \in DOMAIN cfg.writers : FrameTyped(frames[i]), Built(cfg, frames)
  PROVE  /\ IsMessage(nm') /\ mtu' \in Int /\ HeaderReasons(nm') \subseteq {"publisherId", "writers"}
         /\ \A d \in ToSet(nm'.payload) : FrameTaken(d)
         /\ Counting'
<1> DEFINE m == nm'
           n == Len(cfg.writers)
           next == Next16(nmSeq)
           gh == [writerGroupId |-> WriterGroup(cfg.group).writerGroupId, groupVersion |-> <<>>,
                  networkMessageNumber |-> <<>>, sequenceNumber |-> next]
           ids == [i \in DOMAIN cfg.writers |-> Id(cfg, i)]
<1>1. IsPublisher(cfg)
  BY MessagesAssumption
<1>2. n \in Nat /\ DOMAIN cfg.writers = 1 .. n
  BY <1>1, SequenceFacts DEF IsPublisher
<1>3. nmSeq' \in 0 .. U16 /\ next = nmSeq'
  <2>1. nmSeq' = (nmSeq + 1) % (U16 + 1) /\ next = nmSeq'
    BY DEF Built, Next16
  <2>2. nmSeq \in Nat /\ U16 \in Nat
    BY WidthsAssumption DEF Counting
  <2> HIDE DEF next
  <2> QED
    BY <2>1, <2>2
<1>4. m = [publisherId |-> cfg.publisherId, groupName |-> <<>>, dataSetClassId |-> <<>>,
           groupHeader |-> <<gh>>, ids |-> ids,
           timestamp |-> <<published>>, picoseconds |-> <<>>, promoted |-> FALSE, chunk |-> <<>>,
           payload |-> frames]
  BY Zenon DEF Built
<1> HIDE DEF gh, ids, m
<1>5. /\ m.publisherId = cfg.publisherId /\ m.dataSetClassId = <<>> /\ m.groupHeader = <<gh>>
      /\ m.ids = ids /\ m.picoseconds = <<>> /\ m.promoted = FALSE /\ m.payload = frames
      /\ m.timestamp = <<published>> /\ m.chunk = <<>>
  BY <1>4
<1>6. gh.writerGroupId \in 0 .. U16 /\ gh.sequenceNumber \in 0 .. U16
  <2>1. gh.writerGroupId = cfg.group.writerGroupId[2] /\ gh.sequenceNumber = next
    BY DEF gh, WriterGroup
  <2> HIDE DEF next
  <2> QED
    BY <1>1, <1>3, <2>1, AcceptedGroup
<1>7. /\ IsSequence(ids) /\ DOMAIN ids = 1 .. n /\ \A i \in 1 .. n : ids[i] \in 0 .. U16
  <2>1. DOMAIN ids = 1 .. n /\ ids = [i \in 1 .. n |-> ids[i]] /\ \A i \in 1 .. n : ids[i] = Id(cfg, i)
    BY <1>2 DEF ids
  <2>2. IsSequence(ids)
    BY <1>2, <2>1, SequenceMade
  <2>3. \A i \in 1 .. n : Id(cfg, i) \in 0 .. U16
    BY <1>1, <1>2, AcceptedWriter
  <2> QED
    BY <2>1, <2>2, <2>3
<1>8. IsSequence(frames) /\ \A d \in ToSet(frames) : FrameTyped(d)
  <2>1. IsSequence(frames) /\ Len(frames) = n
    BY <1>2, SequenceMade
  <2> QED
    BY <1>2, <2>1, SequenceFacts
<1>9. IsMessage(m)
  BY <1>1, <1>5, <1>7, <1>8, SettingOne DEF IsMessage, IsPublisher, FrameTyped
<1>10. HeaderReasons(m) \subseteq {"publisherId", "writers"}
  <2>1. \A i \in DOMAIN m.ids : m.ids[i] \in 0 .. U16
    BY <1>5, <1>7
  <2> QED
    BY ONLY <1>5, <1>6, <2>1, HeaderTaken
<1>11. mtu' \in Int
  BY <1>1, AcceptedGroup DEF Built
<1>12. Counting'
  <2>1. /\ DOMAIN dsmSeq' = DOMAIN dsmSeq
        /\ \A id \in DOMAIN dsmSeq :
             dsmSeq'[id] = Counted(dsmSeq[id], Cardinality({i \in DOMAIN cfg.writers : Id(cfg, i) = id}))
    BY DEF Built
  <2>2. ASSUME NEW id \in DOMAIN dsmSeq
        PROVE  dsmSeq'[id] \in Nat
    <3> DEFINE k == Cardinality({i \in DOMAIN cfg.writers : Id(cfg, i) = id})
    <3>1. k \in Nat
      BY <1>1, HowOften DEF IsPublisher
    <3>2. dsmSeq[id] \in Nat /\ dsmSeq'[id] = Counted(dsmSeq[id], k)
      BY <2>1 DEF Counting
    <3> HIDE DEF k
    <3>3. Counted(dsmSeq[id], k) \in 0 .. U16
      BY ONLY <3>1, <3>2, CountTyped
    <3> QED
      BY <3>2, <3>3
  <2>3. nmSeq' \in Nat
    BY <1>3
  <2> QED
    BY <2>1, <2>2, <2>3 DEF Counting
<1>13. \A d \in ToSet(m.payload) : FrameTaken(d)
  BY <1>5, <1>8 DEF FrameTyped
<1> QED
  BY <1>9, <1>10, <1>11, <1>12, <1>13 DEF m

-----------------------------------------------------------------------------
(* The invariant, and what follows from it.                                 *)

(* It holds at first.                                                       *)
LEMMA MessageInitInv == MessageInit => MessageInv
<1> SUFFICES ASSUME MessageInit
             PROVE  MessageInv
  OBVIOUS
<1>1. CASE /\ stage = "config" /\ cfg \in Publishers /\ rd \in Readers
           /\ nmSeq \in SeqStarts /\ dsmSeq = [id \in {w.dataSetWriterId[2] : w \in ToSet(cfg.writers)} |-> nmSeq]
           /\ nm = NoMessage /\ mtu = 0 /\ format = cfg.encoding
  <2>1. Deployed /\ HasMessage /\ AsEncoded /\ FromConfiguration
    BY <1>1 DEF Deployed, HasMessage, AsEncoded, FromConfiguration, WithMessage
  <2>2. nmSeq \in Nat
    BY <1>1, MessagesAssumption, WidthsAssumption
  <2>3. Counting
    BY <1>1, <2>2 DEF Counting
  <2> QED
    BY <2>1, <2>3 DEF MessageInv
<1>2. CASE \E s \in Samples :
             /\ stage = "built" /\ nm = s.nm /\ mtu = s.mtu /\ format = s.encoding
             /\ cfg = <<>> /\ rd = <<>> /\ nmSeq = 0 /\ dsmSeq = <<>>
  BY <1>2, MessagesAssumption
     DEF MessageInv, Deployed, HasMessage, AsEncoded, Counting, FromConfiguration, WithMessage
<1> QED
  BY <1>1, <1>2 DEF MessageInit

(* Every step preserves it.                                                 *)
LEMMA MessageStepInv == MessageInv /\ [MessageNext]_messageVars => MessageInv'
<1> SUFFICES ASSUME MessageInv, [MessageNext]_messageVars
             PROVE  MessageInv'
  OBVIOUS
<1>1. Deployed /\ HasMessage /\ AsEncoded /\ Counting /\ FromConfiguration
  BY DEF MessageInv
<1>2. CASE UNCHANGED messageVars
  <2>1. UNCHANGED <<stage, cfg, nmSeq, dsmSeq, nm, mtu, format, reasons, wire>>
    BY <1>2 DEF messageVars, config, message
  <2>2. UNCHANGED <<EncoderReasons, TopicReasons>>
    BY <2>1 DEF EncoderReasons, TopicReasons
  <2>3. AsEncoded'
    BY ONLY <1>1, <2>1, <2>2 DEF AsEncoded
  <2>4. Deployed' /\ HasMessage' /\ Counting' /\ FromConfiguration'
    BY <1>1, <1>2 DEF messageVars, config, message, Deployed, HasMessage, Counting, FromConfiguration
  <2> QED
    BY <2>3, <2>4 DEF MessageInv
<1>3. CASE Validate
  <2>1. Deployed' /\ HasMessage' /\ AsEncoded' /\ FromConfiguration'
    BY <1>1, <1>3 DEF Validate, config, message, Deployed, HasMessage, AsEncoded, FromConfiguration, WithMessage
  <2>2. Counting'
    BY <1>1, <1>3 DEF Validate, config, Counting
  <2> QED
    BY <2>1, <2>2 DEF MessageInv
<1>4. ASSUME Idle, UNCHANGED config, stage' = "built",
             NEW frames, frames = [i \in DOMAIN cfg.writers |-> frames[i]],
             \A i \in DOMAIN cfg.writers : FrameTyped(frames[i]), Built(cfg, frames)
      PROVE  MessageInv'
  <2>1. cfg \in Publishers /\ cfg # <<>> /\ Accepted(cfg) /\ Counting /\ UNCHANGED cfg
    BY <1>1, <1>4 DEF Idle, Deployed, WithMessage, config
  <2>2. /\ IsMessage(nm') /\ mtu' \in Int /\ HeaderReasons(nm') \subseteq {"publisherId", "writers"}
        /\ \A d \in ToSet(nm'.payload) : FrameTaken(d)
        /\ Counting'
    BY <1>4, <2>1, BuiltTyped
  <2>3. Deployed' /\ AsEncoded'
    BY <1>4, <2>1 DEF Deployed, AsEncoded
  <2>4. HasMessage' /\ FromConfiguration'
    BY <2>2 DEF HasMessage, FromConfiguration
  <2> QED
    BY <2>2, <2>3, <2>4 DEF MessageInv
<1>5. ASSUME Idle
      PROVE  IsPublisher(cfg) /\ Accepted(cfg) /\ cfg # <<>>
  BY <1>1, <1>5, MessagesAssumption DEF Idle, Deployed, WithMessage
<1>6. CASE PublishKeepAlive
  <2> DEFINE frames == [i \in DOMAIN cfg.writers |-> KeepAliveFrame(cfg, i)]
  <2>1. Idle /\ UNCHANGED config /\ stage' = "built" /\ Built(cfg, frames)
    BY <1>6 DEF PublishKeepAlive
  <2>2. \A i \in DOMAIN cfg.writers : FrameTyped(frames[i])
    BY <1>1, <1>5, <2>1, FramesTyped
  <2>3. frames = [i \in DOMAIN cfg.writers |-> frames[i]]
    OBVIOUS
  <2> HIDE DEF frames
  <2> QED
    BY <1>4, <2>1, <2>2, <2>3
<1>7. CASE \E payload \in Payloads : PublishKeyFrame(payload)
  <2>1. PICK payload \in Payloads : PublishKeyFrame(payload)
    BY <1>7
  <2> DEFINE frames == [i \in DOMAIN cfg.writers |-> KeyFrame(cfg, i, payload)]
  <2>2. Idle /\ UNCHANGED config /\ stage' = "built" /\ Built(cfg, frames)
    BY <2>1 DEF PublishKeyFrame
  <2>3. \A i \in DOMAIN cfg.writers : FrameTyped(frames[i])
    BY <1>1, <1>5, <2>2, FramesTyped
  <2>4. frames = [i \in DOMAIN cfg.writers |-> frames[i]]
    OBVIOUS
  <2> HIDE DEF frames
  <2> QED
    BY <1>4, <2>2, <2>3, <2>4
<1>8. CASE Encode
  <2>1. stage = "built" /\ stage' \in {"failed", "sent"} /\ UNCHANGED <<config, nmSeq, dsmSeq, message>>
    BY <1>8 DEF Encode
  <2>2. Deployed' /\ HasMessage' /\ Counting' /\ FromConfiguration'
    BY <1>1, <2>1 DEF config, message, Deployed, HasMessage, Counting, FromConfiguration, WithMessage
  <2>3. AsEncoded'
    <3>1. nm' = nm /\ mtu' = mtu /\ format' = format /\ cfg' = cfg
      BY <2>1 DEF message, config
    <3>2. EncoderReasons' = EncoderReasons /\ TopicReasons' = TopicReasons
      BY <3>1 DEF EncoderReasons, TopicReasons
    <3>3. reasons' = IF EncoderReasons # {} THEN EncoderReasons ELSE TopicReasons
      BY <1>8 DEF Encode
    <3>4. stage' = "sent" => EncoderReasons = {}
                             /\ wire' = IF format = "json" THEN EncodeJson(nm) ELSE EncodeUadp(nm, mtu)
      BY <1>8, <3>3 DEF Encode
    <3>5. stage' = "sent" /\ format = "uadp" => UadpReasons(nm, mtu) = {} /\ wire' = EncodeUadp(nm, mtu)
      BY <3>4 DEF EncoderReasons
    <3> QED
      BY <3>1, <3>2, <3>3, <3>5 DEF AsEncoded
  <2> QED
    BY <2>2, <2>3 DEF MessageInv
<1>9. CASE Receive
  <2>1. stage = "sent" /\ stage' = "received" /\ UNCHANGED <<config, nmSeq, dsmSeq, message>>
    BY <1>9 DEF Receive
  <2> QED
    BY <1>1, <2>1 DEF config, message, MessageInv, Deployed, HasMessage,
            AsEncoded, Counting, FromConfiguration, WithMessage
<1> QED
  BY <1>2, <1>3, <1>6, <1>7, <1>8, <1>9 DEF MessageNext

(* Every message under way is one, what is sent or refused is what the      *)
(* encoder makes of it, and what an accepted configuration is made into has *)
(* numbers of 16 bits: the invariant of every behaviour of PubSubMessages.  *)
THEOREM MessageInvariant == MessageSpec => []MessageInv
BY MessageInitInv, MessageStepInv, PTL DEF MessageSpec

(* The parts of a message that is not refused tile it, and fit the mtu.     *)
LEMMA PartsTileAndFit ==
  ASSUME NEW m, IsMessage(m), NEW limit \in Int, UadpReasons(m, limit) = {}, NEW w, w = EncodeUadp(m, limit)
  PROVE  /\ w.parts # <<>> => TileTheWhole(ChunksOf(w.parts))
         /\ \A i \in DOMAIN w.parts : Bytes(w.parts[i]) <= limit
<1> DEFINE total == Bytes(Whole(m))
           cs == SplitIntoChunks(m, limit, total)
           parts == EncodeChunks(m, cs)
<1>1. w.parts = IF IsSplit(m, limit) THEN parts ELSE <<>>
  BY DEF EncodeUadp
<1>2. CASE ~IsSplit(m, limit)
  BY <1>1, <1>2
<1>3. CASE IsSplit(m, limit)
  <2>1. /\ \E n \in Nat : n >= 1 /\ DOMAIN cs = 1 .. n /\ cs = [i \in 1 .. n |-> cs[i]] /\ Len(cs) = n
        /\ cs[1].offset = 0 /\ cs[Len(cs)].offset + cs[Len(cs)].len = total
        /\ \A i \in DOMAIN cs : cs[i].total = total
        /\ \A i \in 2 .. Len(cs) : cs[i].offset = cs[i - 1].offset + cs[i - 1].len
        /\ \A i \in DOMAIN cs : Bytes(EncodeChunk(m, cs[i])) <= limit
    BY <1>3, ChunksTileAndFit
  <2> HIDE DEF cs, total
  <2>2. PICK n \in Nat : n >= 1 /\ DOMAIN cs = 1 .. n /\ Len(cs) = n
    BY <2>1
  <2>3. DOMAIN parts = 1 .. n /\ \A i \in 1 .. n : parts[i] = EncodeChunk(m, cs[i])
    BY <2>2 DEF EncodeChunks
  <2> DEFINE chunks == ChunksOf(parts)
  <2>4. DOMAIN chunks = 1 .. n /\ \A i \in 1 .. n : chunks[i] = DecodeUadp(EncodeChunk(m, cs[i]))
    BY <2>3 DEF ChunksOf
  <2>5. chunks = [i \in 1 .. n |-> chunks[i]]
    BY <2>3 DEF ChunksOf
  <2> HIDE DEF chunks, parts
  <2>6. Len(chunks) = n
    BY <2>4, <2>5, SequenceMade
  <2>7. ASSUME NEW i \in 1 .. n
        PROVE  chunks[i].ok = TRUE /\ Has(chunks[i].val.chunk) /\ Get(chunks[i].val.chunk) = cs[i]
    <3>1. chunks[i].ok = TRUE /\ chunks[i].val.chunk = <<cs[i]>>
      <4>1. chunks[i] = DecodeUadp(EncodeChunk(m, cs[i]))
        BY <2>4
      <4>2. /\ DecodeUadp(EncodeChunk(m, cs[i])).ok = TRUE
            /\ DecodeUadp(EncodeChunk(m, cs[i])).val.chunk = <<cs[i]>>
        BY ONLY ChunkDecoded, Zenon
      <4> QED
        BY ONLY <4>1, <4>2, Zenon
    <3> QED
      BY <3>1, Some
  <2>8. TileTheWhole(chunks)
    <3> DEFINE at(i) == Get(chunks[i].val.chunk)
    <3>1. 1 \in 1 .. n /\ n \in 1 .. n /\ \A i \in 2 .. n : i \in 1 .. n /\ i - 1 \in 1 .. n
      BY <2>2
    <3>2. \A i \in 1 .. n : at(i) = cs[i]
      BY <2>7
    <3>3. \A i \in DOMAIN chunks : chunks[i].ok /\ Has(chunks[i].val.chunk)
      BY <2>4, <2>7
    <3>4. at(1).offset = 0 /\ at(Len(chunks)).offset + at(Len(chunks)).len = at(1).total
      BY <2>1, <2>2, <2>6, <3>1, <3>2
    <3>5. ASSUME NEW i \in 2 .. Len(chunks)
          PROVE  at(i).offset = at(i - 1).offset + at(i - 1).len
      <4>1. cs[i].offset = cs[i - 1].offset + cs[i - 1].len /\ i \in 1 .. n /\ i - 1 \in 1 .. n
        BY <2>1, <2>2, <2>6, <3>1
      <4> HIDE DEF at
      <4> QED
        BY <3>2, <4>1
    <3> QED
      BY <3>3, <3>4, <3>5 DEF TileTheWhole
  <2> QED
    BY <1>1, <1>3, <2>1, <2>2, <2>3, <2>8 DEF chunks
<1> QED
  BY <1>2, <1>3

(* encodeNetworkMessage(): whatever the message, its header and the mtu, no *)
(* chunk that is sent is larger than the mtu, and the decoder finds in each *)
(* the offset, length and total it was written with, so that together they  *)
(* tile the message (ChunksFit).                                            *)
THEOREM ChunksAlwaysFit == MessageSpec => []ChunksFit
<1>1. MessageInv => ChunksFit
  <2> SUFFICES ASSUME MessageInv, stage = "sent", format = "uadp"
               PROVE  /\ wire.parts # <<>> => TileTheWhole(ChunksOf(wire.parts))
                      /\ \A i \in DOMAIN wire.parts : Bytes(wire.parts[i]) <= mtu
    BY DEF ChunksFit
  <2>1. IsMessage(nm) /\ mtu \in Int /\ UadpReasons(nm, mtu) = {} /\ wire = EncodeUadp(nm, mtu)
    BY DEF MessageInv, HasMessage, AsEncoded, WithMessage
  <2> QED
    BY ONLY <2>1, PartsTileAndFit
<1> QED
  BY <1>1, MessageInvariant, PTL

(* A value that fits its type is written without a throw.                   *)
LEMMA FittingIsWritten ==
  ASSUME NEW t \in BUILTIN_TYPE, NEW v, Fits(t, v)
  PROVE  ~Throws(t, v)
<1> USE DEF Short, Long
<1>1. t \in {"Boolean"} \cup Short \cup Long
        \cup {"Float", "Double", "StatusCode", "String", "ByteString", "DateTime", "Guid"}
  BY WidthFacts DEF BUILTIN_TYPE
<1>2. CASE t = "Boolean"
  BY <1>2 DEF Throws
<1>3. CASE t \in Short
  <2>1. v[1] = "num" /\ InRange(t, v[2])
    BY <1>3 DEF Fits
  <2>2. ToNumber(v) = v
    <3>1. Null[1] = "null"
      BY DEF Null
    <3> QED
      BY <2>1, <3>1 DEF ToNumber
  <2> QED
    BY <1>3, <2>1, <2>2 DEF Throws
<1>4. CASE t \in Long
  <2>1. v[1] \in {"num", "big"} /\ InRange(t, v[2])
    BY <1>4 DEF Fits
  <2> QED
    BY <1>4, <2>1 DEF Throws
<1>5. CASE t \in {"Float", "Double", "StatusCode"}
  BY <1>5 DEF Throws, Fits
<1>6. CASE t \in {"String", "ByteString", "DateTime", "Guid"}
  BY <1>6 DEF Throws, Fits
<1> QED
  BY <1>1, <1>2, <1>3, <1>4, <1>5, <1>6

(* So the field that holds it gives no other reason than its name or its    *)
(* type.                                                                    *)
LEMMA SurvivingIsWritten ==
  ASSUME NEW encoding, NEW f, Survives(encoding, f.data)
  PROVE  FieldReasons("variant", f) \subseteq {"name", "type"}
<1> DEFINE t == f.data.type
           v == f.data.value
           scalars == IF IsArray(v) THEN v[2] ELSE <<v>>
<1>1. f.data # NoVariant /\ WellTyped(t, v)
  BY DEF Survives
<1>2. FieldReasons("variant", f) = Reason(BytesOf(f.name) > U16, "name") \cup VariantReasons(f.data)
  BY DEF FieldReasons
<1>3. VariantReasons(f.data) = ValueReasons(t, v)
  BY <1>1 DEF VariantReasons
<1> HIDE DEF t, v
<1>4. ASSUME t \in BUILTIN_TYPE
      PROVE  ~\E i \in DOMAIN scalars : Throws(t, scalars[i])
  <2>1. CASE IsArray(v)
    BY <1>1, <1>4, <2>1, FittingIsWritten DEF WellTyped
  <2>2. CASE ~IsArray(v)
    <3>1. DOMAIN scalars = {1} /\ scalars[1] = v
      BY <2>2
    <3> HIDE DEF scalars
    <3> QED
      BY <1>1, <1>4, <2>2, <3>1, FittingIsWritten DEF WellTyped
  <2> QED
    BY <2>1, <2>2
<1>5. ValueReasons(t, v) \subseteq {"type"}
  <2> DEFINE throws == \E i \in DOMAIN scalars : Throws(t, scalars[i])
  <2>1. ValueReasons(t, v) = IF t \notin BUILTIN_TYPE THEN {"type"} ELSE Reason(throws, "value")
    BY Zenon DEF ValueReasons
  <2>2. t \in BUILTIN_TYPE => ~throws
    BY <1>4
  <2> HIDE DEF throws
  <2> QED
    BY <2>1, <2>2 DEF Reason
<1> QED
  BY <1>2, <1>3, <1>5 DEF Reason

(* Nor does the data set message, beyond its version and its number of      *)
(* fields.                                                                  *)
LEMMA FrameWritten ==
  ASSUME NEW encoding, NEW d, FrameTaken(d), \A f \in ToSet(d.fields) : Survives(encoding, f.data)
  PROVE  DsmReasons(d) \subseteq {"version", "fields", "name", "type"}
<1> DEFINE header == Reason(Above(d.sequenceNumber, U16) \/ Above(d.status, U16), "header")
           version == Reason(Above(d.major, U32) \/ Above(d.minor, U32), "version")
           many == Reason(Len(d.fields) > U16, "fields")
           each == UNION {FieldReasons(d.fieldEncoding, d.fields[i]) : i \in DOMAIN d.fields}
<1>1. /\ d.fieldEncoding = "variant" /\ d.fieldEncoding \in FieldEncodings /\ d.messageType \in MessageTypes
      /\ header = {}
  BY DEF FrameTaken, FieldEncodings, MessageTypes, Reason
<1>2. version \subseteq {"version"} /\ many \subseteq {"fields"}
  BY DEF Reason
<1>3. each \subseteq {"name", "type"}
  <2> SUFFICES ASSUME NEW i \in DOMAIN d.fields
               PROVE  FieldReasons("variant", d.fields[i]) \subseteq {"name", "type"}
    BY <1>1
  <2>1. d.fields[i] \in ToSet(d.fields)
    BY DEF ToSet
  <2> QED
    BY <2>1, SurvivingIsWritten
<1>4. DsmReasons(d) = header \cup version \cup IF d.messageType = "keepalive" THEN {} ELSE many \cup each
  BY <1>1, Zenon DEF DsmReasons
<1> HIDE DEF header, version, many, each
<1> QED
  BY <1>1, <1>2, <1>3, <1>4

(* _emit(): a configuration that the validators accept is not refused by    *)
(* the encoder or by send() for well-typed values, but for the reasons that *)
(* no validator looks at (AcceptedIsSent).                                  *)
THEOREM AcceptedAlwaysSent == MessageSpec => []AcceptedIsSent
<1>1. MessageInv => AcceptedIsSent
  <2> DEFINE allowed == {"publisherId", "type", "version", "mtu", "size", "writers", "fields", "name"}
             unfit == cfg.transport = "mqtt" /\ (cfg.publisherId = <<>> \/ cfg.unfit # {})
  <2> SUFFICES ASSUME MessageInv, stage = "failed", cfg # <<>>,
                      \A d \in ToSet(nm.payload) : \A f \in ToSet(d.fields) : Survives(format, f.data)
               PROVE  reasons \subseteq allowed \cup {"topic"} /\ ("topic" \in reasons => unfit)
    BY DEF AcceptedIsSent
  <2>1. /\ HeaderReasons(nm) \subseteq {"publisherId", "writers"} /\ \A d \in ToSet(nm.payload) : FrameTaken(d)
        /\ reasons = IF EncoderReasons # {} THEN EncoderReasons ELSE TopicReasons
    BY DEF MessageInv, AsEncoded, FromConfiguration, WithMessage
  <2>2. JsonReasons(nm) \subseteq {"type"}
    <3>1. \A d \in ToSet(nm.payload) : d.messageType \in {"keyframe", "deltaframe", "event", "keepalive"}
      BY <2>1 DEF FrameTaken
    <3> QED
      BY <3>1 DEF JsonReasons, Reason
  <2>3. UadpReasons(nm, mtu) \subseteq allowed
    <3> DEFINE dsms == UNION {DsmReasons(nm.payload[i]) : i \in DOMAIN nm.payload}
               early == HeaderReasons(nm) \cup dsms
               size == Reason(/\ nm.ids # <<>> /\ Len(nm.payload) > 1
                              /\ \E i \in DOMAIN nm.payload : Bytes(EncodeDataSetMessage(nm.payload[i])) > U16, "size")
               small == Reason(IsSplit(nm, mtu) /\ ChunkSize(nm, mtu, Bytes(Whole(nm))) <= 0, "mtu")
    <3>1. UadpReasons(nm, mtu) = IF early # {} THEN early ELSE size \cup small
      BY DEF UadpReasons
    <3>2. size \subseteq {"size"} /\ small \subseteq {"mtu"}
      BY DEF Reason
    <3>3. dsms \subseteq {"version", "fields", "name", "type"}
      <4> SUFFICES ASSUME NEW i \in DOMAIN nm.payload
                   PROVE  DsmReasons(nm.payload[i]) \subseteq {"version", "fields", "name", "type"}
        OBVIOUS
      <4>1. nm.payload[i] \in ToSet(nm.payload)
        BY DEF ToSet
      <4> QED
        BY <2>1, <4>1, FrameWritten
    <3> HIDE DEF dsms, size, small
    <3> QED
      BY <2>1, <3>1, <3>2, <3>3
  <2>4. EncoderReasons \subseteq allowed
    BY <2>2, <2>3 DEF EncoderReasons
  <2>5. TopicReasons \subseteq {"topic"} /\ ("topic" \in TopicReasons => unfit)
    BY DEF TopicReasons, Reason, Has
  <2>6. "topic" \notin allowed
    OBVIOUS
  <2> HIDE DEF allowed, unfit
  <2> QED
    BY <2>1, <2>4, <2>5, <2>6
<1> QED
  BY <1>1, MessageInvariant, PTL

(* The header of a message that is encoded comes back: everything but the   *)
(* spelling of its class id and the numbers of its group that it has not    *)
(* got.                                                                     *)
LEMMA NmHeaderValues ==
  ASSUME NEW h, NEW c
  PROVE  /\ NmHeader(h, c)["publisherId"] = When(Has(h.publisherId), <<IdContent(h)>>)
         /\ NmHeader(h, c)["classId"] = When(Has(h.dataSetClassId), <<Or(h.dataSetClassId, Null)>>)
         /\ NmHeader(h, c)["writerGroupId"] = When(Has(h.groupHeader), <<h.groupHeader[1].writerGroupId>>)
         /\ NmHeader(h, c)["sequenceNumber"] = When(Has(h.groupHeader), <<h.groupHeader[1].sequenceNumber>>)
         /\ NmHeader(h, c)["ids"] = When(h.ids # <<>>, <<h.ids>>)
         /\ NmHeader(h, c)["timestamp"] = When(Has(h.timestamp), <<Or(h.timestamp, 0)>>)
         /\ NmHeader(h, c)["chunk"] = When("chunk" \in Flags2(h), <<c>>)
<1> DEFINE H == NmHeader(h, c)
           x == NmContents(h, c)
<1>1. \A k \in 1 .. 12 : H[NmParts[k][1]] = When(NmParts[k][4] \in FlagByte(h, NmParts[k][3]), <<x[k]>>)
  BY NmHeaderPart, ZenonT(60)
<1>2. /\ x[3] = IdContent(h) /\ x[4] = Or(h.dataSetClassId, Null) /\ x[5] = h.groupHeader[1].writerGroupId
      /\ x[8] = h.groupHeader[1].sequenceNumber /\ x[9] = h.ids /\ x[10] = Or(h.timestamp, 0) /\ x[12] = c
  BY DEF NmContents
<1>3. FlagByte(h, "flags") = Flags0(h) /\ FlagByte(h, "ext1") = Flags1(h) /\ FlagByte(h, "ext2") = Flags2(h)
  BY DEF FlagByte
<1> HIDE DEF H, x
<1>5. H["publisherId"] = When("publisherId" \in Flags0(h), <<x[3]>>)
  <2>1. NmParts[3][1] = "publisherId" /\ NmParts[3][3] = "flags" /\ NmParts[3][4] = "publisherId"
    BY HeaderParts DEF PartIs
  <2>2. H[NmParts[3][1]] = When(NmParts[3][4] \in FlagByte(h, NmParts[3][3]), <<x[3]>>)
    BY ONLY <1>1, 3 \in 1 .. 12
  <2> QED
    BY ONLY <1>3, <2>1, <2>2
<1>6. H["classId"] = When("classId" \in Flags1(h), <<x[4]>>)
  <2>1. NmParts[4][1] = "classId" /\ NmParts[4][3] = "ext1" /\ NmParts[4][4] = "classId"
    BY HeaderParts DEF PartIs
  <2>2. H[NmParts[4][1]] = When(NmParts[4][4] \in FlagByte(h, NmParts[4][3]), <<x[4]>>)
    BY ONLY <1>1, 4 \in 1 .. 12
  <2> QED
    BY ONLY <1>3, <2>1, <2>2
<1>7. H["writerGroupId"] = When("groupHeader" \in Flags0(h), <<x[5]>>)
  <2>1. NmParts[5][1] = "writerGroupId" /\ NmParts[5][3] = "flags" /\ NmParts[5][4] = "groupHeader"
    BY HeaderParts DEF PartIs
  <2>2. H[NmParts[5][1]] = When(NmParts[5][4] \in FlagByte(h, NmParts[5][3]), <<x[5]>>)
    BY ONLY <1>1, 5 \in 1 .. 12
  <2> QED
    BY ONLY <1>3, <2>1, <2>2
<1>8. H["sequenceNumber"] = When("groupHeader" \in Flags0(h), <<x[8]>>)
  <2>1. NmParts[8][1] = "sequenceNumber" /\ NmParts[8][3] = "flags" /\ NmParts[8][4] = "groupHeader"
    BY HeaderParts DEF PartIs
  <2>2. H[NmParts[8][1]] = When(NmParts[8][4] \in FlagByte(h, NmParts[8][3]), <<x[8]>>)
    BY ONLY <1>1, 8 \in 1 .. 12
  <2> QED
    BY ONLY <1>3, <2>1, <2>2
<1>9. H["ids"] = When("payloadHeader" \in Flags0(h), <<x[9]>>)
  <2>1. NmParts[9][1] = "ids" /\ NmParts[9][3] = "flags" /\ NmParts[9][4] = "payloadHeader"
    BY HeaderParts DEF PartIs
  <2>2. H[NmParts[9][1]] = When(NmParts[9][4] \in FlagByte(h, NmParts[9][3]), <<x[9]>>)
    BY ONLY <1>1, 9 \in 1 .. 12
  <2> QED
    BY ONLY <1>3, <2>1, <2>2
<1>10. H["timestamp"] = When("timestamp" \in Flags1(h), <<x[10]>>)
  <2>1. NmParts[10][1] = "timestamp" /\ NmParts[10][3] = "ext1" /\ NmParts[10][4] = "timestamp"
    BY HeaderParts DEF PartIs
  <2>2. H[NmParts[10][1]] = When(NmParts[10][4] \in FlagByte(h, NmParts[10][3]), <<x[10]>>)
    BY ONLY <1>1, 10 \in 1 .. 12
  <2> QED
    BY ONLY <1>3, <2>1, <2>2
<1>11. H["chunk"] = When("chunk" \in Flags2(h), <<x[12]>>)
  <2>1. NmParts[12][1] = "chunk" /\ NmParts[12][3] = "ext2" /\ NmParts[12][4] = "chunk"
    BY HeaderParts DEF PartIs
  <2>2. H[NmParts[12][1]] = When(NmParts[12][4] \in FlagByte(h, NmParts[12][3]), <<x[12]>>)
    BY ONLY <1>1, 12 \in 1 .. 12
  <2> QED
    BY ONLY <1>3, <2>1, <2>2
<1>12. /\ "classId" \in Flags1(h) <=> Has(h.dataSetClassId)
       /\ "timestamp" \in Flags1(h) <=> Has(h.timestamp)
       /\ "publisherId" \in Flags0(h) <=> Has(h.publisherId)
       /\ "groupHeader" \in Flags0(h) <=> Has(h.groupHeader)
       /\ "payloadHeader" \in Flags0(h) <=> h.ids # <<>>
  BY NmFlags
<1> QED
  BY <1>2, <1>5, <1>6, <1>7, <1>8, <1>9, <1>10, <1>11, <1>12 DEF H, When

(* A publisher's identifier comes back with its JavaScript type.            *)
LEMMA PublisherIdBack ==
  ASSUME NEW h, NEW c, IsOptional(h.publisherId), PublisherIdReasons(h.publisherId) = {}
  PROVE  ReadPublisherId(NmHeader(h, c)) = h.publisherId
<1> DEFINE H == NmHeader(h, c)
           o == h.publisherId
           id == Get(o)
<1>1. H["publisherId"] = When(Has(o), <<IdContent(h)>>)
  BY NmHeaderValues
<1>2. IdType(H) = IdKind(h)
  <2>1. Or(H["ext1"], {}) = Flags1(h)
    BY NmHeaderParts DEF FlagByte
  <2> QED
    BY <2>1, IdKindRead
<1> HIDE DEF H
<1>3. CASE ~Has(o)
  <2>1. H["publisherId"] = <<>> /\ o = <<>>
    BY <1>1, <1>3 DEF When, Has
  <2>2. ~Has(H["publisherId"])
    BY <2>1 DEF Has
  <2>3. ReadPublisherId(H) = H["publisherId"]
    BY ONLY <2>2 DEF ReadPublisherId
  <2> QED
    BY <2>1, <2>3 DEF H
<1>4. CASE Has(o)
  <2>1. o = <<id>> /\ id = <<id[1], id[2]>>
    BY <1>4 DEF IsOptional, IsSetting, IsScalar
  <2>2. H["publisherId"] = <<IdContent(h)>>
    BY <1>1, <1>4 DEF When
  <2>3. Has(H["publisherId"]) /\ Get(H["publisherId"]) = IdContent(h)
    BY <2>2, Some
  <2>4. TypeBits(o) = {PublisherIdType(id)} \ {"u8"}
    BY <1>4 DEF TypeBits
  <2>5. PublisherIdType(id) # "u8" => IdKind(h) = PublisherIdType(id)
    <3> HIDE DEF id
    <3>1. PublisherIdType(id) # "u8" => TypeBits(o) # {}
      BY <2>4
    <3> QED
      BY <3>1 DEF IdKind, id
  <2>6. PublisherIdType(id) = "u8" => IdKind(h) = "u8"
    <3> HIDE DEF id
    <3>1. PublisherIdType(id) = "u8" => TypeBits(o) = {}
      BY <2>4
    <3> QED
      BY <3>1 DEF IdKind
  <2>7. IdContent(h) = IF IdKind(h) = "string" THEN id ELSE id[2]
    BY <1>4 DEF IdContent
  <2>8. id[1] \in {"str", "guid", "big", "num"}
    <3> DEFINE bad == CASE id[1] \in {"str", "guid"} -> FALSE
                        [] id[1] = "big" -> id[2] \notin 0 .. U64
                        [] id[1] = "num" -> id[2] \notin 0 .. U32
                        [] OTHER -> TRUE
    <3>1. PublisherIdReasons(o) = Reason(bad, "publisherId")
      BY <1>4 DEF PublisherIdReasons
    <3>2. ~bad
      <4> HIDE DEF bad
      <4> QED
        BY <3>1 DEF Reason
    <3> QED
      BY <3>2
  <2>9. ReadPublisherId(H) = IF IdKind(h) = "string" THEN H["publisherId"]
                            ELSE IF IdKind(h) = "u64" THEN <<Big(IdContent(h))>>
                            ELSE <<Num(IdContent(h))>>
    BY <1>2, <2>3 DEF ReadPublisherId
  <2> HIDE DEF id, o
  <2>10. CASE id[1] \in {"str", "guid"}
    <3>1. IdKind(h) = "string"
      <4>1. PublisherIdType(id) = "string"
        BY <2>10 DEF PublisherIdType
      <4> QED
        BY <2>5, <4>1
    <3> QED
      BY <2>1, <2>2, <2>7, <2>9, <3>1 DEF H, o
  <2>11. CASE id[1] = "big"
    <3>1. IdKind(h) = "u64"
      <4>1. PublisherIdType(id) = "u64"
        BY <2>11 DEF PublisherIdType
      <4> QED
        BY <2>5, <4>1
    <3>2. ReadPublisherId(H) = <<Big(id[2])>> /\ Big(id[2]) = id
      BY <2>1, <2>7, <2>9, <2>11, <3>1 DEF Big
    <3> QED
      BY <2>1, <3>2 DEF H, o
  <2>12. CASE id[1] = "num"
    <3>1. PublisherIdType(id) \in {"u8", "u16", "u32"}
      BY <2>12 DEF PublisherIdType
    <3>2. IdKind(h) \in {"u8", "u16", "u32"}
      BY <2>5, <2>6, <3>1
    <3>3. ReadPublisherId(H) = <<Num(id[2])>> /\ Num(id[2]) = id
      BY <2>1, <2>7, <2>9, <2>12, <3>2 DEF Num
    <3> QED
      BY <2>1, <3>3 DEF H, o
  <2> QED
    BY <2>8, <2>10, <2>11, <2>12
<1> QED
  BY <1>3, <1>4

(* What comes back of a header, payload apart.                              *)
SameHeaderOf(m, b) ==
  /\ b.publisherId = m.publisherId /\ b.ids = m.ids /\ b.timestamp = m.timestamp
  /\ Has(b.dataSetClassId) <=> Has(m.dataSetClassId)
  /\ Has(b.groupHeader) <=> Has(m.groupHeader)
  /\ Has(m.groupHeader) => /\ Get(b.groupHeader).writerGroupId = Get(m.groupHeader).writerGroupId
                           /\ Get(b.groupHeader).sequenceNumber = Get(m.groupHeader).sequenceNumber

(* The header comes back the same.                                          *)
LEMMA NmHeaderSame ==
  ASSUME NEW m, IsMessage(m), PublisherIdReasons(m.publisherId) = {}, NEW c, NEW payload
  PROVE  /\ SameHeaderOf(m, NmBack(m, c, payload)) /\ NmBack(m, c, payload).payload = payload
         /\ Len(Or(NmHeader(m, c)["ids"], <<>>)) = Len(m.ids)
         /\ NmHeader(m, c)["chunk"] = <<>>
<1> DEFINE H == NmHeader(m, c)
           b == NmBack(m, c, payload)
<1>1. /\ H["classId"] = When(Has(m.dataSetClassId), <<Or(m.dataSetClassId, Null)>>)
      /\ H["writerGroupId"] = When(Has(m.groupHeader), <<m.groupHeader[1].writerGroupId>>)
      /\ H["sequenceNumber"] = When(Has(m.groupHeader), <<m.groupHeader[1].sequenceNumber>>)
      /\ H["ids"] = When(m.ids # <<>>, <<m.ids>>)
      /\ H["timestamp"] = When(Has(m.timestamp), <<Or(m.timestamp, 0)>>)
      /\ H["chunk"] = When("chunk" \in Flags2(m), <<c>>)
  <2>1. \A h, d :
          /\ NmHeader(h, d)["publisherId"] = When(Has(h.publisherId), <<IdContent(h)>>)
          /\ NmHeader(h, d)["classId"] = When(Has(h.dataSetClassId), <<Or(h.dataSetClassId, Null)>>)
          /\ NmHeader(h, d)["writerGroupId"] = When(Has(h.groupHeader), <<h.groupHeader[1].writerGroupId>>)
          /\ NmHeader(h, d)["sequenceNumber"] = When(Has(h.groupHeader), <<h.groupHeader[1].sequenceNumber>>)
          /\ NmHeader(h, d)["ids"] = When(h.ids # <<>>, <<h.ids>>)
          /\ NmHeader(h, d)["timestamp"] = When(Has(h.timestamp), <<Or(h.timestamp, 0)>>)
          /\ NmHeader(h, d)["chunk"] = When("chunk" \in Flags2(h), <<d>>)
    BY ONLY NmHeaderValues, ZenonT(60)
  <2> HIDE DEF b
  <2> QED
    BY <2>1, Zenon
<1>2. IsOptional(m.publisherId) /\ IsSetting(m.timestamp) /\ m.chunk = <<>> /\ IsSequence(m.ids)
  BY DEF IsMessage
<1>3. ReadPublisherId(H) = m.publisherId
  BY <1>2, PublisherIdBack
<1> HIDE DEF H
<1>4. /\ b.publisherId = ReadPublisherId(H) /\ b.dataSetClassId = When(Has(H["classId"]), <<Guid("upper")>>)
      /\ b.groupHeader = ReadGroupHeader(H) /\ b.ids = Or(H["ids"], <<>>) /\ b.timestamp = H["timestamp"]
      /\ b.payload = payload
  BY DEF NmBack, H
<1> HIDE DEF b
<1>5. \A on, x : Has(When(on, <<x>>)) <=> on
  BY DEF Has, When
<1>6. Or(H["ids"], <<>>) = m.ids
  BY <1>1, Some DEF When, Or, Has
<1>7. H["timestamp"] = m.timestamp
  BY <1>1, <1>2 DEF When, Or, Has, IsSetting, Get
<1>8. Has(b.dataSetClassId) <=> Has(m.dataSetClassId)
  BY <1>1, <1>4, <1>5
<1>9. Has(H["writerGroupId"]) <=> Has(m.groupHeader)
  BY <1>1, <1>5
<1>10. Has(b.groupHeader) <=> Has(m.groupHeader)
  <2> DEFINE gh == [writerGroupId |-> Or(H["writerGroupId"], 0), groupVersion |-> H["groupVersion"],
                    networkMessageNumber |-> H["networkMessageNumber"], sequenceNumber |-> Or(H["sequenceNumber"], 0)]
  <2>1. ReadGroupHeader(H) = When(Has(H["writerGroupId"]), <<gh>>)
    BY DEF ReadGroupHeader
  <2> HIDE DEF gh
  <2> QED
    BY <1>4, <1>5, <1>9, <2>1
<1>11. ASSUME Has(m.groupHeader)
       PROVE  /\ Get(b.groupHeader).writerGroupId = Get(m.groupHeader).writerGroupId
              /\ Get(b.groupHeader).sequenceNumber = Get(m.groupHeader).sequenceNumber
  <2> DEFINE gh == [writerGroupId |-> Or(H["writerGroupId"], 0), groupVersion |-> H["groupVersion"],
                    networkMessageNumber |-> H["networkMessageNumber"], sequenceNumber |-> Or(H["sequenceNumber"], 0)]
  <2>1. b.groupHeader = <<gh>>
    BY <1>4, <1>9, <1>11 DEF ReadGroupHeader, When
  <2>2. H["writerGroupId"] = <<m.groupHeader[1].writerGroupId>> /\ H["sequenceNumber"] = <<m.groupHeader[1].sequenceNumber>>
    BY <1>1, <1>11 DEF When
  <2>3. gh.writerGroupId = m.groupHeader[1].writerGroupId /\ gh.sequenceNumber = m.groupHeader[1].sequenceNumber
    BY <2>2, Some
  <2> HIDE DEF gh
  <2> QED
    BY <2>1, <2>3, Some DEF Get
<1>12. SameHeaderOf(m, b) /\ b.payload = payload
  BY <1>3, <1>4, <1>6, <1>7, <1>8, <1>10, <1>11 DEF SameHeaderOf
<1>13. H["chunk"] = <<>>
  <2>1. "chunk" \notin Flags2(m)
    BY <1>2 DEF Flags2, ExtendedFlags2, Reason, Has
  <2> QED
    BY <1>1, <2>1 DEF When
<1> QED
  BY <1>6, <1>12, <1>13 DEF H, b

-----------------------------------------------------------------------------
(* The whole message.                                                       *)

(* What is left of sized tokens is sized.                                   *)
LEMMA SuffixSized ==
  ASSUME NEW n \in Nat, NEW g, NEW s, NEW r, Suffix(g, s, n, r), Sized(r), \A k \in 1 .. n : Sized(s[k])
  PROVE  \A k \in 0 .. n : Sized(g[k])
<1> DEFINE Bad == {j \in 0 .. n : ~Sized(g[n - j])}
<1>1. Bad = {}
  <2> SUFFICES ASSUME Bad # {}
               PROVE  FALSE
    OBVIOUS
  <2>1. Bad \subseteq Nat
    OBVIOUS
  <2>2. PICK m \in Bad : \A j \in Bad : m <= j
    BY <2>1, LeastNumber
  <2>3. m # 0
    BY DEF Suffix
  <2>4. m - 1 \in 0 .. n /\ m - 1 \notin Bad /\ n - (m - 1) = n - m + 1 /\ n - m + 1 \in 1 .. n /\ n - m + 1 - 1 = n - m
    BY <2>2, <2>3
  <2>5. Sized(g[n - m + 1])
    BY <2>4
  <2>6. g[n - m] = Join(s[n - m + 1], g[n - m + 1])
    BY <2>4 DEF Suffix
  <2> QED
    BY <2>4, <2>5, <2>6, SizedConcat DEF Join
<1>2. ASSUME NEW k \in 0 .. n
      PROVE  Sized(g[k])
  <2>1. n - k \in 0 .. n /\ n - (n - k) = k
    OBVIOUS
  <2> QED
    BY <1>1, <2>1
<1> QED
  BY <1>2

(* More tokens are more bytes.                                              *)
LEMMA CountsGrow ==
  ASSUME NEW s, Sized(s), NEW f, Counts(f, s, Len(s)), NEW j \in 0 .. Len(s), NEW k \in 0 .. Len(s), j <= k
  PROVE  f[j] \in Nat /\ f[k] \in Nat /\ f[j] <= f[k]
<1> DEFINE n == Len(s)
<1>1. n \in Nat /\ \A i \in 1 .. n : TokenBytes(s[i]) \in Nat
  BY SequenceFacts DEF Sized
<1>2. \A i \in 0 .. n : f[i] \in Nat
  BY <1>1, CountsTyped
<1>3. \A i \in 0 .. n : f[i] = IF i = 0 THEN 0 ELSE f[i - 1] + TokenBytes(s[i])
  BY Zenon DEF Counts
<1> HIDE DEF n
<1> DEFINE Bad == {i \in j .. n : ~(f[j] <= f[i])}
<1>4. Bad = {}
  <2> SUFFICES ASSUME Bad # {}
               PROVE  FALSE
    OBVIOUS
  <2>1. Bad \subseteq Nat
    BY <1>1
  <2>2. PICK m \in Bad : \A i \in Bad : m <= i
    BY <2>1, LeastNumber
  <2>3. m # j /\ m \in 0 .. n /\ m \in 1 .. n /\ j \in 0 .. n
    BY <1>1, <1>2 DEF n
  <2>4. m - 1 \in j .. n /\ m - 1 \notin Bad /\ m - 1 \in 0 .. n
    BY <1>1, <2>2, <2>3
  <2>5. f[m] = f[m - 1] + TokenBytes(s[m]) /\ f[j] <= f[m - 1] /\ TokenBytes(s[m]) \in Nat
    BY <1>1, <1>3, <2>3, <2>4
  <2> QED
    BY <1>2, <2>3, <2>4, <2>5
<1> QED
  BY <1>2, <1>4 DEF n

(* The first so many tokens of a sequence.                                  *)
LEMMA JoinTaken ==
  ASSUME NEW b, IsSequence(b), NEW r, IsSequence(r)
  PROVE  /\ Len(Join(b, r)) = Len(b) + Len(r) /\ SubSeq(Join(b, r), 1, Len(b)) = b
         /\ SubSeq(Join(b, r), Len(b) + 1, Len(Join(b, r))) = r
         /\ \A i \in 1 .. Len(b) : Join(b, r)[i] = b[i]
         /\ r # <<>> => Join(b, r)[Len(b) + 1] = r[1]
<1> DEFINE S == ToSet(b) \cup ToSet(r)
<1>1. b \in Seq(S) /\ r \in Seq(S)
  <2>1. b \in Seq(ToSet(b)) /\ r \in Seq(ToSet(r))
    BY DEF IsSequence
  <2> QED
    BY <2>1
<1> HIDE DEF S
<1> DEFINE s == b \o r
<1>2. /\ s \in Seq(S) /\ Len(s) = Len(b) + Len(r) /\ Len(b) \in Nat /\ Len(r) \in Nat
      /\ \A i \in 1 .. Len(b) : s[i] = b[i]
      /\ \A i \in 1 .. Len(r) : s[Len(b) + i] = r[i]
  BY <1>1
<1> HIDE DEF s
<1>3. SubSeq(s, 1, Len(b)) = b
  <2> DEFINE t == SubSeq(s, 1, Len(b))
  <2>1. t \in Seq(S) /\ Len(t) = Len(b) /\ \A i \in 1 .. Len(b) : t[i] = s[i]
    BY <1>2
  <2> HIDE DEF t
  <2>2. t = b
    BY <1>1, <1>2, <2>1
  <2> QED
    BY <2>2 DEF t
<1>4. SubSeq(s, Len(b) + 1, Len(s)) = r
  <2> DEFINE t == SubSeq(s, Len(b) + 1, Len(s))
  <2>1. t \in Seq(S) /\ Len(t) = Len(r)
    BY <1>2
  <2>3. ASSUME NEW i \in 1 .. Len(r)
        PROVE  t[i] = s[Len(b) + i]
    <3>1. Len(s) - (Len(b) + 1) + 1 = Len(r) /\ Len(b) + 1 + i - 1 = Len(b) + i /\ Len(b) + 1 \in Nat
      BY <1>2
    <3>2. t[i] = s[Len(b) + 1 + i - 1]
      BY <1>2, <3>1
    <3> QED
      BY <3>1, <3>2
  <2> HIDE DEF t
  <2>2. t = r
    <3>1. \A i \in 1 .. Len(r) : t[i] = r[i]
      BY <1>2, <2>3
    <3> QED
      BY ONLY <1>1, <2>1, <3>1
  <2> QED
    BY <2>2 DEF t
<1>5. r # <<>> => s[Len(b) + 1] = r[1]
  <2>1. r # <<>> => 1 \in 1 .. Len(r)
    BY <1>1
  <2> QED
    BY <1>2, <2>1
<1> QED
  BY <1>2, <1>3, <1>4, <1>5 DEF Join, s

(* A message of known size is cut off exactly.                              *)
LEMMA CutExact ==
  ASSUME NEW b, Sized(b), NEW r, Sized(r), r = <<>> \/ TokenBytes(r[1]) = 1
  PROVE  Cut(Join(b, r), Bytes(b)) = b
<1> DEFINE s == Join(b, r)
           n == Len(b)
           N == Len(s)
           fits == {k \in 0 .. N : Bytes(SubSeq(s, 1, k)) = Bytes(b)}
<1>1. Sized(s) /\ IsSequence(s) /\ IsSequence(b) /\ IsSequence(r)
  BY SizedConcat DEF Sized, Join
<1>2. N \in Nat /\ n \in Nat /\ Len(r) \in Nat /\ N = n + Len(r) /\ SubSeq(s, 1, n) = b
      /\ (r # <<>> => s[n + 1] = r[1] /\ Len(r) > 0) /\ (r = <<>> => Len(r) = 0)
  <2>1. N = n + Len(r) /\ SubSeq(s, 1, n) = b /\ (r # <<>> => s[n + 1] = r[1])
    BY ONLY <1>1, JoinTaken DEF s, n, N
  <2>2. n \in Nat /\ Len(r) \in Nat /\ (r = <<>> <=> Len(r) = 0)
    BY <1>1, SequenceFacts
  <2> HIDE DEF s, n, N
  <2> QED
    BY <2>1, <2>2
<1> HIDE DEF s, n, N
<1>3. PICK f : Counts(f, s, N)
  BY <1>2, CountExists
<1>4. ASSUME NEW k \in 0 .. N
      PROVE  Bytes(SubSeq(s, 1, k)) = f[k]
  <2> DEFINE t == SubSeq(s, 1, k)
  <2>1. Len(t) = k /\ \A i \in 1 .. k : t[i] = s[i]
    <3>1. s \in Seq(ToSet(s))
      BY <1>1 DEF IsSequence
    <3> QED
      BY <1>2, <3>1 DEF N
  <2> HIDE DEF t
  <2>2. PICK e : Counts(e, t, k) /\ Bytes(t) = e[k]
    <3>1. Len(t) \in Nat
      BY <1>2, <2>1
    <3> QED
      BY <2>1, <3>1, BytesCounted
  <2>3. k \in Nat /\ k <= N
    BY <1>2
  <2>4. e[k] = f[k]
    <3>1. Starts(t, s, k)
      BY <2>1 DEF Starts
    <3>2. Counts(e, t, k) /\ Counts(f, s, N) /\ N \in Nat
      BY <1>2, <1>3, <2>2
    <3> QED
      BY ONLY <2>3, <3>1, <3>2, CountsAgree
  <2> QED
    BY <2>2, <2>4 DEF t
<1>5. n \in 0 .. N /\ Bytes(b) = f[n]
  <2>1. n \in 0 .. N
    BY <1>2
  <2> QED
    BY <1>2, <1>4, <2>1
<1>6. ASSUME NEW k \in 0 .. N, k > n
      PROVE  f[k] # f[n]
  <2>1. r # <<>> /\ n + 1 \in 0 .. N /\ n + 1 <= k /\ n + 1 # 0 /\ n + 1 - 1 = n
    BY <1>2, <1>6
  <2>2. TokenBytes(s[n + 1]) = 1
    BY <1>2, <2>1
  <2>3. \A i \in 0 .. N : f[i] = IF i = 0 THEN 0 ELSE f[i - 1] + TokenBytes(s[i])
    BY <1>3, Zenon DEF Counts
  <2>4. f[n + 1] = f[n] + 1
    <3>1. PICK m : m = n + 1
      OBVIOUS
    <3>2. m \in 0 .. N /\ m # 0 /\ m - 1 = n
      <4>1. n \in Nat /\ N \in Nat /\ n + 1 <= N
        BY <1>2, <2>1
      <4>2. m \in 0 .. N /\ m # 0 /\ m - 1 = n
        BY ONLY <3>1, <4>1
      <4> QED
        BY <4>2
    <3>3. f[m] = f[m - 1] + TokenBytes(s[m])
      BY ONLY <2>3, <3>2
    <3> QED
      BY <2>2, <3>1, <3>2, <3>3
  <2>5. f[n + 1] \in Nat /\ f[k] \in Nat /\ f[n + 1] <= f[k]
    BY <1>1, <1>3, <2>1, CountsGrow DEF N
  <2>6. f[n] \in Nat
    BY <1>1, <1>3, <1>5, CountsGrow DEF N
  <2> QED
    BY <2>4, <2>5, <2>6
<1>7. n \in fits /\ \A k \in fits : n >= k
  <2>1. Bytes(SubSeq(s, 1, n)) = Bytes(b)
    BY <1>2
  <2>2. ASSUME NEW k \in fits
        PROVE  n >= k
    BY <1>2, <1>4, <1>5, <1>6
  <2> QED
    BY <1>5, <2>1, <2>2
<1>8. fits \subseteq Int
  BY <1>2
<1>9. Cut(s, Bytes(b)) = IF fits = {} THEN <<>> ELSE SubSeq(s, 1, Max(fits))
  BY DEF Cut, N
<1> HIDE DEF fits
<1>10. Max(fits) = n
  <2> DEFINE P(x) == x \in fits /\ \A y \in fits : x >= y
  <2>1. Max(fits) = CHOOSE x \in fits : \A y \in fits : x >= y
    BY DEF Max
  <2>2. \A x \in fits : (\A y \in fits : x >= y) => x = n
    BY <1>7, <1>8
  <2> QED
    BY <1>7, <2>1, <2>2
<1>11. Cut(s, Bytes(b)) = b
  BY <1>2, <1>7, <1>9, <1>10
<1> QED
  BY <1>11 DEF s

-----------------------------------------------------------------------------
(* Data set messages of known sizes, one by one.                            *)
AllReads(h, p, sizes, n) ==
  h = [i \in 0 .. n |-> h[i]] /\ h[0] = [p EXCEPT !.val = <<>>] /\ \A i \in 1 .. n : h[i] = ReadSized(h[i - 1], sizes[i])

(* What is read one after the other is what ReadAll reads.                  *)
LEMMA AllFollows ==
  ASSUME NEW n \in Nat, NEW p, p.ok = TRUE, Len(p.val) = n, NEW h, AllReads(h, p, p.val, n)
  PROVE  ReadAll(p) = h[n]
<1> USE DEF AllReads
<1> DEFINE F == CHOOSE f : f = [i \in 0 .. Len(p.val) |-> IF i = 0 THEN [p EXCEPT !.val = <<>>] ELSE ReadSized(f[i - 1], p.val[i])]
<1>1. h = [i \in 0 .. Len(p.val) |-> IF i = 0 THEN [p EXCEPT !.val = <<>>] ELSE ReadSized(h[i - 1], p.val[i])]
  <2>1. \A i \in 0 .. n : i # 0 => i \in 1 .. n
    OBVIOUS
  <2>2. \A i \in 0 .. n : h[i] = IF i = 0 THEN [p EXCEPT !.val = <<>>] ELSE ReadSized(h[i - 1], p.val[i])
    BY <2>1
  <2> QED
    BY <2>2
<1>2. F = [i \in 0 .. Len(p.val) |-> IF i = 0 THEN [p EXCEPT !.val = <<>>] ELSE ReadSized(F[i - 1], p.val[i])]
  BY <1>1
<1>3. ReadAll(p) = F[Len(p.val)]
  BY DEF ReadAll
<1> HIDE DEF F
<1>4. \A i \in 0 .. n : F[i] = IF i = 0 THEN [p EXCEPT !.val = <<>>] ELSE ReadSized(F[i - 1], p.val[i])
  BY <1>2, Zenon
<1>5. F[0] = h[0]
  <2>1. 0 \in 0 .. n
    OBVIOUS
  <2>2. F[0] = [p EXCEPT !.val = <<>>]
    BY ONLY <1>4, <2>1, ZenonT(30)
  <2>3. h[0] = [p EXCEPT !.val = <<>>]
    OBVIOUS
  <2> QED
    BY ONLY <2>2, <2>3
<1>6. ASSUME NEW i \in 1 .. n, F[i - 1] = h[i - 1]
      PROVE  F[i] = h[i]
  <2>1. h[i] = ReadSized(h[i - 1], p.val[i])
    OBVIOUS
  <2>2. i \in 0 .. n /\ i # 0
    OBVIOUS
  <2>3. F[i] = ReadSized(F[i - 1], p.val[i])
    BY ONLY <1>4, <2>2, ZenonT(30)
  <2> QED
    BY ONLY <1>6, <2>1, <2>3, Zenon
<1>7. F[n] = h[n]
  BY ONLY <1>5, <1>6, n \in Nat, Stepwise
<1> QED
  BY <1>3, <1>7

(* One of them, cut off and decoded on its own.                             *)
LEMMA SizedRead ==
  ASSUME NEW d, DsmReadable(d), Sized(EncodeDataSetMessage(d)), NEW r, Sized(r), r = <<>> \/ TokenBytes(r[1]) = 1,
         NEW read, NEW q, q = At(Join(EncodeDataSetMessage(d), r), read)
  PROVE  ReadSized(q, Bytes(EncodeDataSetMessage(d))) = At(r, Append(read, DsmBack(d)))
<1> DEFINE b == EncodeDataSetMessage(d)
           back == DsmBack(d)
           decoded == DecodeDataSetMessage(From(b))
<1>1. q.rest = Join(b, r) /\ q.ok = TRUE /\ q.val = read
  BY DEF At
<1>2. IsSequence(b) /\ IsSequence(r) /\ IsSequence(<<>>)
  BY EmptySequence DEF Sized
<1>3. decoded = At(<<>>, back)
  <2>1. From(b) = At(Join(b, <<>>), Null)
    BY <1>2, LastOf DEF From, At, Join
  <2>2. DecodeDataSetMessage(At(Join(b, <<>>), Null)) = At(<<>>, back)
    BY <1>2, DsmRead
  <2> HIDE DEF b, back
  <2> QED
    BY <2>1, <2>2
<1>4. Cut(q.rest, Bytes(b)) = b
  <2> HIDE DEF b
  <2> QED
    BY <1>1, CutExact DEF b
<1>5. SubSeq(q.rest, Len(b) + 1, Len(q.rest)) = r
  <2>1. SubSeq(Join(b, r), Len(b) + 1, Len(Join(b, r))) = r
    <3> HIDE DEF b
    <3> QED
      BY ONLY <1>2, JoinTaken
  <2> HIDE DEF b
  <2> QED
    BY <1>1, <2>1
<1>6. decoded.ok = TRUE /\ decoded.val = back
  <2> HIDE DEF decoded, back
  <2> QED
    BY <1>3 DEF At
<1> HIDE DEF b, decoded, back
<1>7. ReadSized(q, Bytes(b)) = WithDsm(q, b, decoded)
  BY ONLY <1>4, ZenonT(30) DEF ReadSized, decoded
<1>8. WithDsm(q, b, decoded) = [rest |-> r, ok |-> TRUE, val |-> Append(read, back)]
  BY ONLY <1>1, <1>5, <1>6 DEF WithDsm
<1> QED
  BY <1>7, <1>8 DEF At, b, back

(* Data set messages that follow an array of their sizes.                   *)
BodiesOf(ds) == [i \in 1 .. Len(ds) |-> EncodeDataSetMessage(ds[i])]
SizesOf(ds) == [i \in 1 .. Len(ds) |-> Bytes(EncodeDataSetMessage(ds[i]))]
PayloadBack(ds) == [i \in 1 .. Len(ds) |-> DsmBack(ds[i])]
PayloadReadable(ds) ==
  IsSequence(ds) /\ \A i \in 1 .. Len(ds) : DsmReadable(ds[i]) /\ Sized(EncodeDataSetMessage(ds[i]))

(* Their bodies are sequences with sizes.                                   *)
LEMMA BodiesFacts ==
  ASSUME NEW ds, PayloadReadable(ds), NEW bodies, bodies = BodiesOf(ds)
  PROVE  /\ Len(ds) \in Nat /\ IsSequence(bodies) /\ Len(bodies) = Len(ds)
         /\ \A i \in 1 .. Len(ds) : bodies[i] = EncodeDataSetMessage(ds[i]) /\ Sized(bodies[i]) /\ IsSequence(bodies[i])
         /\ IsSequence(FlattenSeq(bodies)) /\ Sized(FlattenSeq(bodies))
<1>1. Len(ds) \in Nat
  BY SequenceFacts DEF PayloadReadable
<1>2. IsSequence(bodies) /\ Len(bodies) = Len(ds)
      /\ \A i \in 1 .. Len(ds) : bodies[i] = EncodeDataSetMessage(ds[i])
  BY <1>1, SequenceMade DEF BodiesOf
<1>3. \A i \in 1 .. Len(ds) : Sized(bodies[i]) /\ IsSequence(bodies[i])
  BY <1>2 DEF PayloadReadable, Sized
<1>4. IsSequence(FlattenSeq(bodies))
  BY <1>2, <1>3, FlattenedSequence
<1>5. Sized(FlattenSeq(bodies))
  <2>1. \A s \in ToSet(bodies) : Sized(s)
    BY <1>2, <1>3, SequenceFacts
  <2> QED
    BY <1>2, <2>1, SizedFlatten
<1> QED
  BY <1>1, <1>2, <1>3, <1>4, <1>5

(* What follows a message is nothing, or starts with another's flag byte.   *)
LEMMA SuffixesStart ==
  ASSUME NEW ds, PayloadReadable(ds), NEW g, Suffix(g, BodiesOf(ds), Len(ds), <<>>), NEW k \in 1 .. Len(ds)
  PROVE  Sized(g[k]) /\ (g[k] = <<>> \/ TokenBytes(g[k][1]) = 1)
<1> DEFINE n == Len(ds)
           bodies == BodiesOf(ds)
<1>1. n \in Nat /\ \A i \in 1 .. n : bodies[i] = EncodeDataSetMessage(ds[i]) /\ Sized(bodies[i])
  BY BodiesFacts
<1>2. Sized(<<>>)
  BY SizedNone
<1> HIDE DEF bodies
<1>3. \A i \in 0 .. n : Sized(g[i])
  <2>1. \A i \in 1 .. n : Sized(bodies[i])
    BY <1>1
  <2>2. Suffix(g, bodies, n, <<>>)
    BY DEF bodies
  <2> HIDE DEF n
  <2> QED
    BY ONLY <1>1, <1>2, <2>1, <2>2, SuffixSized
<1>4. CASE k = n
  BY <1>3, <1>4 DEF Suffix
<1>5. CASE k # n
  <2>1. k + 1 \in 1 .. n /\ k + 1 \in 0 .. n /\ k + 1 - 1 = k
    BY <1>1, <1>5
  <2>2. g[k] = Join(EncodeDataSetMessage(ds[k + 1]), g[k + 1]) /\ IsSequence(g[k + 1])
    <3>1. g[k + 1 - 1] = Join(bodies[k + 1], g[k + 1]) /\ IsSequence(g[k + 1])
      BY <2>1 DEF Suffix, bodies
    <3> QED
      BY <1>1, <2>1, <3>1
  <2>3. DsmReadable(ds[k + 1])
    BY <2>1 DEF PayloadReadable
  <2>4. TokenBytes(g[k][1]) = 1
    BY ONLY <2>2, <2>3, DsmRead
  <2> QED
    BY <1>1, <1>3, <2>4
<1> QED
  BY <1>4, <1>5

(* A payload whose sizes are known is read back.                            *)
LEMMA SizedPayloadRead ==
  ASSUME NEW ds, PayloadReadable(ds), NEW p, p = At(FlattenSeq(BodiesOf(ds)), SizesOf(ds))
  PROVE  ReadAll(p) = At(<<>>, PayloadBack(ds))
<1> DEFINE n == Len(ds)
           bodies == BodiesOf(ds)
           s == FlattenSeq(bodies)
           w == PayloadBack(ds)
<1>1. n \in Nat /\ IsSequence(bodies) /\ Len(bodies) = n
      /\ \A i \in 1 .. n : bodies[i] = EncodeDataSetMessage(ds[i]) /\ Sized(bodies[i]) /\ IsSequence(bodies[i])
  BY BodiesFacts
<1>2. IsSequence(s)
  BY BodiesFacts
<1>3. PICK g : Suffix(g, bodies, n, <<>>) /\ g[0] = s
  <2>1. \A i \in 1 .. Len(bodies) : IsSequence(bodies[i])
    BY <1>1
  <2>2. Join(s, <<>>) = s
    <3> HIDE DEF s
    <3>1. s \in Seq(ToSet(s))
      BY <1>2 DEF IsSequence
    <3> QED
      BY <3>1 DEF Join
  <2> HIDE DEF bodies, n
  <2>3. \E g : Suffix(g, bodies, Len(bodies), <<>>) /\ g[0] = Join(FlattenSeq(bodies), <<>>)
    BY ONLY <1>1, <2>1, EmptySequence, FlattenSuffixes
  <2> QED
    BY <1>1, <2>2, <2>3
<1>4. \A i \in 1 .. n : w[i] = DsmBack(ds[i])
  BY DEF PayloadBack
<1>5. w = [i \in 1 .. n |-> w[i]] /\ [i \in 1 .. 0 |-> w[i]] = <<>>
  BY DEF PayloadBack
<1>6. p.ok = TRUE /\ p.val = SizesOf(ds) /\ Len(p.val) = n /\ \A i \in 1 .. n : p.val[i] = Bytes(EncodeDataSetMessage(ds[i]))
  <2>1. p.ok = TRUE /\ p.val = SizesOf(ds)
    BY DEF At
  <2>2. Len(SizesOf(ds)) = n /\ \A i \in 1 .. n : SizesOf(ds)[i] = Bytes(EncodeDataSetMessage(ds[i]))
    BY <1>1, SequenceMade DEF SizesOf
  <2> QED
    BY <2>1, <2>2
<1> DEFINE h == [k \in 0 .. n |-> At(g[k], [i \in 1 .. k |-> w[i]])]
<1>7. h = [k \in 0 .. n |-> h[k]] /\ h[n] = At(g[n], [i \in 1 .. n |-> w[i]]) /\ h[0] = At(g[0], [i \in 1 .. 0 |-> w[i]])
  BY <1>1
<1>8. \A k \in 1 .. n : h[k] = At(g[k], [i \in 1 .. k |-> w[i]]) /\ h[k - 1] = At(g[k - 1], [i \in 1 .. k - 1 |-> w[i]])
  BY <1>1
<1> HIDE DEF h, w, s, n, bodies
<1>9. h[0] = [p EXCEPT !.val = <<>>]
  <2>1. h[0] = At(s, <<>>)
    BY <1>3, <1>5, <1>7
  <2>2. [At(s, SizesOf(ds)) EXCEPT !.val = <<>>] = At(s, <<>>)
    BY ONLY ValueSet
  <2>3. p = At(s, SizesOf(ds))
    BY DEF s, bodies
  <2> QED
    BY ONLY <2>1, <2>2, <2>3
<1>10. ASSUME NEW k \in 1 .. n
       PROVE  h[k] = ReadSized(h[k - 1], p.val[k])
  <2> DEFINE q == h[k - 1]
             before == [i \in 1 .. k - 1 |-> w[i]]
             d == ds[k]
  <2>1. g[k - 1] = Join(EncodeDataSetMessage(d), g[k])
    <3>1. g[k - 1] = Join(bodies[k], g[k])
      BY <1>3 DEF Suffix
    <3> QED
      BY <1>1, <3>1
  <2>2. q = At(g[k - 1], before)
    BY <1>8
  <2>3. Append(before, w[k]) = [i \in 1 .. k |-> w[i]]
    BY <1>1, AppendedNext
  <2>4. DsmReadable(d) /\ Sized(EncodeDataSetMessage(d))
    BY DEF PayloadReadable, n
  <2>5. Sized(g[k]) /\ (g[k] = <<>> \/ TokenBytes(g[k][1]) = 1)
    <3>1. Suffix(g, BodiesOf(ds), Len(ds), <<>>) /\ k \in 1 .. Len(ds)
      BY <1>3 DEF n, bodies
    <3> QED
      BY ONLY PayloadReadable(ds), <3>1, SuffixesStart
  <2> HIDE DEF q, before, d
  <2>6. ReadSized(q, Bytes(EncodeDataSetMessage(d))) = At(g[k], Append(before, DsmBack(d)))
    <3>1. q = At(Join(EncodeDataSetMessage(d), g[k]), before)
      BY ONLY <2>1, <2>2
    <3> QED
      BY ONLY <2>4, <2>5, <3>1, SizedRead
  <2>7. p.val[k] = Bytes(EncodeDataSetMessage(d)) /\ w[k] = DsmBack(d)
    BY <1>4, <1>6 DEF d
  <2>8. h[k] = At(g[k], Append(before, DsmBack(d)))
    BY <1>8, <2>3, <2>7
  <2> QED
    BY <2>6, <2>7, <2>8 DEF q
<1>11. ReadAll(p) = h[n]
  <2>1. AllReads(h, p, p.val, n)
    BY <1>7, <1>9, <1>10 DEF AllReads
  <2> QED
    BY ONLY <1>1, <1>6, <2>1, AllFollows
<1>12. h[n] = At(<<>>, w)
  BY <1>3, <1>5, <1>7 DEF Suffix
<1> QED
  BY <1>11, <1>12 DEF w

(* Of one data set message, or of none, there are no sizes.                 *)
LEMMA FewBodies ==
  ASSUME NEW ds, PayloadReadable(ds), Len(ds) <= 1
  PROVE  /\ Len(ds) = 0 => FlattenSeq(BodiesOf(ds)) = <<>>
         /\ Len(ds) = 1 => FlattenSeq(BodiesOf(ds)) = Join(EncodeDataSetMessage(ds[1]), <<>>)
<1> DEFINE n == Len(ds)
           bodies == BodiesOf(ds)
           s == FlattenSeq(bodies)
<1>1. n \in Nat /\ IsSequence(bodies) /\ Len(bodies) = n /\ IsSequence(s)
      /\ \A i \in 1 .. n : bodies[i] = EncodeDataSetMessage(ds[i]) /\ IsSequence(bodies[i])
  BY BodiesFacts
<1>2. PICK g : Suffix(g, bodies, n, <<>>) /\ g[0] = Join(s, <<>>)
  <2>1. \A i \in 1 .. Len(bodies) : IsSequence(bodies[i])
    BY <1>1
  <2> HIDE DEF bodies, n
  <2>2. \E g : Suffix(g, bodies, Len(bodies), <<>>) /\ g[0] = Join(FlattenSeq(bodies), <<>>)
    BY ONLY <1>1, <2>1, EmptySequence, FlattenSuffixes
  <2> QED
    BY <1>1, <2>2
<1>3. Join(s, <<>>) = s
  <2> HIDE DEF s
  <2> QED
    BY <1>1, LastOf DEF Join
<1> HIDE DEF s, bodies, n
<1>4. n = 0 => s = <<>>
  BY <1>2, <1>3 DEF Suffix
<1>5. n = 1 => s = Join(EncodeDataSetMessage(ds[1]), <<>>)
  <2> SUFFICES ASSUME n = 1
               PROVE  s = Join(EncodeDataSetMessage(ds[1]), <<>>)
    OBVIOUS
  <2>1. 1 \in 1 .. n /\ 1 - 1 = 0
    OBVIOUS
  <2>2. g[1 - 1] = Join(bodies[1], g[1]) /\ g[1] = <<>>
    BY <1>2, <2>1 DEF Suffix
  <2> QED
    BY <1>1, <1>2, <1>3, <2>1, <2>2
<1> QED
  BY <1>4, <1>5 DEF s, bodies, n

(* The data set messages of a message, whether their sizes come first or    *)
(* there is one at most.                                                    *)
LEMMA PayloadRead ==
  ASSUME NEW m, IsSequence(m.ids), Consistent(m), PayloadReadable(m.payload), NEW bodies, bodies = BodiesOf(m.payload),
         NEW H, NEW p, p = At(Join(SizeArray(m, bodies), FlattenSeq(bodies)), H)
  PROVE  ReadPayload(p, Len(m.ids)) = At(<<>>, PayloadBack(m.payload))
<1> DEFINE ds == m.payload
           n == Len(ds)
           s == FlattenSeq(bodies)
           sizes == [i \in DOMAIN bodies |-> Bytes(bodies[i])]
<1>1. n \in Nat /\ IsSequence(bodies) /\ Len(bodies) = n /\ IsSequence(s)
      /\ \A i \in 1 .. n : bodies[i] = EncodeDataSetMessage(ds[i])
  BY BodiesFacts
<1>2. Len(m.ids) \in Nat /\ (m.ids = <<>> <=> Len(m.ids) = 0)
  BY SequenceFacts
<1>3. CASE n > 1
  <2>1. Len(m.ids) = n /\ m.ids # <<>>
    BY <1>1, <1>2, <1>3 DEF Consistent
  <2>2. sizes = SizesOf(ds)
    <3>1. DOMAIN bodies = 1 .. n
      BY <1>1, SequenceFacts
    <3> QED
      BY <1>1, <3>1 DEF SizesOf
  <2>3. SizeArray(m, bodies) = <<<<"sizes", SizesOf(ds)>>>>
    <3> HIDE DEF sizes, ds, n
    <3>1. SizeArray(m, bodies) = When(m.ids # <<>> /\ Len(bodies) > 1, <<<<"sizes", sizes>>>>)
      BY DEF SizeArray, sizes
    <3> QED
      BY <1>1, <1>3, <2>1, <2>2, <3>1 DEF When
  <2> HIDE DEF sizes, s, n
  <2>4. p = At(<<<<"sizes", SizesOf(ds)>>>> \o s, H)
    BY <2>3 DEF Join, s
  <2>5. Read(p, "sizes") = At(s, SizesOf(ds))
    <3> HIDE DEF ds
    <3> QED
      BY ONLY <1>1, <2>4, TokenRead
  <2>6. ReadPayload(p, n) = ReadAll(Read(p, "sizes"))
    BY ONLY <1>3, <1>1, ZenonT(30) DEF ReadPayload
  <2>7. ReadAll(Read(p, "sizes")) = At(<<>>, PayloadBack(ds))
    <3>1. Read(p, "sizes") = At(FlattenSeq(BodiesOf(ds)), SizesOf(ds))
      BY <2>5 DEF s
    <3>2. PayloadReadable(ds)
      OBVIOUS
    <3> HIDE DEF ds
    <3> QED
      BY ONLY <3>1, <3>2, SizedPayloadRead
  <2> QED
    BY <2>1, <2>6, <2>7 DEF ds
<1>4. CASE ~(n > 1)
  <2>1. n <= 1 /\ Len(m.ids) <= 1
    BY <1>1, <1>2, <1>4 DEF Consistent
  <2>2. SizeArray(m, bodies) = <<>>
    BY <1>1, <1>4 DEF SizeArray, When
  <2>3. p = At(s, H)
    <3>1. <<>> \o s = s
      <4> HIDE DEF s
      <4> QED
        BY <1>1, FirstJoined
    <3> QED
      BY <2>2, <3>1 DEF Join
  <2>4. p.rest = s /\ p.val = H
    BY <2>3 DEF At
  <2>5. (n = 0 => s = <<>>) /\ (n = 1 => s = Join(EncodeDataSetMessage(ds[1]), <<>>))
    BY <2>1, FewBodies
  <2> HIDE DEF s
  <2>6. CASE n = 0
    <3>1. p = At(<<>>, H) /\ p.rest = <<>>
      BY <2>3, <2>4, <2>5, <2>6
    <3>2. ReadPayload(p, Len(m.ids)) = [p EXCEPT !.val = <<>>]
      BY <1>2, <2>1, <3>1 DEF ReadPayload
    <3>3. [At(<<>>, H) EXCEPT !.val = <<>>] = At(<<>>, <<>>)
      BY ONLY ValueSet
    <3>4. PayloadBack(ds) = <<>>
      BY <2>6 DEF PayloadBack
    <3> HIDE DEF ds, n
    <3>5. ReadPayload(p, Len(m.ids)) = At(<<>>, <<>>)
      BY ONLY <3>1, <3>2, <3>3
    <3> QED
      BY <3>4, <3>5 DEF ds
  <2>7. CASE n = 1
    <3> DEFINE d == ds[1]
    <3>1. DsmReadable(d)
      BY <2>7 DEF PayloadReadable
    <3>2. s = Join(EncodeDataSetMessage(d), <<>>)
      BY <2>5, <2>7
    <3>3. PayloadBack(ds) = <<DsmBack(d)>>
      BY <2>7 DEF PayloadBack
    <3> HIDE DEF d, ds, n
    <3>4. p.rest # <<>> /\ DecodeDataSetMessage(p) = At(<<>>, DsmBack(d))
      <4>1. p = At(Join(EncodeDataSetMessage(d), <<>>), H)
        BY ONLY <2>3, <3>2
      <4>2. DecodeDataSetMessage(p) = At(<<>>, DsmBack(d)) /\ Join(EncodeDataSetMessage(d), <<>>) # <<>>
        BY ONLY <3>1, <4>1, EmptySequence, DsmRead
      <4> QED
        BY <2>4, <3>2, <4>2
    <3>5. DecodeDataSetMessage(p).val = DsmBack(d)
      BY <3>4 DEF At
    <3> DEFINE decoded == DecodeDataSetMessage(p)
    <3>6. ReadPayload(p, Len(m.ids)) = [decoded EXCEPT !.val = <<decoded.val>>]
      <4>1. ~(Len(m.ids) > 1)
        BY <1>2, <2>1
      <4> QED
        BY ONLY <3>4, <4>1, ZenonT(30) DEF ReadPayload
    <3>7. decoded = At(<<>>, DsmBack(d)) /\ decoded.val = DsmBack(d)
      BY <3>4, <3>5
    <3> HIDE DEF decoded
    <3>8. [At(<<>>, DsmBack(d)) EXCEPT !.val = <<DsmBack(d)>>] = At(<<>>, <<DsmBack(d)>>)
      BY ONLY ValueSet
    <3>9. ReadPayload(p, Len(m.ids)) = At(<<>>, <<DsmBack(d)>>)
      BY ONLY <3>6, <3>7, <3>8
    <3> QED
      BY <3>3, <3>9 DEF ds
  <2>8. n = 0 \/ n = 1
    <3> HIDE DEF n
    <3> QED
      BY <1>1, <2>1
  <2> QED
    BY ONLY <2>6, <2>7, <2>8
<1> QED
  BY <1>3, <1>4

(* A UADP message that is sent comes back from the decoder, to the last     *)
(* token.                                                                   *)
LEMMA UadpComesBack ==
  ASSUME NEW m, IsMessage(m), PublisherIdReasons(m.publisherId) = {}, ~m.promoted, Consistent(m),
         PayloadReadable(m.payload), NEW c
  PROVE  DecodeUadp(Whole(m)) = At(<<>>, NmBack(m, c, PayloadBack(m.payload)))
<1> DEFINE ds == m.payload
           H == NmHeader(m, c)
           bodies == BodiesOf(ds)
           payload == Join(SizeArray(m, bodies), FlattenSeq(bodies))
           tokens == Join(WriteHeader(m), <<>>)
           q == At(payload, H)
<1>1. Flags2(m) = {}
  BY DEF Flags2, ExtendedFlags2, Reason, IsMessage, Has
<1>2. IsSequence(m.ids) /\ IsSequence(ds) /\ IsSequence(FlattenSeq(bodies))
  BY BodiesFacts DEF IsMessage, PayloadReadable
<1>3. IsSequence(SizeArray(m, bodies))
  BY WhenSequence DEF SizeArray
<1>4. IsSequence(payload)
  <2> HIDE DEF bodies
  <2> QED
    BY <1>2, <1>3, Concatenated DEF Join
<1>5. tokens = Join(WriteHeader(m), When("chunk" \in Flags2(m), <<<<"chunk", c>>>>))
  BY <1>1 DEF When
<1> HIDE DEF payload, bodies, H
<1>6. /\ IsSequence(tokens) /\ IsSequence(WriteHeader(m))
      /\ ReadParts(Opened(At(Join(tokens, payload), Null), NmNames, "flags"), NmParts, NmKind) = q
  <2>1. /\ IsSequence(tokens) /\ IsSequence(WriteHeader(m))
        /\ ReadParts(Opened(At(Join(tokens, payload), Null), NmNames, "flags"), NmParts, NmKind) = At(payload, NmHeader(m, c))
    <3> HIDE DEF tokens
    <3> QED
      BY ONLY <1>4, <1>5, NmHeaderRead
  <2> QED
    BY <2>1 DEF H
<1>7. Whole(m) = Join(tokens, payload)
  <2>1. [i \in DOMAIN m.payload |-> EncodeDataSetMessage(m.payload[i])] = bodies
    <3>1. DOMAIN m.payload = 1 .. Len(m.payload)
      BY <1>2, SequenceFacts
    <3> QED
      BY <3>1 DEF bodies, BodiesOf
  <2>2. Whole(m) = (WriteHeader(m) \o SizeArray(m, bodies)) \o FlattenSeq(bodies)
    BY <2>1 DEF Whole
  <2>3. (WriteHeader(m) \o SizeArray(m, bodies)) \o FlattenSeq(bodies) = WriteHeader(m) \o payload
    BY <1>2, <1>3, <1>6, Associative, SMTT(30) DEF payload, Join
  <2>4. tokens = WriteHeader(m)
    BY <1>6, LastOf DEF Join
  <2> QED
    BY <2>2, <2>3, <2>4 DEF Join
<1>8. From(Whole(m)) = At(Join(tokens, payload), Null)
  BY <1>7 DEF From, At
<1>9. NmBody(q) = At(<<>>, PayloadBack(ds))
  <2>1. H["chunk"] = <<>> /\ Len(Or(H["ids"], <<>>)) = Len(m.ids)
    BY NmHeaderSame DEF H
  <2>2. q.val = H
    BY DEF At
  <2>3. ReadPayload(q, Len(m.ids)) = At(<<>>, PayloadBack(ds))
    <3>1. q = At(Join(SizeArray(m, bodies), FlattenSeq(bodies)), H)
      BY DEF payload
    <3>2. bodies = BodiesOf(m.payload)
      BY DEF bodies
    <3> HIDE DEF q, ds
    <3>3. ReadPayload(q, Len(m.ids)) = At(<<>>, PayloadBack(m.payload))
      BY <1>2, <3>1, <3>2, PayloadRead
    <3> QED
      BY <3>3 DEF ds
  <2> HIDE DEF q, ds
  <2>4. ~Has(q.val.chunk) /\ Len(Or(q.val.ids, <<>>)) = Len(m.ids)
    BY <2>1, <2>2 DEF Has
  <2>5. NmBody(q) = ReadPayload(q, Len(Or(q.val.ids, <<>>)))
    BY ONLY <2>4, ZenonT(30) DEF NmBody
  <2> QED
    BY <2>3, <2>4, <2>5
<1>10. NmAfter(q) = At(<<>>, NmBack(m, c, PayloadBack(ds)))
  <2>1. "promoted" \notin Flags2(m)
    BY <1>1
  <2>2. q = At(payload, NmHeader(m, c))
    BY DEF H
  <2> HIDE DEF q, ds
  <2> QED
    BY ONLY <1>9, <2>1, <2>2, NmAfterRead
<1> HIDE DEF q, tokens, ds
<1>11. DecodeUadp(Whole(m)) = At(<<>>, NmBack(m, c, PayloadBack(ds)))
  BY ONLY <1>6, <1>8, <1>10, Zenon DEF DecodeUadp
<1> QED
  BY <1>11 DEF ds

-----------------------------------------------------------------------------
(* What comes back is the same.                                             *)

(* A scalar of its type is the same to a reader after it was written.       *)
LEMMA SameBack ==
  ASSUME NEW t \in BUILTIN_TYPE, NEW v, IsScalar(v), Fits(t, v)
  PROVE  SameScalar(t, v, Back(t, v)) /\ ~IsArray(v) /\ ~IsArray(Back(t, v))
<1> USE DEF Short, Long
<1>1. t \in {"Boolean"} \cup Short \cup Long
        \cup {"Float", "Double", "StatusCode", "String", "ByteString", "DateTime", "Guid"}
  BY WidthFacts DEF BUILTIN_TYPE
<1>2. v = <<v[1], v[2]>>
  BY DEF IsScalar
<1>3. t # "Guid" => Back(t, v) = Written(t, v)
  BY DEF Back, ReadBack
<1>4. CASE t = "Boolean"
  <2>1. v[1] = "bool" /\ v[2] \in {0, 1}
    BY <1>4 DEF Fits, IsScalar
  <2>2. Written(t, v) = Bool(IF Truthy(v) THEN 1 ELSE 0)
    BY <1>4 DEF Written
  <2>3. v = Bool(v[2])
    BY <1>2, <2>1 DEF Bool
  <2>4. Truthy(v) <=> v[2] = 1
    BY <2>1, <2>3 DEF Truthy, Bool, Null, NaN, Num, Big
  <2>5. Written(t, v) = v
    BY <2>1, <2>2, <2>3, <2>4
  <2>6. SameScalar(t, v, v)
    BY DEF SameScalar
  <2> QED
    BY <1>3, <1>4, <2>1, <2>5, <2>6 DEF IsArray
<1>5. CASE t \in Short \cup {"Float", "Double", "StatusCode"}
  <2>1. v[1] = "num" /\ v[2] \in Int
    BY <1>5 DEF Fits, IsScalar
  <2>2. v = Num(v[2])
    BY <1>2, <2>1 DEF Num
  <2>3. ToNumber(v) = v /\ v # NaN
    BY <2>1 DEF ToNumber, NaN, Null
  <2>4. Written(t, v) = v
    <3>1. CASE t = "StatusCode"
      <4>1. v[2] \in 0 .. U32 /\ U32 \in Nat
        BY <3>1, WidthsAssumption DEF Fits
      <4>2. v[2] % (U32 + 1) = v[2]
        BY <4>1
      <4>3. Written(t, v) = Num(v[2] % (U32 + 1))
        BY <2>3, <3>1 DEF Written
      <4> QED
        BY <2>2, <4>2, <4>3
    <3>2. CASE t # "StatusCode"
      BY <1>5, <2>2, <2>3, <3>2 DEF Written
    <3> QED
      BY <3>1, <3>2
  <2>5. SameScalar(t, v, v)
    BY DEF SameScalar
  <2> QED
    BY <1>3, <1>5, <2>1, <2>4, <2>5 DEF IsArray
<1>6. CASE t \in Long
  <2>1. v[1] \in {"num", "big"}
    BY <1>6 DEF Fits
  <2>2. Written(t, v) = Big(v[2])
    BY <1>6 DEF Written
  <2>3. SameScalar(t, v, Big(v[2]))
    BY <1>6 DEF SameScalar
  <2> QED
    BY <1>3, <1>6, <2>1, <2>2, <2>3 DEF IsArray, Big
<1>7. CASE t \in {"String", "ByteString", "DateTime"}
  <2>1. Written(t, v) = v /\ v[1] # "array"
    BY <1>7 DEF Written, Fits
  <2>2. SameScalar(t, v, v)
    BY DEF SameScalar
  <2> QED
    BY <1>3, <1>7, <2>1, <2>2 DEF IsArray
<1>8. CASE t = "Guid"
  <2>1. Back(t, v) = Guid("upper") /\ v[1] = "guid"
    BY <1>8 DEF Back, ReadBack, Fits
  <2> QED
    BY <1>8, <2>1 DEF SameScalar, Guid, IsArray
<1> QED
  BY <1>1, <1>4, <1>5, <1>6, <1>7, <1>8

(* So is a Variant, whether an array or not.                                *)
LEMMA SameVariantBack ==
  ASSUME NEW f, IsVariant(f), f.type \in BUILTIN_TYPE, f # NoVariant, WellTyped(f.type, f.value)
  PROVE  SameVariant(f, VariantBack(f))
<1> DEFINE t == f.type
           v == f.value
           w == IF IsArray(v) THEN Arr([i \in 1 .. Len(v[2]) |-> Back(t, v[2][i])]) ELSE Back(t, v)
<1>1. VariantBack(f) = [type |-> t, value |-> w]
  BY DEF VariantBack
<1>2. IsValue(v) /\ t \in BUILTIN_TYPE /\ WellTyped(t, v)
  BY DEF IsVariant
<1> HIDE DEF t, v
<1>3. SameValue(t, v, w)
  <2>1. CASE IsArray(v)
    <3> DEFINE n == Len(v[2])
               s == [i \in 1 .. n |-> Back(t, v[2][i])]
    <3>1. IsSequence(v[2]) /\ \A x \in ToSet(v[2]) : IsScalar(x)
      BY <1>2, <2>1 DEF IsValue
    <3>2. n \in Nat /\ DOMAIN v[2] = 1 .. n /\ \A i \in 1 .. n : IsScalar(v[2][i])
      BY <3>1, SequenceFacts
    <3>3. Len(s) = n /\ \A i \in 1 .. n : s[i] = Back(t, v[2][i])
      BY <3>2, SequenceMade
    <3>4. \A i \in 1 .. n : SameScalar(t, v[2][i], s[i])
      BY <1>2, <2>1, <3>2, <3>3, SameBack DEF WellTyped
    <3>5. w = Arr(s)
      BY <2>1
    <3> HIDE DEF s, w, n
    <3>6. IsArray(w) /\ w[2] = s
      BY <3>5 DEF Arr, IsArray
    <3> QED
      BY <2>1, <3>2, <3>3, <3>4, <3>6 DEF SameValue, n
  <2>2. CASE ~IsArray(v)
    <3>1. IsScalar(v) /\ Fits(t, v)
      BY <1>2, <2>2 DEF IsValue, WellTyped
    <3>2. SameScalar(t, v, Back(t, v)) /\ ~IsArray(Back(t, v))
      BY <1>2, <3>1, SameBack
    <3> QED
      BY <2>2, <3>2 DEF SameValue
  <2> QED
    BY <2>1, <2>2
<1> HIDE DEF w
<1> QED
  BY <1>1, <1>3 DEF SameVariant, t, v

(* What holds no value holds none afterwards.                               *)
LEMMA NoVariantBack == SameVariant(NoVariant, VariantBack(NoVariant)) /\ VariantBack(NoVariant) = NoVariant
<1>1. VariantBack(NoVariant) = NoVariant
  BY DEF VariantBack
<1>2. SameValue("none", Null, Null)
  BY DEF SameValue, SameScalar, IsArray, Null
<1> QED
  BY <1>1, <1>2 DEF SameVariant, NoVariant

(* A field that the encoder takes and that carries a value of its type is   *)
(* one that the decoder understands, and the same afterwards.               *)
LEMMA FieldSame ==
  ASSUME NEW encoding \in {"variant", "datavalue"}, NEW f, IsField(encoding, f), FieldReasons(encoding, f) = {},
         Carried("uadp", f.data)
  PROVE  FieldReadable(encoding, f) /\ SameField(f, FieldBack(encoding, f))
<1> DEFINE g == FieldBack(encoding, f)
<1>1. "none" \notin BUILTIN_TYPE
  BY WidthFacts DEF BUILTIN_TYPE
<1>2. ASSUME NEW x, VariantReasons(x) = {}, x # NoVariant
      PROVE  x.type \in BUILTIN_TYPE
  BY <1>2 DEF VariantReasons, ValueReasons
<1>3. CASE encoding = "variant"
  <2>1. IsVariant(f.data) /\ VariantReasons(f.data) = {}
    BY <1>3 DEF IsField, FieldReasons
  <2>2. "type" \in DOMAIN f.data
    <3>1. f.data = [type |-> f.data.type, value |-> f.data.value]
      BY <2>1 DEF IsVariant
    <3> QED
      BY <3>1
  <2>3. f.data # NoVariant /\ WellTyped(f.data.type, f.data.value)
    BY <2>2 DEF Carried, Survives
  <2>4. f.data.type \in BUILTIN_TYPE
    BY <1>2, <2>1, <2>3
  <2>5. SameVariant(f.data, VariantBack(f.data))
    BY <2>1, <2>3, <2>4, SameVariantBack
  <2>6. g.name = f.name /\ g.data = VariantBack(f.data)
    BY <1>3 DEF FieldBack
  <2>7. FieldReadable(encoding, f)
    BY <1>1, <1>3, <2>1, <2>4 DEF FieldReadable, Readable
  <2> HIDE DEF g
  <2>8. SameField(f, g)
    BY <2>2, <2>5, <2>6 DEF SameField
  <2> QED
    BY <2>7, <2>8 DEF g
<1>4. CASE encoding = "datavalue"
  <2> DEFINE dv == f.data
             x == dv.value
  <2>1. IsDataValue(dv) /\ VariantReasons(x) = {} /\ IsVariant(x)
    BY <1>4 DEF IsField, FieldReasons, IsDataValue
  <2>2. DOMAIN dv = {"value", "status", "source", "server", "sourcePico", "serverPico"}
    <3>1. dv = [value |-> dv.value, status |-> dv.status, source |-> dv.source, server |-> dv.server,
                sourcePico |-> dv.sourcePico, serverPico |-> dv.serverPico]
      BY <2>1 DEF IsDataValue
    <3> HIDE DEF dv
    <3> QED
      BY <3>1
  <2>3. x = NoVariant \/ Survives("uadp", x)
    BY <2>2 DEF Carried
  <2>4. Readable(x) /\ SameVariant(x, VariantBack(x))
    <3>1. CASE x = NoVariant
      BY <2>1, <3>1, NoVariantBack DEF Readable
    <3>2. CASE x # NoVariant
      <4>1. x.type \in BUILTIN_TYPE /\ WellTyped(x.type, x.value)
        BY <1>2, <2>1, <2>3, <3>2 DEF Survives
      <4> HIDE DEF x
      <4> QED
        BY <1>1, <2>1, <3>2, <4>1, SameVariantBack DEF Readable
    <3> QED
      BY <3>1, <3>2
  <2>5. g.name = f.name /\ g.data = DataValueBack(dv)
    BY <1>4 DEF FieldBack
  <2>6. /\ DOMAIN DataValueBack(dv) = DOMAIN dv /\ DataValueBack(dv).value = VariantBack(x)
        /\ \A k \in DOMAIN dv \ {"value"} : DataValueBack(dv)[k] = dv[k]
    <3> HIDE DEF dv
    <3> QED
      BY <2>2 DEF DataValueBack, DataValueNames
  <2>7. FieldReadable(encoding, f)
    BY <1>4, <2>1, <2>4 DEF FieldReadable
  <2>8. "type" \notin DOMAIN dv
    BY <2>2
  <2> HIDE DEF g
  <2>9. SameField(f, g)
    BY <2>4, <2>5, <2>6, <2>8 DEF SameField
  <2> QED
    BY <2>7, <2>9 DEF g
<1> QED
  BY <1>3, <1>4

(* And so is a data set message, but for RawData.                           *)
LEMMA DsmSame ==
  ASSUME format = "uadp", NEW d, IsDsm(d), DsmReasons(d) = {}, d.fieldEncoding # "rawdata",
         \A f \in ToSet(d.fields) : Carried("uadp", f.data)
  PROVE  DsmReadable(d) /\ Sized(EncodeDataSetMessage(d)) /\ SameDsm(d, DsmBack(d))
<1> DEFINE e == DsmBack(d)
           n == Len(d.fields)
<1>1. d.fieldEncoding \in {"variant", "datavalue"} /\ d.messageType \in MessageTypes
  BY DEF DsmReasons, FieldEncodings
<1>2. IsSequence(d.fields) /\ \A f \in ToSet(d.fields) : IsField(d.fieldEncoding, f)
  BY DEF IsDsm
<1>3. n \in Nat /\ DOMAIN d.fields = 1 .. n /\ \A i \in 1 .. n : d.fields[i] \in ToSet(d.fields)
  BY <1>2, SequenceFacts
<1>4. ASSUME d.messageType # "keepalive"
      PROVE  \A i \in 1 .. n : FieldReasons(d.fieldEncoding, d.fields[i]) = {}
  <2>1. DsmReasons(d) =
          Reason(Above(d.sequenceNumber, U16) \/ Above(d.status, U16), "header")
          \cup Reason(Above(d.major, U32) \/ Above(d.minor, U32), "version")
          \cup (Reason(Len(d.fields) > U16, "fields")
                \cup UNION {FieldReasons(d.fieldEncoding, d.fields[i]) : i \in DOMAIN d.fields})
    BY <1>1, <1>4 DEF DsmReasons, FieldEncodings
  <2>2. UNION {FieldReasons(d.fieldEncoding, d.fields[i]) : i \in DOMAIN d.fields} = {}
    BY <2>1, Zenon
  <2> QED
    BY <1>3, <2>2
<1>5. ASSUME d.messageType # "keepalive", NEW i \in 1 .. n
      PROVE  FieldReadable(d.fieldEncoding, d.fields[i])
             /\ SameField(d.fields[i], FieldBack(d.fieldEncoding, d.fields[i]))
  <2>1. IsField(d.fieldEncoding, d.fields[i]) /\ FieldReasons(d.fieldEncoding, d.fields[i]) = {}
        /\ Carried("uadp", d.fields[i].data)
    BY <1>2, <1>3, <1>4, <1>5
  <2> QED
    BY ONLY <1>1, <2>1, FieldSame
<1>6. DsmReadable(d)
  BY <1>1, <1>5 DEF DsmReadable
<1>7. Sized(EncodeDataSetMessage(d))
  BY <1>2, DsmSized
<1>8. /\ e.valid = d.valid /\ e.fieldEncoding = d.fieldEncoding /\ e.messageType = d.messageType
      /\ e.sequenceNumber = d.sequenceNumber /\ e.status = d.status /\ e.major = d.major /\ e.minor = d.minor
      /\ e.timestamp = d.timestamp
      /\ e.fields = IF d.messageType = "keepalive" THEN <<>> ELSE FieldsBack(d.fieldEncoding, d.fields)
  BY DEF DsmBack
<1> HIDE DEF e
<1>9. SameFields(IF d.messageType = "keepalive" THEN <<>> ELSE d.fields, e.fields)
  <2>1. CASE d.messageType = "keepalive"
    <3>1. e.fields = <<>>
      BY <1>8, <2>1
    <3> QED
      BY <2>1, <3>1 DEF SameFields
  <2>2. CASE d.messageType # "keepalive"
    <3> DEFINE b == FieldsBack(d.fieldEncoding, d.fields)
    <3>1. Len(b) = n /\ \A i \in 1 .. n : b[i] = FieldBack(d.fieldEncoding, d.fields[i])
      BY <1>3, SequenceMade DEF FieldsBack
    <3>2. e.fields = b
      BY <1>8, <2>2
    <3> HIDE DEF b
    <3>3. \A i \in DOMAIN d.fields : SameField(d.fields[i], b[i])
      BY <1>3, <1>5, <2>2, <3>1
    <3> QED
      BY <2>2, <3>1, <3>2, <3>3 DEF SameFields
  <2> QED
    BY <2>1, <2>2
<1>10. SameDsm(d, e)
  BY <1>8, <1>9 DEF SameDsm
<1> QED
  BY <1>6, <1>7, <1>10 DEF e

(* The same message to a reader, and one whose fields all survive.          *)
SameMessage(m, b) ==
  /\ Text(m.publisherId) = Text(b.publisherId)
  /\ format = "uadp" => m.publisherId = b.publisherId /\ m.ids = b.ids
  /\ Has(m.dataSetClassId) <=> Has(b.dataSetClassId)
  /\ GroupOf(m.groupHeader) = GroupOf(b.groupHeader)
  /\ m.timestamp = b.timestamp
  /\ SamePayload(m.payload, b.payload)
AllCarried(encoding, m) ==
  \A d \in ToSet(m.payload) : d.fieldEncoding # "rawdata" /\ \A f \in ToSet(d.fields) : Carried(encoding, f.data)

(* A UADP message that was not refused is the same after the wire.          *)
LEMMA UadpSame ==
  ASSUME format = "uadp", NEW m, IsMessage(m), NEW size, UadpReasons(m, size) = {}, Consistent(m), AllCarried("uadp", m)
  PROVE  /\ DecodeUadp(Whole(m)) = At(<<>>, NmBack(m, Null, PayloadBack(m.payload)))
         /\ SameMessage(m, NmBack(m, Null, PayloadBack(m.payload)))
<1> DEFINE ds == m.payload
           n == Len(ds)
           b == NmBack(m, Null, PayloadBack(ds))
           early == HeaderReasons(m) \cup UNION {DsmReasons(m.payload[i]) : i \in DOMAIN m.payload}
<1>1. HeaderReasons(m) = {} /\ \A i \in DOMAIN ds : DsmReasons(ds[i]) = {}
  <2>1. early = {}
    BY Zenon DEF UadpReasons
  <2> QED
    BY <2>1, Zenon
<1>2. PublisherIdReasons(m.publisherId) = {} /\ ~m.promoted
  BY <1>1 DEF HeaderReasons, Reason
<1>3. n \in Nat /\ DOMAIN ds = 1 .. n /\ IsSequence(ds) /\ \A i \in 1 .. n : ds[i] \in ToSet(ds)
  BY SequenceFacts DEF IsMessage
<1>4. ASSUME NEW i \in 1 .. n
      PROVE  DsmReadable(ds[i]) /\ Sized(EncodeDataSetMessage(ds[i])) /\ SameDsm(ds[i], DsmBack(ds[i]))
  <2>1. /\ IsDsm(ds[i]) /\ DsmReasons(ds[i]) = {} /\ ds[i].fieldEncoding # "rawdata"
        /\ \A f \in ToSet(ds[i].fields) : Carried("uadp", f.data)
    BY <1>1, <1>3 DEF IsMessage, AllCarried
  <2> QED
    BY <2>1, DsmSame
<1>5. PayloadReadable(ds)
  BY <1>3, <1>4 DEF PayloadReadable
<1>6. DecodeUadp(Whole(m)) = At(<<>>, b)
  BY <1>2, <1>5, UadpComesBack
<1>7. SameHeaderOf(m, b) /\ b.payload = PayloadBack(ds)
  BY <1>2, NmHeaderSame
<1>8. SamePayload(ds, PayloadBack(ds))
  <2>1. Len(PayloadBack(ds)) = n /\ \A i \in 1 .. n : PayloadBack(ds)[i] = DsmBack(ds[i])
    BY <1>3, SequenceMade DEF PayloadBack
  <2> QED
    BY <1>3, <1>4, <2>1 DEF SamePayload
<1> HIDE DEF b
<1>9. GroupOf(m.groupHeader) = GroupOf(b.groupHeader)
  BY <1>7 DEF SameHeaderOf, GroupOf
<1>10. SameMessage(m, b)
  BY <1>7, <1>8, <1>9 DEF SameMessage, SameHeaderOf
<1> QED
  BY <1>6, <1>10 DEF b

-----------------------------------------------------------------------------
(* JSON: a scalar of its type is taken back, and is the same.               *)
LEMMA JsonScalarSame ==
  ASSUME NEW t \in UA_TYPE, NEW v, IsScalar(v), Fits(t, v)
  PROVE  /\ ~IsArray(v) /\ ~IsArray(ScalarToJson(v)) /\ ~IsArray(ScalarFromJson(t, ScalarToJson(v)))
         /\ ~FromJsonThrows(t, ScalarToJson(v))
         /\ SameScalar(t, v, ScalarFromJson(t, ScalarToJson(v)))
         /\ t \notin ByType => ScalarFromJson(t, ScalarToJson(v)) = v
<1> USE DEF Short, Long, ByType
<1>1. t \in {"Boolean"} \cup Short \cup Long
        \cup {"Float", "Double", "StatusCode", "String", "ByteString", "DateTime", "Guid", "NodeId"}
  BY WidthFacts DEF BUILTIN_TYPE, UA_TYPE
<1>2. v = <<v[1], v[2]>>
  BY DEF IsScalar
<1>3. SameScalar(t, v, v)
  BY DEF SameScalar
<1>4. CASE t \in Long
  <2>1. v[1] \in {"num", "big"} /\ v # Null /\ v # NaN
    BY <1>4 DEF Fits, Null, NaN
  <2>2. v[1] = "num" => ScalarToJson(v) = v
    BY <2>1 DEF ScalarToJson
  <2>3. v[1] = "big" => ScalarToJson(v) = <<"digits", v[2]>>
    BY DEF ScalarToJson, NaN
  <2>4. ScalarToJson(v) # Null /\ ScalarToJson(v)[1] \in {"num", "digits"} /\ ScalarToJson(v)[2] = v[2]
    BY <2>1, <2>2, <2>3 DEF Null
  <2>5. ~FromJsonThrows(t, ScalarToJson(v))
    BY <1>4, <2>4 DEF FromJsonThrows
  <2>6. ScalarFromJson(t, ScalarToJson(v)) = Big(v[2])
    BY <1>4, <2>4 DEF ScalarFromJson
  <2>7. SameScalar(t, v, Big(v[2]))
    BY <1>4 DEF SameScalar
  <2>8. ~IsArray(v) /\ ~IsArray(ScalarToJson(v)) /\ ~IsArray(Big(v[2]))
    BY <2>1, <2>4 DEF IsArray, Big
  <2> QED
    BY <1>4, <2>5, <2>6, <2>7, <2>8
<1>5. CASE t \in {"Boolean"} \cup Short \cup {"Float", "Double", "StatusCode", "String", "Guid"}
  <2>1. v[1] \in {"bool", "num", "str", "guid", "null"}
    BY <1>5 DEF Fits
  <2>2. ScalarToJson(v) = v
    BY <2>1 DEF ScalarToJson, NaN
  <2>3. ~FromJsonThrows(t, v) /\ ScalarFromJson(t, v) = v
    BY <1>5 DEF FromJsonThrows, ScalarFromJson
  <2>4. ~IsArray(v)
    BY <2>1 DEF IsArray
  <2> QED
    BY <1>3, <2>2, <2>3, <2>4
<1>6. CASE t = "ByteString"
  <2>1. v[1] \in {"buf", "null"}
    BY <1>6 DEF Fits
  <2>2. CASE v[1] = "null"
    <3>1. v = Null /\ ScalarToJson(v) = Null
      BY <2>2 DEF IsScalar, ScalarToJson, Null, NaN
    <3>2. ~FromJsonThrows(t, Null) /\ ScalarFromJson(t, Null) = Null
      BY DEF FromJsonThrows, ScalarFromJson
    <3>3. ~IsArray(Null)
      BY DEF IsArray, Null
    <3> QED
      BY <1>3, <1>6, <3>1, <3>2, <3>3
  <2>3. CASE v[1] = "buf"
    <3> DEFINE w == <<"base64", v[2]>>
    <3>1. ScalarToJson(v) = w
      BY <2>3 DEF ScalarToJson, NaN
    <3>2. w # Null /\ ~FromJsonThrows(t, w) /\ ~IsArray(w) /\ ~IsArray(v)
      BY <1>6, <2>3 DEF FromJsonThrows, Null, IsArray
    <3>3. ScalarFromJson(t, w) = v
      BY <1>2, <1>6, <2>3, <3>2 DEF ScalarFromJson, Buf
    <3> QED
      BY <1>3, <1>6, <3>1, <3>2, <3>3
  <2> QED
    BY <2>1, <2>2, <2>3
<1>7. CASE t = "DateTime"
  <2> DEFINE w == <<"iso", v[2]>>
  <2>1. v[1] = "date"
    BY <1>7 DEF Fits
  <2>2. ScalarToJson(v) = w
    BY <2>1 DEF ScalarToJson, NaN
  <2>3. w # Null /\ ~FromJsonThrows(t, w) /\ ~IsArray(w) /\ ~IsArray(v)
    BY <1>7, <2>1 DEF FromJsonThrows, Null, IsArray
  <2>4. ScalarFromJson(t, w) = v
    BY <1>2, <1>7, <2>1, <2>3 DEF ScalarFromJson, Date
  <2> QED
    BY <1>3, <1>7, <2>2, <2>3, <2>4
<1>8. CASE t = "NodeId"
  <2> DEFINE w == <<"nodetext", v[2]>>
  <2>1. v[1] = "nodeid"
    BY <1>8, WidthFacts DEF Fits
  <2>2. ScalarToJson(v) = w
    BY <2>1 DEF ScalarToJson, NaN
  <2>3. w # Null /\ ~FromJsonThrows(t, w) /\ ~IsArray(w) /\ ~IsArray(v)
    BY <1>8, <2>1 DEF FromJsonThrows, Null, IsArray
  <2>4. ScalarFromJson(t, w) = v
    BY <1>2, <1>8, <2>1, <2>3 DEF ScalarFromJson, NodeId
  <2> QED
    BY <1>3, <1>8, <2>2, <2>3, <2>4
<1> QED
  BY <1>1, <1>4, <1>5, <1>6, <1>7, <1>8

(* So is a value, but for an array of a type that is looked at first.       *)
LEMMA JsonValueSame ==
  ASSUME NEW t \in UA_TYPE, NEW v, IsValue(v), WellTyped(t, v), ~(IsArray(v) /\ t \in ByType)
  PROVE  ~FromJsonThrows(t, ToJson(v)) /\ SameValue(t, v, FromJson(t, ToJson(v)))
<1>1. CASE IsArray(v)
  <2> DEFINE s == v[2]
             n == Len(s)
             w == [i \in DOMAIN s |-> ScalarToJson(s[i])]
  <2>1. IsSequence(s) /\ \A x \in ToSet(s) : IsScalar(x)
    BY <1>1 DEF IsValue
  <2>2. n \in Nat /\ DOMAIN s = 1 .. n /\ \A i \in 1 .. n : IsScalar(s[i]) /\ Fits(t, s[i])
    BY <1>1, <2>1, SequenceFacts DEF WellTyped
  <2>3. ToJson(v) = Arr(w)
    BY <1>1 DEF ToJson
  <2>4. DOMAIN w = 1 .. n /\ \A i \in 1 .. n : w[i] = ScalarToJson(s[i])
    BY <2>2
  <2> HIDE DEF w, n
  <2>5. IsArray(Arr(w)) /\ Arr(w)[2] = w /\ Arr(w)[1] = "array"
    BY DEF Arr, IsArray
  <2>6. ~FromJsonThrows(t, Arr(w))
    BY <1>1, <2>5 DEF FromJsonThrows, ByType
  <2> DEFINE u == [i \in DOMAIN w |-> ScalarFromJson(t, w[i])]
  <2>7. FromJson(t, Arr(w)) = Arr(u)
    BY <1>1, <2>5 DEF FromJson
  <2>8. DOMAIN u = 1 .. n /\ \A i \in 1 .. n : u[i] = s[i]
    BY <1>1, <2>2, <2>4, JsonScalarSame
  <2>9. Len(u) = n /\ u = [i \in 1 .. n |-> u[i]]
    <3>1. u = [i \in 1 .. n |-> u[i]]
      BY <2>8
    <3> HIDE DEF u
    <3> QED
      BY <2>2, <2>8, <3>1, SequenceMade
  <2> HIDE DEF u
  <2>10. \A i \in DOMAIN s : SameScalar(t, s[i], u[i])
    BY <2>2, <2>8 DEF SameScalar
  <2>11. IsArray(Arr(u)) /\ Arr(u)[2] = u
    BY DEF Arr, IsArray
  <2>12. SameValue(t, v, Arr(u))
    BY <1>1, <2>9, <2>10, <2>11 DEF SameValue, n
  <2> QED
    BY <2>3, <2>6, <2>7, <2>12
<1>2. CASE ~IsArray(v)
  <2>1. IsScalar(v) /\ Fits(t, v)
    BY <1>2 DEF IsValue, WellTyped
  <2>2. ToJson(v) = ScalarToJson(v)
    BY <1>2 DEF ToJson
  <2>3. /\ ~IsArray(ScalarToJson(v)) /\ ~IsArray(ScalarFromJson(t, ScalarToJson(v)))
        /\ ~FromJsonThrows(t, ScalarToJson(v)) /\ SameScalar(t, v, ScalarFromJson(t, ScalarToJson(v)))
    BY <2>1, JsonScalarSame
  <2>4. FromJson(t, ScalarToJson(v)) = ScalarFromJson(t, ScalarToJson(v))
    BY <2>3 DEF FromJson
  <2> QED
    BY <1>2, <2>2, <2>3, <2>4 DEF SameValue
<1> QED
  BY <1>1, <1>2

(* A field as JSON has it, and read back.                                   *)
JsonField(f) == [name |-> f.name, UaType |-> f.data.type, Value |-> ToJson(f.data.value)]
JsonFieldBack(f) == [name |-> f.name, data |-> [type |-> f.data.type, value |-> FromJson(f.data.type, ToJson(f.data.value))]]

(* A field that has a type JSON knows, and a value of it.                   *)
JsonReadable(f) ==
  /\ "type" \in DOMAIN f.data /\ f.data.type \in UA_TYPE /\ IsValue(f.data.value)
  /\ WellTyped(f.data.type, f.data.value) /\ ~(IsArray(f.data.value) /\ f.data.type \in ByType)

(* A field is read back from JSON, and is the same.                         *)
LEMMA JsonFieldSame ==
  ASSUME NEW f, JsonReadable(f)
  PROVE  ~FromJsonThrows(JsonField(f).UaType, JsonField(f).Value) /\ SameField(f, JsonFieldBack(f))
<1> DEFINE t == f.data.type
           v == f.data.value
           w == FromJson(t, ToJson(v))
           g == JsonFieldBack(f)
<1>1. ~FromJsonThrows(t, ToJson(v)) /\ SameValue(t, v, w)
  BY JsonValueSame DEF JsonReadable
<1>2. JsonField(f).UaType = t /\ JsonField(f).Value = ToJson(v)
  BY DEF JsonField
<1> HIDE DEF w
<1>3. g.name = f.name /\ g.data.type = t /\ g.data.value = w
  BY DEF JsonFieldBack, w
<1> HIDE DEF g
<1>4. SameField(f, g)
  BY <1>1, <1>3 DEF SameField, SameVariant, JsonReadable
<1> QED
  BY <1>1, <1>2, <1>4 DEF g

(* A data set message is the same, and none of its fields throws.           *)
DsmJsonReadable(d) == IsSequence(d.fields) /\ \A i \in 1 .. Len(d.fields) : JsonReadable(d.fields[i])

(* So is a data set message.                                                *)
LEMMA JsonDsmSame ==
  ASSUME format = "json", NEW d, DsmJsonReadable(d), NEW e, e = EncodeJsonDataSetMessage(d)
  PROVE  /\ \A f \in ToSet(e.Payload) : ~FromJsonThrows(f.UaType, f.Value)
         /\ SameDsm(d, DecodeJsonDataSetMessage(e))
<1> DEFINE fs == d.fields
           n == Len(fs)
           s == [i \in DOMAIN fs |-> JsonField(fs[i])]
           u == [i \in DOMAIN s |-> [name |-> s[i].name, data |-> [type |-> s[i].UaType, value |-> FromJson(s[i].UaType, s[i].Value)]]]
           back == DecodeJsonDataSetMessage(e)
<1>1. n \in Nat /\ DOMAIN fs = 1 .. n /\ \A i \in 1 .. n : JsonReadable(fs[i])
  BY SequenceFacts DEF DsmJsonReadable
<1>2. /\ e.Payload = s /\ e.DataSetWriterId = d.dataSetWriterId /\ e.DataSetWriterName = d.writerName
      /\ e.SequenceNumber = d.sequenceNumber /\ e.MajorVersion = d.major /\ e.MinorVersion = d.minor
      /\ e.Timestamp = d.timestamp /\ e.Status = d.status /\ e.MessageType = d.messageType
  BY DEF EncodeJsonDataSetMessage, JsonField
<1>3. DOMAIN s = 1 .. n /\ \A i \in 1 .. n : s[i] = JsonField(fs[i])
  BY <1>1
<1>4. ASSUME NEW i \in 1 .. n
      PROVE  u[i] = JsonFieldBack(fs[i])
  <2>1. s[i].name = fs[i].name /\ s[i].UaType = fs[i].data.type /\ s[i].Value = ToJson(fs[i].data.value)
    BY <1>3 DEF JsonField
  <2>2. u[i] = [name |-> s[i].name, data |-> [type |-> s[i].UaType, value |-> FromJson(s[i].UaType, s[i].Value)]]
    BY <1>3
  <2> HIDE DEF u, s, fs
  <2> QED
    BY <2>1, <2>2 DEF JsonFieldBack
<1>5. DOMAIN u = 1 .. n /\ u = [i \in 1 .. n |-> u[i]]
  <2>1. DOMAIN u = 1 .. n
    BY <1>3
  <2> QED
    BY <1>3, <2>1
<1>6. /\ back.dataSetWriterId = e.DataSetWriterId /\ back.writerName = e.DataSetWriterName
      /\ back.sequenceNumber = e.SequenceNumber /\ back.major = e.MajorVersion /\ back.minor = e.MinorVersion
      /\ back.timestamp = e.Timestamp /\ back.status = e.Status /\ back.messageType = e.MessageType
      /\ back.fields = [i \in DOMAIN e.Payload |->
           [name |-> e.Payload[i].name,
            data |-> [type |-> e.Payload[i].UaType, value |-> FromJson(e.Payload[i].UaType, e.Payload[i].Value)]]]
  BY DEF DecodeJsonDataSetMessage
<1>7. back.fields = u
  BY <1>2, <1>6
<1> HIDE DEF back, u, s, fs, n
<1>8. Len(u) = n
  BY <1>1, <1>5, SequenceMade
<1>9. \A i \in DOMAIN fs : SameField(fs[i], u[i])
  BY <1>1, <1>4, JsonFieldSame
<1>10. SameFields(fs, back.fields)
  BY <1>7, <1>8, <1>9 DEF SameFields, n
<1>11. SameDsm(d, back)
  BY <1>2, <1>6, <1>10 DEF SameDsm, fs
<1>12. ASSUME NEW f \in ToSet(e.Payload)
       PROVE  ~FromJsonThrows(f.UaType, f.Value)
  <2>1. PICK i \in 1 .. n : f = s[i]
    BY <1>2, <1>3 DEF ToSet
  <2>2. f = JsonField(fs[i])
    BY <1>3, <2>1
  <2> QED
    BY <1>1, <2>2, JsonFieldSame
<1> QED
  BY <1>11, <1>12 DEF back

(* A JSON message that was not refused, and that is JSON, is the same after *)
(* the wire.                                                                *)
LEMMA JsonSame ==
  ASSUME format = "json", NEW m, IsMessage(m), JsonReasons(m) = {}, IsJson(m), AllCarried("json", m),
         NEW e, e = EncodeJson(m)
  PROVE  ~DecodeJsonFails(e) /\ SameMessage(m, DecodeJson(e))
<1> DEFINE ds == m.payload
           n == Len(ds)
           gh == m.groupHeader
           s == [i \in DOMAIN ds |-> EncodeJsonDataSetMessage(ds[i])]
           o == e.object
           b == DecodeJson(e)
           u == [i \in DOMAIN s |-> DecodeJsonDataSetMessage(s[i])]
<1>1. n \in Nat /\ DOMAIN ds = 1 .. n /\ IsSequence(ds) /\ \A i \in 1 .. n : ds[i] \in ToSet(ds)
  BY SequenceFacts DEF IsMessage
<1>2. ASSUME NEW d \in ToSet(ds), NEW i \in DOMAIN d.fields
      PROVE  JsonType(d.fields[i]) \in UA_TYPE
  <2>1. Reason(\E x \in ToSet(m.payload) : \E k \in DOMAIN x.fields : JsonType(x.fields[k]) \notin UA_TYPE, "type") = {}
    BY Zenon DEF JsonReasons
  <2> QED
    BY <2>1 DEF Reason
<1>3. ASSUME NEW d \in ToSet(ds)
      PROVE  DsmJsonReadable(d)
  <2>1. IsSequence(d.fields) /\ \A f \in ToSet(d.fields) : IsField(d.fieldEncoding, f) /\ Carried("json", f.data)
    BY <1>3 DEF IsMessage, IsDsm, AllCarried
  <2>2. DOMAIN d.fields = 1 .. Len(d.fields) /\ \A i \in 1 .. Len(d.fields) : d.fields[i] \in ToSet(d.fields)
    BY <2>1, SequenceFacts
  <2>3. "none" \notin UA_TYPE
    BY WidthFacts DEF UA_TYPE, BUILTIN_TYPE
  <2>4. ASSUME NEW i \in 1 .. Len(d.fields), NEW f, f = d.fields[i]
        PROVE  JsonReadable(f)
    <3>1. JsonType(f) \in UA_TYPE
      BY <1>2, <2>2, <2>4
    <3>2. "type" \in DOMAIN f.data /\ f.data.type \in UA_TYPE
      BY <2>3, <3>1 DEF JsonType
    <3>3. IsField(d.fieldEncoding, f) /\ Carried("json", f.data)
      BY <2>1, <2>2, <2>4
    <3>4. Survives("json", f.data)
      BY <3>2, <3>3 DEF Carried
    <3>5. d.fieldEncoding # "datavalue"
      <4> SUFFICES ASSUME IsDataValue(f.data)
                   PROVE  FALSE
        BY <3>3 DEF IsField
      <4>1. f.data = [value |-> f.data.value, status |-> f.data.status, source |-> f.data.source, server |-> f.data.server,
                      sourcePico |-> f.data.sourcePico, serverPico |-> f.data.serverPico]
        BY DEF IsDataValue
      <4>2. "type" \notin DOMAIN f.data
        BY <4>1
      <4> QED
        BY <3>2, <4>2
    <3>6. IsValue(f.data.value)
      BY <3>3, <3>5 DEF IsField, IsVariant
    <3> QED
      BY <3>2, <3>4, <3>6 DEF JsonReadable, Survives
  <2> QED
    BY <2>1, <2>4 DEF DsmJsonReadable
<1>4. e.parses /\ e.object = [PublisherId |-> JsonPublisherId(m.publisherId), WriterGroupName |-> m.groupName,
         DataSetClassId |-> m.dataSetClassId,
         WriterGroupId |-> When(Has(gh), <<Or(gh, [writerGroupId |-> 0]).writerGroupId>>),
         SequenceNumber |-> When(Has(gh), <<Or(gh, [sequenceNumber |-> 0]).sequenceNumber>>),
         Timestamp |-> m.timestamp, Messages |-> s]
  BY DEF EncodeJson
<1>5. DOMAIN s = 1 .. n /\ \A i \in 1 .. n : s[i] = EncodeJsonDataSetMessage(ds[i])
  BY <1>1
<1> HIDE DEF s
<1>6. /\ o.PublisherId = JsonPublisherId(m.publisherId) /\ o.DataSetClassId = m.dataSetClassId
      /\ o.WriterGroupId = When(Has(gh), <<Or(gh, [writerGroupId |-> 0]).writerGroupId>>)
      /\ o.SequenceNumber = When(Has(gh), <<Or(gh, [sequenceNumber |-> 0]).sequenceNumber>>)
      /\ o.Timestamp = m.timestamp /\ o.Messages = s
  BY <1>4
<1> HIDE DEF o
<1>7. /\ b.publisherId = o.PublisherId /\ b.dataSetClassId = o.DataSetClassId /\ b.timestamp = o.Timestamp
      /\ b.groupHeader = IF Has(o.WriterGroupId) \/ Has(o.SequenceNumber)
                         THEN <<[writerGroupId |-> Or(o.WriterGroupId, -1), sequenceNumber |-> Or(o.SequenceNumber, -1)]>>
                         ELSE <<>>
      /\ b.payload = [i \in DOMAIN o.Messages |-> DecodeJsonDataSetMessage(o.Messages[i])]
  BY DEF DecodeJson, o
<1>8. b.payload = u
  BY <1>6, <1>7
<1> HIDE DEF b, ds, n, gh
<1>9. ASSUME NEW i \in 1 .. n
      PROVE  /\ \A f \in ToSet(s[i].Payload) : ~FromJsonThrows(f.UaType, f.Value)
             /\ SameDsm(ds[i], u[i])
  <2>1. s[i] = EncodeJsonDataSetMessage(ds[i]) /\ u[i] = DecodeJsonDataSetMessage(s[i]) /\ DsmJsonReadable(ds[i])
    BY <1>1, <1>3, <1>5
  <2> HIDE DEF u
  <2>2. /\ \A f \in ToSet(s[i].Payload) : ~FromJsonThrows(f.UaType, f.Value)
        /\ SameDsm(ds[i], DecodeJsonDataSetMessage(s[i]))
    BY ONLY format = "json", <2>1, JsonDsmSame
  <2> QED
    BY <2>1, <2>2
<1>10. DOMAIN u = 1 .. n /\ u = [i \in 1 .. n |-> u[i]]
  BY <1>5
<1> HIDE DEF u
<1>11. SamePayload(m.payload, b.payload)
  <2>1. Len(u) = n
    BY <1>1, <1>10, SequenceMade
  <2>2. \A i \in DOMAIN ds : SameDsm(ds[i], u[i])
    BY <1>1, <1>9
  <2> QED
    BY <1>8, <2>1, <2>2 DEF SamePayload, ds, n
<1>12. ~DecodeJsonFails(e)
  <2>1. \A x \in ToSet(e.object.Messages) : \A f \in ToSet(x.Payload) : ~FromJsonThrows(f.UaType, f.Value)
    <3>1. ToSet(s) = {s[i] : i \in 1 .. n}
      BY <1>5 DEF ToSet
    <3>2. e.object.Messages = s
      BY <1>6 DEF o
    <3> QED
      BY <1>9, <3>1, <3>2
  <2> QED
    BY <1>4, <2>1 DEF DecodeJsonFails
<1>13. Text(m.publisherId) = Text(b.publisherId)
  <2>1. CASE Has(m.publisherId) /\ Get(m.publisherId)[1] = "big"
    <3>1. b.publisherId = <<Str(Get(m.publisherId)[2])>>
      BY <1>6, <1>7, <2>1 DEF JsonPublisherId
    <3>2. Has(b.publisherId) /\ Get(b.publisherId)[2] = Get(m.publisherId)[2]
      BY <3>1 DEF Has, Get, Str
    <3> QED
      BY <2>1, <3>2 DEF Text
  <2>2. CASE ~(Has(m.publisherId) /\ Get(m.publisherId)[1] = "big")
    BY <1>6, <1>7, <2>2 DEF JsonPublisherId
  <2> QED
    BY <2>1, <2>2
<1>14. GroupOf(gh) = GroupOf(b.groupHeader)
  <2>1. CASE Has(gh)
    <3>1. o.WriterGroupId = <<Get(gh).writerGroupId>> /\ o.SequenceNumber = <<Get(gh).sequenceNumber>>
      BY <1>6, <2>1 DEF When, Or
    <3>2. /\ Has(o.WriterGroupId) /\ Or(o.WriterGroupId, -1) = Get(gh).writerGroupId
          /\ Or(o.SequenceNumber, -1) = Get(gh).sequenceNumber
      BY <3>1 DEF Has, Or, Get
    <3>3. b.groupHeader = <<[writerGroupId |-> Get(gh).writerGroupId, sequenceNumber |-> Get(gh).sequenceNumber]>>
      BY <1>7, <3>2
    <3>4. Has(b.groupHeader) /\ Get(b.groupHeader).writerGroupId = Get(gh).writerGroupId
          /\ Get(b.groupHeader).sequenceNumber = Get(gh).sequenceNumber
      BY <3>3 DEF Has, Get
    <3> QED
      BY <2>1, <3>4 DEF GroupOf
  <2>2. CASE ~Has(gh)
    <3>1. o.WriterGroupId = <<>> /\ o.SequenceNumber = <<>>
      BY <1>6, <2>2 DEF When
    <3>2. b.groupHeader = <<>>
      BY <1>7, <3>1 DEF Has
    <3> QED
      BY <2>2, <3>2 DEF GroupOf, Has
  <2> QED
    BY <2>1, <2>2
<1>15. SameMessage(m, b)
  BY <1>6, <1>7, <1>11, <1>13, <1>14 DEF SameMessage, gh
<1> QED
  BY <1>12, <1>15 DEF b

-----------------------------------------------------------------------------
(* From the publisher to the flow.                                          *)

(* What was sent is what the encoder made of the message, what was received *)
(* is what the decoder made of that, and what the flow was given is what    *)
(* the filter let through.                                                  *)
Travelled ==
  /\ format \in {"uadp", "json"}
  /\ stage \in {"sent", "received"} =>
       /\ (IF format = "json" THEN JsonReasons(nm) ELSE UadpReasons(nm, mtu)) = {}
       /\ wire = IF format = "json" THEN EncodeJson(nm) ELSE EncodeUadp(nm, mtu)
  /\ stage = "received" =>
       /\ got = Decoded(wire, IF rd = <<>> THEN format ELSE rd.encoding)
       /\ out = IF rd # <<>> /\ ReaderAccepted /\ got.ok THEN HandleNetworkMessage(rd, got.val) ELSE <<>>

(* It holds at first.                                                       *)
LEMMA TravelledInit == MessageInit => Travelled
BY MessagesAssumption DEF MessageInit, Travelled, IsPublisher

(* Every step preserves it.                                                 *)
LEMMA TravelledStep == Travelled /\ [MessageNext]_messageVars => Travelled'
<1> SUFFICES ASSUME Travelled, [MessageNext]_messageVars
             PROVE  Travelled'
  OBVIOUS
<1>1. CASE UNCHANGED messageVars
  BY <1>1 DEF messageVars, config, message, Travelled, ReaderAccepted
<1>2. CASE Validate
  BY <1>2 DEF Validate, config, message, Travelled
<1>3. CASE PublishKeepAlive \/ \E payload \in Payloads : PublishKeyFrame(payload)
  <2>1. stage' = "built" /\ format' = format
    BY <1>3 DEF PublishKeepAlive, PublishKeyFrame
  <2> QED
    BY <2>1 DEF Travelled
<1>4. CASE Encode
  <2>1. nm' = nm /\ mtu' = mtu /\ format' = format /\ stage' \in {"failed", "sent"}
    BY <1>4 DEF Encode, message
  <2>2. stage' = "sent" => EncoderReasons = {}
                           /\ wire' = IF format = "json" THEN EncodeJson(nm) ELSE EncodeUadp(nm, mtu)
    BY <1>4 DEF Encode
  <2> QED
    BY <2>1, <2>2 DEF Travelled, EncoderReasons
<1>5. CASE Receive
  <2>1. stage = "sent" /\ stage' = "received" /\ nm' = nm /\ mtu' = mtu /\ format' = format /\ wire' = wire
        /\ rd' = rd /\ cfg' = cfg
    BY <1>5 DEF Receive, message, config
  <2>2. got' = Decoded(wire, IF rd = <<>> THEN format ELSE rd.encoding)
    BY <1>5 DEF Receive
  <2>3. out' = IF rd # <<>> /\ ReaderAccepted /\ got'.ok THEN HandleNetworkMessage(rd, got'.val) ELSE <<>>
    BY <1>5 DEF Receive
  <2>4. ReaderAccepted' <=> ReaderAccepted
    BY <2>1 DEF ReaderAccepted
  <2> QED
    BY <2>1, <2>2, <2>3, <2>4 DEF Travelled
<1> QED
  BY <1>1, <1>2, <1>3, <1>4, <1>5 DEF MessageNext

(* Every message that was received is what the decoder makes of what the    *)
(* encoder made of it: the second invariant of PubSubMessages.              *)
THEOREM TravelledInvariant == MessageSpec => [](MessageInv /\ Travelled)
<1>1. MessageSpec => []Travelled
  BY TravelledInit, TravelledStep, PTL DEF MessageSpec
<1> QED
  BY <1>1, MessageInvariant, PTL

(* What is received of a message whose fields are carried is the same as    *)
(* what was sent.                                                           *)
LEMMA ReceivedSame ==
  ASSUME MessageInv, Travelled, stage = "received", rd # <<>> => rd.encoding = format, format = "uadp" => Consistent(nm),
         format = "json" => wire.parses, AllCarried(format, nm)
  PROVE  /\ got.ok = TRUE /\ SameMessage(nm, got.val)
         /\ format = "uadp" => got.val = NmBack(nm, Null, PayloadBack(nm.payload))
         /\ format = "json" => got.val = DecodeJson(EncodeJson(nm))
<1>1. IsMessage(nm) /\ mtu \in Int /\ format \in {"uadp", "json"}
  BY DEF MessageInv, HasMessage, WithMessage, Travelled
<1>2. got = Decoded(wire, format)
  BY DEF Travelled
<1>3. CASE format = "json"
  <2>1. JsonReasons(nm) = {} /\ wire = EncodeJson(nm)
    BY <1>3 DEF Travelled
  <2>2. wire.format = "json" /\ (wire.parses <=> IsJson(nm))
    <3>1. IsJson(nm) \in BOOLEAN
      BY DEF IsJson
    <3> QED
      BY <2>1, <3>1 DEF EncodeJson
  <2>3. ~DecodeJsonFails(wire) /\ SameMessage(nm, DecodeJson(wire))
    <3>1. IsJson(nm) /\ AllCarried("json", nm)
      BY <1>3, <2>2
    <3> QED
      BY ONLY <1>1, <1>3, <2>1, <3>1, JsonSame
  <2>4. got = [ok |-> TRUE, val |-> DecodeJson(wire)]
    BY <1>2, <1>3, <2>2, <2>3 DEF Decoded
  <2> QED
    BY <1>3, <2>1, <2>3, <2>4
<1>4. CASE format = "uadp"
  <2> DEFINE b == NmBack(nm, Null, PayloadBack(nm.payload))
  <2>1. UadpReasons(nm, mtu) = {} /\ wire = EncodeUadp(nm, mtu)
    BY <1>4 DEF Travelled
  <2>2. wire.format = "uadp" /\ wire.whole = Whole(nm)
    BY <2>1 DEF EncodeUadp
  <2>3. wire.parts # <<>> => TileTheWhole(ChunksOf(wire.parts))
    BY <1>1, <2>1, PartsTileAndFit
  <2>4. DecodeUadp(Whole(nm)) = At(<<>>, b) /\ SameMessage(nm, b)
    <3>1. Consistent(nm) /\ AllCarried("uadp", nm)
      BY <1>4
    <3> QED
      BY ONLY <1>1, <1>4, <2>1, <3>1, UadpSame
  <2> HIDE DEF b
  <2>5. got = Result(DecodeUadp(Whole(nm)))
    BY <1>2, <1>4, <2>2, <2>3 DEF Decoded
  <2>6. got = [ok |-> TRUE, val |-> b]
    BY <2>4, <2>5 DEF Result, At
  <2> QED
    BY <1>4, <2>4, <2>6 DEF b
<1> QED
  BY <1>1, <1>3, <1>4

(* encodeNetworkMessage(), decodeNetworkMessage(): whatever the message, a  *)
(* message of well-typed Variants and DataValues comes back from the        *)
(* decoder as it was, in one piece or in chunks (RoundTrip).                *)
THEOREM MessagesComeBack == MessageSpec => []RoundTrip
<1>1. MessageInv /\ Travelled => RoundTrip
  <2> SUFFICES ASSUME MessageInv, Travelled, stage = "received", rd # <<>> => rd.encoding = format,
                      format = "uadp" => Consistent(nm), format = "json" => wire.parses,
                      \A d \in ToSet(nm.payload) :
                        d.fieldEncoding # "rawdata" /\ \A f \in ToSet(d.fields) : Carried(format, f.data)
               PROVE  /\ got.ok /\ Text(nm.publisherId) = Text(got.val.publisherId)
                      /\ format = "uadp" => nm.publisherId = got.val.publisherId /\ nm.ids = got.val.ids
                      /\ Has(nm.dataSetClassId) <=> Has(got.val.dataSetClassId)
                      /\ GroupOf(nm.groupHeader) = GroupOf(got.val.groupHeader)
                      /\ nm.timestamp = got.val.timestamp
                      /\ SamePayload(nm.payload, got.val.payload)
    BY DEF RoundTrip
  <2>1. AllCarried(format, nm)
    BY DEF AllCarried
  <2>2. got.ok = TRUE /\ SameMessage(nm, got.val)
    BY <2>1, ReceivedSame
  <2> QED
    BY <2>2 DEF SameMessage
<1> QED
  BY <1>1, TravelledInvariant, PTL

(* The frame of a writer, and the message of a group: what the last         *)
(* publication made of the configuration and of what was published.         *)
VersionOf(c, i) == PublishedDataSet(c.writers[i].publishedDataSet).version
FrameOf(d, c, i, given) ==
  /\ d.fieldEncoding = "variant" /\ d.timestamp = <<>> /\ d.dataSetWriterId = <<Id(c, i)>>
  /\ d.fields = IF given = <<>> THEN <<>> ELSE Fields(c.writers[i], Get(given))
  /\ given = <<>> => d.messageType = "keepalive" /\ d.major = <<>> /\ d.minor = <<>>
  /\ given # <<>> => d.messageType = "keyframe" /\ d.major = <<VersionOf(c, i).major[2]>>
                          /\ d.minor = <<VersionOf(c, i).minor[2]>>
HeaderFrom(m, c, number, time) ==
  /\ m.publisherId = c.publisherId /\ m.timestamp = <<time>>
  /\ Has(m.groupHeader) /\ Get(m.groupHeader).writerGroupId = c.group.writerGroupId[2]
  /\ Get(m.groupHeader).sequenceNumber = number
  /\ IsSequence(m.ids) /\ Len(m.ids) = Len(c.writers) /\ \A i \in DOMAIN c.writers : m.ids[i] = Id(c, i)
  /\ IsSequence(m.payload) /\ Len(m.payload) = Len(c.writers)
PublishedOf(m) ==
  /\ HeaderFrom(m, cfg, nmSeq, published - 1)
  /\ \A i \in DOMAIN cfg.writers : FrameOf(m.payload[i], cfg, i, values)
AsPublished ==
  /\ published \in Nat
  /\ stage \in WithMessage /\ rd # <<>> => cfg # <<>>
  /\ stage \in WithMessage /\ cfg # <<>> => PublishedOf(nm)

(* A key frame is such a frame.                                             *)
LEMMA KeyFrameOf ==
  ASSUME NEW c, NEW i, NEW payload, NEW d, d = KeyFrame(c, i, payload)
  PROVE  FrameOf(d, c, i, <<payload>>)
<1>1. /\ d.fieldEncoding = "variant" /\ d.timestamp = <<>> /\ d.messageType = "keyframe"
      /\ d.fields = Fields(c.writers[i], payload)
  <2>1. IsKeyFrame(d, c, i, payload)
    BY FrameParts
  <2> QED
    BY <2>1 DEF IsKeyFrame
<1>2. d.dataSetWriterId = <<Id(c, i)>>
  BY DEF KeyFrame, Id
<1>3. d.major = <<VersionOf(c, i).major[2]>> /\ d.minor = <<VersionOf(c, i).minor[2]>>
  <2>1. DataSetWriter(c.writers[i]).publishedDataSet.version = VersionOf(c, i)
    BY DEF DataSetWriter, VersionOf
  <2> QED
    BY <2>1 DEF KeyFrame
<1>4. <<payload>> # <<>> /\ Get(<<payload>>) = payload
  BY DEF Get
<1> QED
  BY <1>1, <1>2, <1>3, <1>4 DEF FrameOf

(* So is a keep-alive.                                                      *)
LEMMA KeepAliveFrameOf ==
  ASSUME NEW c, NEW i, NEW d, d = KeepAliveFrame(c, i)
  PROVE  FrameOf(d, c, i, <<>>)
<1> DEFINE k == KeyFrame(c, i, Nothing)
<1>1. k.fieldEncoding = "variant" /\ k.timestamp = <<>>
      /\ DOMAIN k = {"dataSetWriterId", "writerName", "valid", "fieldEncoding", "messageType", "sequenceNumber",
                     "status", "major", "minor", "timestamp", "picoseconds", "fields"}
  <2>1. k = KeyFrame(c, i, Nothing)
    OBVIOUS
  <2> HIDE DEF k
  <2>2. IsKeyFrame(k, c, i, Nothing)
    BY <2>1, FrameParts
  <2> QED
    BY <2>2 DEF IsKeyFrame
<1>2. k.dataSetWriterId = <<Id(c, i)>>
  BY DEF KeyFrame, Id
<1>3. d = [k EXCEPT !.messageType = "keepalive", !.major = <<>>, !.minor = <<>>, !.fields = <<>>]
  BY DEF KeepAliveFrame
<1> HIDE DEF k
<1>4. /\ d.fieldEncoding = "variant" /\ d.timestamp = <<>> /\ d.dataSetWriterId = <<Id(c, i)>>
      /\ d.messageType = "keepalive" /\ d.major = <<>> /\ d.minor = <<>> /\ d.fields = <<>>
  BY <1>1, <1>2, <1>3
<1> QED
  BY <1>4 DEF FrameOf

(* What is built of such frames is what was published.                      *)
LEMMA BuiltPublished ==
  ASSUME IsPublisher(cfg), cfg # <<>>, UNCHANGED cfg, published \in Nat,
         NEW frames, frames = [i \in DOMAIN cfg.writers |-> frames[i]], Built(cfg, frames),
         \A i \in DOMAIN cfg.writers : FrameOf(frames[i], cfg, i, values')
  PROVE  published' \in Nat /\ PublishedOf(nm)'
<1> DEFINE n == Len(cfg.writers)
           next == Next16(nmSeq)
           gh == [writerGroupId |-> WriterGroup(cfg.group).writerGroupId, groupVersion |-> <<>>,
                  networkMessageNumber |-> <<>>, sequenceNumber |-> next]
           ids == [i \in DOMAIN cfg.writers |-> Id(cfg, i)]
           m == nm'
<1>1. n \in Nat /\ DOMAIN cfg.writers = 1 .. n
  BY SequenceFacts DEF IsPublisher
<1>2. nmSeq' = next /\ published' = published + 1
  BY Zenon DEF Built
<1>3. m = [publisherId |-> cfg.publisherId, groupName |-> <<>>, dataSetClassId |-> <<>>,
           groupHeader |-> <<gh>>, ids |-> ids,
           timestamp |-> <<published>>, picoseconds |-> <<>>, promoted |-> FALSE, chunk |-> <<>>,
           payload |-> frames]
  BY Zenon DEF Built
<1>4. gh.writerGroupId = cfg.group.writerGroupId[2] /\ gh.sequenceNumber = next
  BY DEF WriterGroup
<1>5. ids = [i \in 1 .. n |-> ids[i]] /\ \A i \in 1 .. n : ids[i] = Id(cfg, i)
  BY <1>1
<1> HIDE DEF gh, ids, m, next
<1>6. m.publisherId = cfg.publisherId /\ m.groupHeader = <<gh>> /\ m.ids = ids /\ m.timestamp = <<published>>
      /\ m.payload = frames
  BY <1>3
<1>7. IsSequence(ids) /\ Len(ids) = n
  BY <1>1, <1>5, SequenceMade
<1>8. IsSequence(frames) /\ Len(frames) = n
  BY <1>1, SequenceMade
<1>9. Has(m.groupHeader) /\ Get(m.groupHeader) = gh
  BY <1>6 DEF Has, Get
<1>10. published' - 1 = published /\ published' \in Nat
  BY <1>2
<1>11. HeaderFrom(m, cfg, nmSeq', published' - 1)
  BY <1>1, <1>2, <1>4, <1>5, <1>6, <1>7, <1>8, <1>9, <1>10 DEF HeaderFrom
<1>12. \A i \in DOMAIN cfg.writers : FrameOf(m.payload[i], cfg, i, values')
  BY <1>6
<1> QED
  BY <1>10, <1>11, <1>12 DEF PublishedOf, m

(* It holds at first.                                                       *)
LEMMA AsPublishedInit == MessageInit => AsPublished
<1> SUFFICES ASSUME MessageInit
             PROVE  AsPublished
  OBVIOUS
<1>1. published = 0 /\ (stage = "config" \/ (stage = "built" /\ cfg = <<>> /\ rd = <<>>))
  BY DEF MessageInit
<1> QED
  BY <1>1 DEF AsPublished, WithMessage

(* Every step preserves it.                                                 *)
LEMMA AsPublishedStep == MessageInv /\ AsPublished /\ [MessageNext]_messageVars => AsPublished'
<1> SUFFICES ASSUME MessageInv, AsPublished, [MessageNext]_messageVars
             PROVE  AsPublished'
  OBVIOUS
<1>1. ASSUME UNCHANGED <<config, nmSeq, published, message>>, stage' \in WithMessage => stage \in WithMessage
      PROVE  AsPublished'
  BY <1>1 DEF config, message, AsPublished, PublishedOf
<1>2. CASE UNCHANGED messageVars
  BY <1>1, <1>2 DEF messageVars
<1>3. CASE Validate
  BY <1>1, <1>3 DEF Validate, WithMessage
<1>4. CASE Encode
  BY <1>1, <1>4 DEF Encode, WithMessage
<1>5. CASE Receive
  BY <1>1, <1>5 DEF Receive, WithMessage
<1>6. ASSUME Idle
      PROVE  IsPublisher(cfg) /\ cfg # <<>> /\ published \in Nat
  BY <1>6, MessagesAssumption DEF Idle, MessageInv, Deployed, WithMessage, AsPublished
<1>7. CASE PublishKeepAlive
  <2> DEFINE frames == [i \in DOMAIN cfg.writers |-> KeepAliveFrame(cfg, i)]
  <2>1. Idle /\ UNCHANGED config /\ values' = <<>> /\ Built(cfg, frames)
    BY <1>7 DEF PublishKeepAlive
  <2>2. \A i \in DOMAIN cfg.writers : FrameOf(frames[i], cfg, i, values')
    BY <2>1, KeepAliveFrameOf
  <2>3. frames = [i \in DOMAIN cfg.writers |-> frames[i]]
    OBVIOUS
  <2>4. UNCHANGED cfg
    BY <2>1 DEF config
  <2> HIDE DEF frames
  <2>5. published' \in Nat /\ PublishedOf(nm)'
    BY <1>6, <2>1, <2>2, <2>3, <2>4, BuiltPublished
  <2> QED
    BY <1>6, <2>1, <2>4, <2>5 DEF AsPublished
<1>8. CASE \E payload \in Payloads : PublishKeyFrame(payload)
  <2>1. PICK payload \in Payloads : PublishKeyFrame(payload)
    BY <1>8
  <2> DEFINE frames == [i \in DOMAIN cfg.writers |-> KeyFrame(cfg, i, payload)]
  <2>2. Idle /\ UNCHANGED config /\ values' = <<payload>> /\ Built(cfg, frames)
    BY <2>1 DEF PublishKeyFrame
  <2>3. \A i \in DOMAIN cfg.writers : FrameOf(frames[i], cfg, i, values')
    BY <2>2, KeyFrameOf
  <2>4. frames = [i \in DOMAIN cfg.writers |-> frames[i]]
    OBVIOUS
  <2>5. UNCHANGED cfg
    BY <2>2 DEF config
  <2> HIDE DEF frames
  <2>6. published' \in Nat /\ PublishedOf(nm)'
    BY <1>6, <2>2, <2>3, <2>4, <2>5, BuiltPublished
  <2> QED
    BY <1>6, <2>2, <2>5, <2>6 DEF AsPublished
<1> QED
  BY <1>2, <1>3, <1>4, <1>5, <1>7, <1>8 DEF MessageNext

(* What is under way is what the last publication made of its               *)
(* configuration: the third invariant of PubSubMessages.                    *)
THEOREM PublishedInvariant == MessageSpec => [](MessageInv /\ Travelled /\ AsPublished)
<1>1. MessageSpec => []MessageInv
  BY MessageInvariant
<1>2. MessageInv /\ MessageInv' /\ AsPublished /\ [MessageNext]_messageVars => AsPublished'
  BY AsPublishedStep
<1>3. MessageSpec => []AsPublished
  BY <1>1, <1>2, AsPublishedInit, PTL DEF MessageSpec
<1> QED
  BY <1>1, <1>3, TravelledInvariant, PTL

(* A data set message of Variants comes back with Variants, as many, and    *)
(* with no writer's identifier but its own.                                 *)
ToldOf(d, e) ==
  /\ DOMAIN e.fields = DOMAIN d.fields /\ \A k \in DOMAIN d.fields : "type" \in DOMAIN e.fields[k].data
  /\ e.dataSetWriterId = IF format = "uadp" THEN <<>> ELSE d.dataSetWriterId
AllVariants(d) == d.fieldEncoding = "variant" /\ (d.messageType = "keepalive" => d.fields = <<>>) /\ IsDsm(d)

(* The UADP decoder tells so.                                               *)
LEMMA UadpTold ==
  ASSUME format = "uadp", NEW d, AllVariants(d)
  PROVE  ToldOf(d, DsmBack(d))
<1> DEFINE fs == d.fields
           n == Len(fs)
           e == DsmBack(d)
<1>1. n \in Nat /\ DOMAIN fs = 1 .. n /\ \A i \in 1 .. n : IsVariant(fs[i].data)
  <2>1. IsSequence(fs) /\ \A f \in ToSet(fs) : IsVariant(f.data)
    BY DEF AllVariants, IsDsm, IsField
  <2> QED
    BY <2>1, SequenceFacts
<1>2. e.dataSetWriterId = <<>> /\ e.fields = IF d.messageType = "keepalive" THEN <<>> ELSE FieldsBack("variant", fs)
  BY DEF DsmBack, AllVariants
<1> HIDE DEF e
<1>3. ASSUME d.messageType = "keepalive"
      PROVE  ToldOf(d, e)
  <2>1. fs = <<>> /\ e.fields = <<>>
    BY <1>2, <1>3 DEF AllVariants
  <2>2. DOMAIN fs = {} /\ DOMAIN e.fields = {}
    BY <2>1
  <2> HIDE DEF fs
  <2>3. DOMAIN e.fields = DOMAIN fs /\ \A k \in DOMAIN fs : "type" \in DOMAIN e.fields[k].data
    BY <2>2
  <2> QED
    BY <1>2, <2>3 DEF ToldOf, fs
<1>4. ASSUME d.messageType # "keepalive"
      PROVE  ToldOf(d, e)
  <2>1. e.fields = FieldsBack("variant", fs)
    BY <1>2, <1>4
  <2>2. DOMAIN e.fields = 1 .. n /\ \A k \in 1 .. n : e.fields[k] = FieldBack("variant", fs[k])
    BY <2>1 DEF FieldsBack
  <2>3. ASSUME NEW f
        PROVE  "type" \in DOMAIN FieldBack("variant", f).data
    <3>1. "type" \in DOMAIN VariantBack(f.data)
      <4> DEFINE v == IF IsArray(f.data.value)
                      THEN Arr([i \in 1 .. Len(f.data.value[2]) |-> Back(f.data.type, f.data.value[2][i])])
                      ELSE Back(f.data.type, f.data.value)
      <4>1. VariantBack(f.data) = IF f.data = NoVariant THEN NoVariant ELSE [type |-> f.data.type, value |-> v]
        BY DEF VariantBack
      <4> HIDE DEF v
      <4> QED
        BY <4>1 DEF NoVariant
    <3>2. FieldBack("variant", f) = [name |-> f.name, data |-> VariantBack(f.data)]
      BY DEF FieldBack
    <3> QED
      BY <3>1, <3>2
  <2> HIDE DEF n
  <2>4. DOMAIN e.fields = DOMAIN fs /\ \A k \in DOMAIN fs : "type" \in DOMAIN e.fields[k].data
    BY <1>1, <2>2, <2>3
  <2> HIDE DEF fs
  <2> QED
    BY <1>2, <2>4 DEF ToldOf, fs
<1> QED
  BY <1>3, <1>4 DEF e

(* So does the decoder of JSON.                                             *)
LEMMA JsonTold ==
  ASSUME format = "json", NEW d
  PROVE  ToldOf(d, DecodeJsonDataSetMessage(EncodeJsonDataSetMessage(d)))
<1> DEFINE fs == d.fields
           j == EncodeJsonDataSetMessage(d)
           e == DecodeJsonDataSetMessage(j)
<1>1. j.DataSetWriterId = d.dataSetWriterId /\ DOMAIN j.Payload = DOMAIN fs
  BY DEF EncodeJsonDataSetMessage
<1> HIDE DEF j
<1>2. e.dataSetWriterId = j.DataSetWriterId
      /\ e.fields = [i \in DOMAIN j.Payload |->
           [name |-> j.Payload[i].name,
            data |-> [type |-> j.Payload[i].UaType, value |-> FromJson(j.Payload[i].UaType, j.Payload[i].Value)]]]
  BY DEF DecodeJsonDataSetMessage
<1>3. DOMAIN e.fields = DOMAIN fs /\ \A i \in DOMAIN fs : "type" \in DOMAIN e.fields[i].data
  BY <1>1, <1>2
<1> HIDE DEF e
<1> QED
  BY <1>1, <1>2, <1>3 DEF ToldOf, e, j

(* What the filter is given of a message of Variants.                       *)
MessageTold(m, b) ==
  /\ DOMAIN b.payload = DOMAIN m.payload /\ \A i \in DOMAIN m.payload : ToldOf(m.payload[i], b.payload[i])
  /\ format = "uadp" => b.ids = m.ids

(* A message that was received tells so.                                    *)
LEMMA ReceivedTold ==
  ASSUME IsMessage(nm), format \in {"uadp", "json"}, SameMessage(nm, got.val),
         \A d \in ToSet(nm.payload) : AllVariants(d),
         format = "uadp" => got.val = NmBack(nm, Null, PayloadBack(nm.payload)),
         format = "json" => got.val = DecodeJson(EncodeJson(nm))
  PROVE  MessageTold(nm, got.val)
<1> DEFINE ds == nm.payload
           n == Len(ds)
           b == got.val
<1>1. n \in Nat /\ DOMAIN ds = 1 .. n /\ \A i \in 1 .. n : AllVariants(ds[i])
  BY SequenceFacts DEF IsMessage
<1>2. CASE format = "uadp"
  <2>1. b.payload = PayloadBack(ds)
    BY <1>2 DEF NmBack
  <2>2. DOMAIN b.payload = 1 .. n /\ \A i \in 1 .. n : b.payload[i] = DsmBack(ds[i])
    BY <2>1 DEF PayloadBack
  <2>3. \A i \in 1 .. n : ToldOf(ds[i], b.payload[i])
    BY <1>1, <1>2, <2>2, UadpTold
  <2> QED
    BY <1>1, <2>2, <2>3 DEF MessageTold, SameMessage
<1>3. CASE format = "json"
  <2> DEFINE s == EncodeJson(nm).object.Messages
  <2>1. DOMAIN s = 1 .. n /\ \A i \in 1 .. n : s[i] = EncodeJsonDataSetMessage(ds[i])
    BY <1>1 DEF EncodeJson
  <2>2. b.payload = [i \in DOMAIN s |-> DecodeJsonDataSetMessage(s[i])]
    BY <1>3 DEF DecodeJson
  <2> HIDE DEF s, b
  <2>3. DOMAIN b.payload = 1 .. n
        /\ \A i \in 1 .. n : b.payload[i] = DecodeJsonDataSetMessage(EncodeJsonDataSetMessage(ds[i]))
    BY <2>1, <2>2
  <2>4. \A i \in 1 .. n : ToldOf(ds[i], b.payload[i])
    BY <1>3, <2>3, JsonTold
  <2> QED
    BY <1>1, <1>3, <2>3, <2>4 DEF MessageTold, b
<1> QED
  BY <1>2, <1>3

(* The identifiers and the version of an accepted configuration are         *)
(* numbers.                                                                 *)
LEMMA AcceptedNumbers ==
  ASSUME NEW c, IsPublisher(c), Accepted(c)
  PROVE  /\ c.group.writerGroupId = Num(c.group.writerGroupId[2])
         /\ \A i \in DOMAIN c.writers : /\ c.writers[i].dataSetWriterId = Num(Id(c, i))
                                        /\ VersionOf(c, i).major = Num(VersionOf(c, i).major[2])
                                        /\ VersionOf(c, i).minor = Num(VersionOf(c, i).minor[2])
<1>1. ASSUME NEW v, IsScalar(v), IsInteger(v)
      PROVE  v = Num(v[2])
  BY <1>1 DEF IsScalar, IsInteger, Num
<1>2. IsUInt16(c.group.writerGroupId)
  <2>1. WriterGroupIssues(c.group) = {}
    BY DEF Accepted
  <2>2. \A A, B, C, D, E, F : A \cup B \cup C \cup D \cup E \cup F = {} => F = {}
    OBVIOUS
  <2>3. IdIssues(c.group) = {}
    BY <2>1, <2>2, Zenon DEF WriterGroupIssues
  <2> QED
    BY <2>3 DEF IdIssues, Reason
<1>3. c.group.writerGroupId = Num(c.group.writerGroupId[2])
  BY <1>1, <1>2 DEF IsPublisher, IsUInt16
<1>4. ASSUME NEW i \in DOMAIN c.writers, NEW w, w = c.writers[i]
      PROVE  /\ w.dataSetWriterId = Num(Id(c, i))
             /\ VersionOf(c, i).major = Num(VersionOf(c, i).major[2])
             /\ VersionOf(c, i).minor = Num(VersionOf(c, i).minor[2])
  <2>1. w \in ToSet(c.writers) /\ Id(c, i) = w.dataSetWriterId[2]
    BY <1>4, AcceptedWriter
  <2>2. PublishedDataSetIssues(w.publishedDataSet) = {} /\ DataSetWriterIssues(w) = {}
    BY <2>1 DEF Accepted
  <2>3. IsUInt16(w.dataSetWriterId) /\ IsScalar(w.dataSetWriterId)
    BY <2>1, <2>2 DEF DataSetWriterIssues, Reason, IsPublisher
  <2>4. w.dataSetWriterId = Num(Id(c, i))
    BY <1>1, <2>1, <2>3 DEF IsUInt16
  <2> DEFINE o == w.publishedDataSet.version
             pair(cv) == IsInteger(cv.major) /\ IsInteger(cv.minor)
  <2>5. ~Has(o) \/ pair(Get(o))
    <3> DEFINE wrong == Wrong(o, LAMBDA cv : IsInteger(cv.major) /\ IsInteger(cv.minor))
    <3>1. \A A, B, C, D, E : A \cup B \cup C \cup D \cup E = {} => E = {}
      OBVIOUS
    <3>2. Reason(wrong, <<"configurationVersion", "MUST_BE_VERSION_PAIR">>) = {}
      BY <2>2, <3>1, Zenon DEF PublishedDataSetIssues
    <3>3. ~wrong
      BY <3>2, Zenon DEF Reason
    <3> QED
      BY <3>3 DEF Wrong
  <2>6. VersionOf(c, i) = Or(o, [major |-> Num(1), minor |-> Num(0)])
    BY <1>4 DEF VersionOf, PublishedDataSet
  <2>7. Has(o) => IsScalar(Get(o).major) /\ IsScalar(Get(o).minor)
    BY <2>1 DEF IsPublisher
  <2>8. CASE Has(o)
    <3>1. VersionOf(c, i) = Get(o)
      BY <2>6, <2>8 DEF Or
    <3> HIDE DEF o
    <3> QED
      BY <1>1, <2>4, <2>5, <2>7, <2>8, <3>1
  <2>9. CASE ~Has(o)
    <3>1. VersionOf(c, i) = [major |-> Num(1), minor |-> Num(0)]
      BY <2>6, <2>9 DEF Or
    <3>2. VersionOf(c, i).major = Num(1) /\ VersionOf(c, i).minor = Num(0)
      BY <3>1
    <3>3. Num(1)[2] = 1 /\ Num(0)[2] = 0
      BY DEF Num
    <3> QED
      BY <2>4, <3>2, <3>3
  <2> QED
    BY <2>8, <2>9
<1> QED
  BY <1>3, <1>4

(* A message as a subscriber knows it, of what was published.               *)
KnownAs(b) ==
  /\ Text(b.publisherId) = Text(cfg.publisherId)
  /\ Has(b.groupHeader) /\ Num(Get(b.groupHeader).writerGroupId) = cfg.group.writerGroupId
  /\ Get(b.groupHeader).sequenceNumber = nmSeq /\ b.timestamp = <<published - 1>>
  /\ DOMAIN b.payload = DOMAIN cfg.writers
KnownFrame(b, i) ==
  /\ Has(WriterOf(b, i)) /\ Num(Get(WriterOf(b, i))) = cfg.writers[i].dataSetWriterId
  /\ b.payload[i].timestamp = <<>>
  /\ values = <<>> => b.payload[i].major = <<>> /\ b.payload[i].minor = <<>>
  /\ values # <<>> => /\ b.payload[i].major = <<VersionOf(cfg, i).major[2]>>
                      /\ b.payload[i].minor = <<VersionOf(cfg, i).minor[2]>>
KnownFields(b, i) ==
  LET fs == b.payload[i].fields asked == Asked(i) IN
  /\ DOMAIN fs = 1 .. Len(asked) /\ DOMAIN asked = 1 .. Len(asked) /\ Len(asked) \in Nat
  /\ \A n \in DOMAIN asked : /\ fs[n].name = asked[n].name /\ "type" \in DOMAIN fs[n].data
                             /\ SameValue(asked[n].data.type, asked[n].data.value, fs[n].data.value)

(* So every message of Variants that was received is known.                 *)
LEMMA ReceivedKnown ==
  ASSUME IsPublisher(cfg), Accepted(cfg), IsMessage(nm), PublishedOf(nm), NEW b, MessageTold(nm, b), SameMessage(nm, b),
         format \in {"uadp", "json"}
  PROVE  KnownAs(b) /\ \A i \in DOMAIN cfg.writers : KnownFrame(b, i) /\ KnownFields(b, i)
<1>1. HeaderFrom(nm, cfg, nmSeq, published - 1)
  BY DEF PublishedOf
<1>2. DOMAIN nm.payload = DOMAIN cfg.writers /\ DOMAIN nm.ids = DOMAIN cfg.writers
  <2>1. IsSequence(cfg.writers) /\ IsSequence(nm.payload) /\ IsSequence(nm.ids)
    BY <1>1 DEF IsPublisher, HeaderFrom
  <2>2. DOMAIN cfg.writers = 1 .. Len(cfg.writers) /\ DOMAIN nm.payload = 1 .. Len(nm.payload)
        /\ DOMAIN nm.ids = 1 .. Len(nm.ids)
    BY <2>1, SequenceFacts
  <2> QED
    BY <1>1, <2>2 DEF HeaderFrom
<1>3. KnownAs(b)
  <2>1. Text(b.publisherId) = Text(cfg.publisherId) /\ b.timestamp = <<published - 1>>
    BY <1>1 DEF HeaderFrom, SameMessage
  <2>2. Has(b.groupHeader) /\ Get(b.groupHeader).writerGroupId = cfg.group.writerGroupId[2]
        /\ Get(b.groupHeader).sequenceNumber = nmSeq
    BY <1>1 DEF HeaderFrom, SameMessage, GroupOf
  <2>3. DOMAIN b.payload = DOMAIN cfg.writers
    BY <1>2 DEF MessageTold
  <2> QED
    BY <2>1, <2>2, <2>3, AcceptedNumbers DEF KnownAs
<1>4. ASSUME NEW i \in DOMAIN cfg.writers, NEW d, d = nm.payload[i], NEW e, e = b.payload[i]
      PROVE  KnownFrame(b, i) /\ KnownFields(b, i)
  <2>1. FrameOf(d, cfg, i, values) /\ ToldOf(d, e) /\ SameDsm(d, e) /\ IsDsm(d) /\ nm.ids[i] = Id(cfg, i)
    <3>1. d \in ToSet(nm.payload)
      BY <1>2, <1>4 DEF ToSet
    <3>2. IsDsm(d)
      BY <3>1 DEF IsMessage
    <3>3. FrameOf(d, cfg, i, values) /\ nm.ids[i] = Id(cfg, i)
      BY <1>1, <1>4 DEF PublishedOf, HeaderFrom
    <3>4. ToldOf(d, e) /\ SameDsm(d, e)
      BY <1>2, <1>4 DEF MessageTold, SameMessage, SamePayload
    <3> QED
      BY <3>2, <3>3, <3>4
  <2>2. WriterOf(b, i) = <<Id(cfg, i)>>
    <3>1. CASE format = "uadp"
      <4>1. e.dataSetWriterId = <<>> /\ b.ids = nm.ids
        BY <2>1, <3>1 DEF ToldOf, MessageTold
      <4> QED
        BY <1>2, <1>4, <2>1, <4>1 DEF WriterOf, Has, When
    <3>2. CASE format = "json"
      <4>1. e.dataSetWriterId = <<Id(cfg, i)>>
        BY <2>1, <3>2 DEF ToldOf, FrameOf
      <4> QED
        BY <1>4, <4>1 DEF WriterOf, Has
    <3> QED
      BY <3>1, <3>2
  <2>3. KnownFrame(b, i)
    <3>1. Has(WriterOf(b, i)) /\ Get(WriterOf(b, i)) = Id(cfg, i)
      BY <2>2 DEF Has, Get
    <3>2. Num(Id(cfg, i)) = cfg.writers[i].dataSetWriterId
      BY AcceptedNumbers
    <3>3. e.timestamp = d.timestamp /\ e.major = d.major /\ e.minor = d.minor
      BY <2>1 DEF SameDsm
    <3>4. /\ d.timestamp = <<>> /\ (values = <<>> => d.major = <<>> /\ d.minor = <<>>)
          /\ values # <<>> => d.major = <<VersionOf(cfg, i).major[2]>> /\ d.minor = <<VersionOf(cfg, i).minor[2]>>
      BY <2>1 DEF FrameOf
    <3> QED
      BY <1>4, <3>1, <3>2, <3>3, <3>4 DEF KnownFrame
  <2> DEFINE fs == d.fields
  <2>4. fs = Asked(i) /\ d.fieldEncoding = "variant" /\ (d.messageType = "keepalive" => fs = <<>>)
    <3>1. CASE values = <<>>
      BY <2>1, <3>1 DEF FrameOf, Asked
    <3>2. CASE values # <<>>
      BY <2>1, <3>2 DEF FrameOf, Asked
    <3> QED
      BY <3>1, <3>2
  <2>5. Len(fs) \in Nat /\ DOMAIN fs = 1 .. Len(fs) /\ \A n \in DOMAIN fs : IsField("variant", fs[n])
    <3>1. IsSequence(fs) /\ \A f \in ToSet(fs) : IsField("variant", f)
      BY <2>1, <2>4 DEF IsDsm
    <3> HIDE DEF fs
    <3> QED
      BY <3>1, SequenceFacts
  <2>6. DOMAIN e.fields = DOMAIN fs /\ \A n \in DOMAIN fs : "type" \in DOMAIN e.fields[n].data
    BY <2>1 DEF ToldOf
  <2>7. SameFields(fs, e.fields)
    <3>1. SameFields(IF d.messageType = "keepalive" /\ format = "uadp" THEN <<>> ELSE fs, e.fields)
      BY <2>1 DEF SameDsm
    <3>2. (IF d.messageType = "keepalive" /\ format = "uadp" THEN <<>> ELSE fs) = fs
      BY <2>4
    <3> QED
      BY <3>1, <3>2
  <2> HIDE DEF fs
  <2>8. ASSUME NEW n \in DOMAIN fs, NEW f, f = fs[n], NEW g, g = e.fields[n]
        PROVE  g.name = f.name /\ SameValue(f.data.type, f.data.value, g.data.value)
    <3>1. SameField(f, g) /\ IsField("variant", f)
      BY <2>5, <2>7, <2>8 DEF SameFields
    <3>2. f.data = [type |-> f.data.type, value |-> f.data.value]
      BY <3>1 DEF IsField, IsVariant
    <3>3. "type" \in DOMAIN f.data
      BY <3>2
    <3> QED
      BY <3>1, <3>3 DEF SameField, SameVariant
  <2>9. KnownFields(b, i)
    BY <1>4, <2>4, <2>5, <2>6, <2>8 DEF KnownFields
  <2> QED
    BY <2>3, <2>9
<1> QED
  BY <1>3, <1>4

(* Such a message passes the filter if it is meant to.                      *)
LEMMA MeantPasses ==
  ASSUME NEW b, KnownAs(b), NEW i \in DOMAIN cfg.writers, KnownFrame(b, i), IsPublisher(cfg), Accepted(cfg)
  PROVE  (Passes(rd, b, i) /\ ~VersionMismatch(rd, b.payload[i])) <=> Meant(i)
<1> DEFINE e == b.payload[i]
           byId == Has(rd.dataSetWriterId) => Get(rd.dataSetWriterId) = cfg.writers[i].dataSetWriterId
           byGroup == Has(rd.writerGroupId) => Get(rd.writerGroupId) = cfg.group.writerGroupId
           byPublisher == Has(rd.publisherId) => Text(rd.publisherId) = Text(cfg.publisherId)
           cv == VersionOf(cfg, i)
           ofVersion == values # <<>> /\ Has(rd.expected) =>
                          Num(Get(rd.expected).major) = cv.major /\ Num(Get(rd.expected).minor) = cv.minor
<1>1. Passes(rd, b, i) <=> byPublisher /\ byGroup /\ byId
  <2>1. Text(b.publisherId) = Text(cfg.publisherId) /\ Has(b.groupHeader)
        /\ Num(Get(b.groupHeader).writerGroupId) = cfg.group.writerGroupId
    BY DEF KnownAs
  <2>2. Has(WriterOf(b, i)) /\ Num(Get(WriterOf(b, i))) = cfg.writers[i].dataSetWriterId
    BY DEF KnownFrame
  <2> QED
    BY <2>1, <2>2 DEF Passes
<1>2. ~VersionMismatch(rd, e) <=> ofVersion
  <2>1. CASE values = <<>>
    <3>1. e.major = <<>> /\ e.minor = <<>>
      BY <2>1 DEF KnownFrame
    <3> QED
      BY <2>1, <3>1 DEF VersionMismatch, Has
  <2>2. CASE values # <<>>
    <3>1. e.major = <<cv.major[2]>> /\ e.minor = <<cv.minor[2]>>
      BY <2>2 DEF KnownFrame
    <3>2. cv.major = Num(cv.major[2]) /\ cv.minor = Num(cv.minor[2])
      BY AcceptedNumbers
    <3> HIDE DEF cv, e
    <3>3. \A x, y : (Num(x) = Num(y)) <=> (<<x>> = <<y>>)
      BY DEF Num
    <3> DEFINE ex == Get(rd.expected)
    <3>4. (e.major # <<ex.major>> \/ e.minor # <<ex.minor>>) <=> ~(Num(ex.major) = cv.major /\ Num(ex.minor) = cv.minor)
      BY <3>1, <3>2, <3>3
    <3>5. Has(e.major)
      BY <3>1 DEF Has
    <3> HIDE DEF ex
    <3>6. VersionMismatch(rd, e) <=> Has(rd.expected) /\ (e.major # <<ex.major>> \/ e.minor # <<ex.minor>>)
      BY <3>5 DEF VersionMismatch, ex
    <3> QED
      BY <2>2, <3>4, <3>6 DEF ex
  <2> QED
    BY <2>1, <2>2
<1>3. Meant(i) <=> byPublisher /\ byGroup /\ byId /\ ofVersion
  BY Zenon DEF Meant, VersionOf
<1> HIDE DEF byId, byGroup, byPublisher, ofVersion
<1> QED
  BY <1>1, <1>2, <1>3

(* And is given to the flow as it was published.                            *)
GivenTo(x, i) ==
  LET asked == Asked(i) IN
  /\ Num(Or(x.dataSetWriterId, -1)) = cfg.writers[i].dataSetWriterId
  /\ x.sequenceNumber = <<nmSeq>> /\ x.timestamp = <<published - 1>>
  /\ Num(Or(x.writerGroupId, -1)) = cfg.group.writerGroupId
  /\ Len(x.payload) = Len(asked)
  /\ \A n \in DOMAIN asked :
       /\ x.payload[n].name = asked[n].name
       /\ SameValue(asked[n].data.type, BareIdentifier(asked[n].data.value), x.payload[n].value)

(* What is left of two values that are the same is the same.                *)
LEMMA SameBare ==
  ASSUME NEW t, NEW v, NEW w, SameValue(t, v, w)
  PROVE  SameValue(t, BareIdentifier(v), BareIdentifier(w))
<1>1. IsArray(BareIdentifier(v)) <=> IsArray(v)
  BY DEF BareIdentifier, IsArray
<1>2. IsArray(BareIdentifier(w)) <=> IsArray(w)
  BY DEF BareIdentifier, IsArray
<1>3. CASE IsArray(v)
  <2>1. BareIdentifier(v) = v /\ BareIdentifier(w) = w
    BY <1>3 DEF SameValue, BareIdentifier, IsArray
  <2> QED
    BY <2>1
<1>4. CASE ~IsArray(v)
  <2>1. SameScalar(t, v, w)
    BY <1>4 DEF SameValue
  <2>2. SameScalar(t, BareIdentifier(v), BareIdentifier(w))
    BY <2>1 DEF SameScalar, BareIdentifier, Big
  <2> QED
    BY <1>1, <1>2, <1>4, <2>2 DEF SameValue
<1> QED
  BY <1>3, <1>4

(* A message that is known is given as it was published.                    *)
LEMMA MessageGiven ==
  ASSUME NEW b, KnownAs(b), NEW i \in DOMAIN cfg.writers, KnownFrame(b, i), KnownFields(b, i)
  PROVE  GivenTo(Message(b, i), i)
<1> DEFINE d == b.payload[i]
           x == Message(b, i)
           made == [k \in DOMAIN d.fields |-> [name |-> d.fields[k].name, value |-> Unwrapped(d.fields[k].data)]]
           asked == Asked(i)
           n == Len(asked)
<1>1. /\ x.payload = made /\ x.dataSetWriterId = WriterOf(b, i)
      /\ x.writerGroupId = When(Has(b.groupHeader), <<Or(b.groupHeader, [writerGroupId |-> 0]).writerGroupId>>)
      /\ x.sequenceNumber = IF Has(b.groupHeader) THEN <<Get(b.groupHeader).sequenceNumber>> ELSE d.sequenceNumber
      /\ x.timestamp = IF Has(d.timestamp) THEN d.timestamp ELSE b.timestamp
  BY DEF Message
<1>2. x.sequenceNumber = <<nmSeq>> /\ x.timestamp = <<published - 1>>
  <2>1. Has(b.groupHeader) /\ Get(b.groupHeader).sequenceNumber = nmSeq /\ b.timestamp = <<published - 1>>
    BY DEF KnownAs
  <2>2. ~Has(d.timestamp)
    BY DEF KnownFrame, Has
  <2> HIDE DEF x, d
  <2> QED
    BY <1>1, <2>1, <2>2
<1> HIDE DEF x
<1>3. Num(Or(x.dataSetWriterId, -1)) = cfg.writers[i].dataSetWriterId
  BY <1>1 DEF KnownFrame, Or
<1>4. Num(Or(x.writerGroupId, -1)) = cfg.group.writerGroupId
  <2>1. Has(b.groupHeader) /\ Num(Get(b.groupHeader).writerGroupId) = cfg.group.writerGroupId
    BY DEF KnownAs
  <2>2. x.writerGroupId = <<Get(b.groupHeader).writerGroupId>>
    BY <1>1, <2>1 DEF When, Or
  <2>3. Or(x.writerGroupId, -1) = Get(b.groupHeader).writerGroupId
    BY <2>2 DEF Or, Has, Get
  <2> QED
    BY <2>1, <2>3
<1>5. /\ n \in Nat /\ DOMAIN d.fields = 1 .. n /\ DOMAIN asked = 1 .. n
      /\ \A k \in 1 .. n : /\ d.fields[k].name = asked[k].name /\ "type" \in DOMAIN d.fields[k].data
                           /\ SameValue(asked[k].data.type, asked[k].data.value, d.fields[k].data.value)
  BY DEF KnownFields
<1>6. DOMAIN made = 1 .. n /\ made = [k \in 1 .. n |-> made[k]]
      /\ \A k \in 1 .. n : made[k].name = d.fields[k].name /\ made[k].value = Unwrapped(d.fields[k].data)
  <2> HIDE DEF d, n
  <2> QED
    BY <1>5
<1> HIDE DEF made, d, n
<1>7. Len(made) = n
  BY <1>5, <1>6, SequenceMade
<1>8. ASSUME NEW k \in DOMAIN asked
      PROVE  /\ made[k].name = asked[k].name
             /\ SameValue(asked[k].data.type, BareIdentifier(asked[k].data.value), made[k].value)
  <2>1. k \in 1 .. n
    BY <1>5
  <2>2. Unwrapped(d.fields[k].data) = BareIdentifier(d.fields[k].data.value)
    BY <1>5, <2>1 DEF Unwrapped
  <2>3. SameValue(asked[k].data.type, asked[k].data.value, d.fields[k].data.value)
    BY <1>5, <2>1
  <2> QED
    BY <1>6, <2>1, <2>2, <2>3, <1>5, SameBare
<1> QED
  BY <1>1, <1>2, <1>3, <1>4, <1>7, <1>8 DEF GivenTo, x, n

(* The indices that pass, in order, are indices.                            *)
LEMMA PickedTyped ==
  ASSUME NEW n \in Nat, NEW ss, DOMAIN ss = 1 .. n, ss = [i \in 1 .. n |-> ss[i]],
         \A i \in 1 .. n : ss[i] \in {<<>>, <<i>>}
  PROVE  /\ Len(FlattenSeq(ss)) \in Nat /\ DOMAIN FlattenSeq(ss) = 1 .. Len(FlattenSeq(ss))
         /\ \A k \in DOMAIN FlattenSeq(ss) : FlattenSeq(ss)[k] \in 1 .. n
<1>1. IsSequence(ss) /\ Len(ss) = n
  BY SequenceMade
<1>2. ASSUME NEW i \in 1 .. n
      PROVE  ss[i] \in Seq(1 .. n)
  <2>1. <<>> \in Seq(1 .. n) /\ <<i>> \in Seq(1 .. n)
    OBVIOUS
  <2>2. ss[i] = <<>> \/ ss[i] = <<i>>
    OBVIOUS
  <2> QED
    BY <2>1, <2>2
<1>3. \A s \in ToSet(ss) : s \in Seq(1 .. n)
  BY <1>1, <1>2, SequenceFacts
<1>4. FlattenSeq(ss) \in Seq(1 .. n)
  BY <1>1, <1>3, FlattenTyped
<1> HIDE DEF IsSequence
<1> QED
  BY <1>4, SMTT(30)

(* What a subscriber of the publisher's encoding is given is what was meant *)
(* for it.                                                                  *)
LEMMA GivenWhatIsMeant ==
  ASSUME IsPublisher(cfg), Accepted(cfg), NEW b, KnownAs(b),
         \A i \in DOMAIN cfg.writers : KnownFrame(b, i) /\ KnownFields(b, i),
         NEW x, x = HandleNetworkMessage(rd, b),
         NEW meant, meant = FlattenSeq([i \in DOMAIN cfg.writers |-> When(Meant(i), <<i>>)])
  PROVE  Len(x) = Len(meant) /\ \A k \in DOMAIN meant : GivenTo(x[k], meant[k])
<1> DEFINE ss == [i \in DOMAIN cfg.writers |-> When(Meant(i), <<i>>)]
           ps == [i \in DOMAIN b.payload |-> When(Passes(rd, b, i) /\ ~VersionMismatch(rd, b.payload[i]), <<i>>)]
           n == Len(cfg.writers)
<1>1. n \in Nat /\ DOMAIN cfg.writers = 1 .. n /\ DOMAIN b.payload = 1 .. n
  BY SequenceFacts DEF IsPublisher, KnownAs
<1>2. ASSUME NEW i \in 1 .. n
      PROVE  ps[i] = ss[i] /\ ss[i] \in {<<>>, <<i>>}
  <2>1. (Passes(rd, b, i) /\ ~VersionMismatch(rd, b.payload[i])) <=> Meant(i)
    BY <1>1, MeantPasses
  <2>2. ps[i] = When(Passes(rd, b, i) /\ ~VersionMismatch(rd, b.payload[i]), <<i>>) /\ ss[i] = When(Meant(i), <<i>>)
    BY <1>1
  <2> HIDE DEF ps, ss
  <2> QED
    BY <2>1, <2>2 DEF When
<1>3. /\ DOMAIN ps = 1 .. n /\ ps = [i \in 1 .. n |-> ps[i]]
      /\ DOMAIN ss = 1 .. n /\ ss = [i \in 1 .. n |-> ss[i]]
  BY <1>1
<1>4. meant = FlattenSeq(ss)
  OBVIOUS
<1>5. x = [k \in DOMAIN FlattenSeq(ps) |-> Message(b, FlattenSeq(ps)[k])]
  BY Zenon DEF HandleNetworkMessage
<1> HIDE DEF ps, ss, n
<1>6. ps = ss
  BY <1>2, <1>3
<1>7. Len(meant) \in Nat /\ DOMAIN meant = 1 .. Len(meant) /\ \A k \in DOMAIN meant : meant[k] \in 1 .. n
  BY <1>1, <1>2, <1>3, <1>4, PickedTyped
<1>8. x = [k \in DOMAIN meant |-> Message(b, meant[k])]
  BY <1>4, <1>5, <1>6
<1>9. DOMAIN x = 1 .. Len(meant) /\ x = [k \in 1 .. Len(meant) |-> x[k]]
      /\ \A k \in DOMAIN meant : x[k] = Message(b, meant[k])
  BY <1>7, <1>8
<1>10. Len(x) = Len(meant)
  BY <1>7, <1>9, SequenceMade
<1>11. ASSUME NEW k \in DOMAIN meant
       PROVE  GivenTo(x[k], meant[k])
  <2>1. meant[k] \in DOMAIN cfg.writers /\ x[k] = Message(b, meant[k])
    BY <1>1, <1>7, <1>9
  <2>2. KnownFrame(b, meant[k]) /\ KnownFields(b, meant[k])
    BY <2>1
  <2> QED
    BY <2>1, <2>2, MessageGiven
<1> QED
  BY <1>10, <1>11

(* What was published can be carried.                                       *)
LEMMA PublishedCarried ==
  ASSUME IsMessage(nm), IsPublisher(cfg), PublishedOf(nm),
         \A d \in ToSet(nm.payload) : \A f \in ToSet(d.fields) : Survives(format, f.data)
  PROVE  /\ AllCarried(format, nm) /\ Consistent(nm) /\ IsJson(nm)
         /\ \A d \in ToSet(nm.payload) : AllVariants(d)
<1>1. HeaderFrom(nm, cfg, nmSeq, published - 1)
  BY DEF PublishedOf
<1>2. Consistent(nm)
  BY <1>1 DEF HeaderFrom, Consistent
<1>3. DOMAIN nm.payload = DOMAIN cfg.writers
  <2>1. IsSequence(cfg.writers) /\ IsSequence(nm.payload) /\ Len(nm.payload) = Len(cfg.writers)
    BY <1>1 DEF IsPublisher, HeaderFrom
  <2> QED
    BY <2>1, SequenceFacts
<1>4. ASSUME NEW i \in DOMAIN cfg.writers, NEW d, d = nm.payload[i]
      PROVE  /\ d.fieldEncoding = "variant" /\ (d.messageType = "keepalive" => d.fields = <<>>)
             /\ Has(d.major) <=> Has(d.minor)
  <2>1. FrameOf(d, cfg, i, values)
    BY <1>4 DEF PublishedOf
  <2>2. CASE values = <<>>
    BY <2>1, <2>2 DEF FrameOf
  <2>3. CASE values # <<>>
    BY <2>1, <2>3 DEF FrameOf, Has
  <2> QED
    BY <2>2, <2>3
<1>5. IsJson(nm)
  BY <1>3, <1>4 DEF IsJson
<1>6. ASSUME NEW d \in ToSet(nm.payload)
      PROVE  AllVariants(d)
  <2>1. PICK i \in DOMAIN nm.payload : d = nm.payload[i]
    BY DEF ToSet
  <2>2. IsDsm(d)
    BY DEF IsMessage
  <2> QED
    BY <1>3, <1>4, <2>1, <2>2 DEF AllVariants
<1>7. ASSUME NEW d \in ToSet(nm.payload), NEW f \in ToSet(d.fields)
      PROVE  Carried(format, f.data)
  <2>1. Survives(format, f.data)
    BY <1>7
  <2> QED
    BY <2>1 DEF Carried, Survives
<1>8. AllCarried(format, nm)
  BY <1>6, <1>7 DEF AllCarried, AllVariants
<1> QED
  BY <1>2, <1>5, <1>6, <1>8

(* A subscriber with another encoding is given nothing.                     *)
LEMMA OtherEncoding ==
  ASSUME Travelled, stage = "received", rd # <<>>, rd.encoding # format
  PROVE  out = <<>>
<1>1. wire.format = format
  <2>1. CASE format = "json"
    BY <2>1 DEF Travelled, EncodeJson
  <2>2. CASE format = "uadp"
    BY <2>2 DEF Travelled, EncodeUadp
  <2> QED
    BY <2>1, <2>2 DEF Travelled
<1>2. got = Decoded(wire, rd.encoding)
  BY DEF Travelled
<1>3. got = NoResult
  BY <1>1, <1>2 DEF Decoded
<1>4. ~got.ok
  BY <1>3 DEF NoResult
<1> QED
  BY <1>4 DEF Travelled

(* _handleNetworkMessage(): whatever was published under whatever           *)
(* configuration, and whatever the filter, a subscriber is given exactly    *)
(* the messages that are meant for it, in order, each with the values that  *)
(* were published, a NodeId without its namespace, under its writer's       *)
(* identifier (Delivered).                                                  *)
THEOREM MeantIsDelivered == MessageSpec => []Delivered
<1>1. MessageInv /\ Travelled /\ AsPublished => Delivered
  <2> DEFINE meant == FlattenSeq([i \in DOMAIN cfg.writers |-> When(Meant(i), <<i>>)])
  <2> SUFFICES ASSUME MessageInv, Travelled, AsPublished, stage = "received", rd # <<>>,
                      \A d \in ToSet(nm.payload) : \A f \in ToSet(d.fields) : Survives(format, f.data)
               PROVE  IF ~ReaderAccepted \/ rd.encoding # format THEN out = <<>>
                      ELSE Len(out) = Len(meant) /\ \A k \in DOMAIN meant : GivenTo(out[k], meant[k])
    BY Zenon DEF Delivered, GivenTo
  <2>1. CASE ~ReaderAccepted
    BY <2>1 DEF Travelled
  <2>2. CASE rd.encoding # format
    BY <2>2, OtherEncoding
  <2>3. CASE ReaderAccepted /\ rd.encoding = format
    <3>1. cfg # <<>> /\ PublishedOf(nm) /\ IsMessage(nm) /\ format \in {"uadp", "json"}
      BY DEF AsPublished, WithMessage, MessageInv, HasMessage, Travelled
    <3>2. IsPublisher(cfg) /\ Accepted(cfg)
      BY <3>1, MessagesAssumption DEF MessageInv, Deployed, WithMessage
    <3>3. AllCarried(format, nm) /\ Consistent(nm) /\ IsJson(nm) /\ \A d \in ToSet(nm.payload) : AllVariants(d)
      BY <3>1, <3>2, PublishedCarried
    <3>4. format = "json" => wire.parses
      BY <3>3 DEF Travelled, EncodeJson
    <3>5. /\ got.ok = TRUE /\ SameMessage(nm, got.val)
          /\ format = "uadp" => got.val = NmBack(nm, Null, PayloadBack(nm.payload))
          /\ format = "json" => got.val = DecodeJson(EncodeJson(nm))
      BY <2>3, <3>3, <3>4, ReceivedSame
    <3>6. MessageTold(nm, got.val)
      BY <3>1, <3>3, <3>5, ReceivedTold
    <3>7. KnownAs(got.val) /\ \A i \in DOMAIN cfg.writers : KnownFrame(got.val, i) /\ KnownFields(got.val, i)
      BY <3>1, <3>2, <3>5, <3>6, ReceivedKnown
    <3>8. out = HandleNetworkMessage(rd, got.val)
      BY <2>3, <3>5 DEF Travelled
    <3>9. Len(out) = Len(meant) /\ \A k \in DOMAIN meant : GivenTo(out[k], meant[k])
      BY <3>2, <3>7, <3>8, GivenWhatIsMeant
    <3> QED
      BY <2>3, <3>9
  <2> QED
    BY <2>1, <2>2, <2>3
<1> QED
  BY <1>1, PublishedInvariant, PTL

=============================================================================

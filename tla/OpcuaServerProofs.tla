-------------------------- MODULE OpcuaServerProofs --------------------------
(***************************************************************************)
(* Server nodes, for any number of them on any ports: the queue for the    *)
(* key pair, the port that a closed node gives back, and what commands     *)
(* write, for any commands.                                                *)
(***************************************************************************)
EXTENDS OpcuaServer, TLAPS

-----------------------------------------------------------------------------
(* The queue, for any number of servers and clients.                        *)

(* The chain has no gaps: a task is chained to the one whose place is the   *)
(* one before its own, and the places of queued tasks differ.               *)
Chain ==
  /\ tail # None => task[tail] # "new"
  /\ \A t \in Tasks : task[t] # "new" =>
       /\ place[t] \in 1 .. Length
       /\ IF after[t] = None THEN place[t] = 1
          ELSE task[after[t]] # "new" /\ place[t] = place[after[t]] + 1
  /\ \A s, t \in Tasks : task[s] # "new" /\ task[t] # "new" /\ place[s] = place[t] => s = t

(* Who creates the key pair is running; and a task that is done has left    *)
(* it, and nothing removes it.                                              *)
Creation ==
  /\ key = "creating" <=> creator # None
  /\ creator # None => task[creator] = "running"
  /\ \A t \in Tasks : task[t] = "running" => key # "absent"

IInv == LockTypeOK /\ Chain /\ InOrder /\ Creation /\ KeyIsThere

(* At most one task runs.                                                   *)
LEMMA OneRuns ==
  ASSUME IInv, NEW s \in Tasks, NEW t \in Tasks, task[s] = "running", task[t] = "running"
  PROVE  s = t
<1>1. place[s] \in Nat /\ place[t] \in Nat /\ task[s] # "new" /\ task[t] # "new"
  BY DEF IInv, LockTypeOK
<1>2. ~(place[s] < place[t]) /\ ~(place[t] < place[s])
  BY TasksAssumption DEF IInv, InOrder, Settled
<1>3. place[s] = place[t]
  BY <1>1, <1>2
<1> QED
  BY <1>1, <1>3 DEF IInv, Chain

LEMMA InitHolds == LockInit => IInv
BY DEF LockInit, IInv, LockTypeOK, Chain, InOrder, Creation, KeyIsThere, Length, Settled

LEMMA QueueStep ==
  ASSUME IInv, NEW t \in Tasks, WithPkiLock(t)
  PROVE  IInv'
<1> USE TasksAssumption DEF WithPkiLock, Chained
<1>1. LockTypeOK'
  <2>1. Length \in Nat
    BY DEF IInv, LockTypeOK, Length
  <2> QED
    BY <2>1 DEF IInv, LockTypeOK
<1>2. Chain'
  <2>1. Length \in Nat /\ Length' = Length + 1
    BY DEF IInv, LockTypeOK, Length
  <2>2. tail = None => \A u \in Tasks : task[u] = "new"
    BY DEF IInv, Chain, Length
  <2>3. tail # None => task[tail] # "new" /\ place[tail] = Length /\ tail \in Tasks /\ tail # t
    BY DEF IInv, Chain, Length, LockTypeOK
  <2>4. (tail # None => task[tail] # "new")'
    BY DEF IInv, LockTypeOK
  <2>5. ASSUME NEW u \in Tasks, task'[u] # "new"
        PROVE  /\ place'[u] \in 1 .. Length'
               /\ IF after'[u] = None THEN place'[u] = 1
                  ELSE task'[after'[u]] # "new" /\ place'[u] = place'[after'[u]] + 1
    <3>1. CASE u = t
      <4>1. place'[t] = Length + 1 /\ after'[t] = tail
        BY DEF IInv, LockTypeOK
      <4>2. CASE tail = None
        BY <2>1, <3>1, <4>1, <4>2 DEF Length
      <4>3. CASE tail # None
        <5>1. place'[tail] = Length /\ task'[tail] # "new"
          BY <2>3, <4>3 DEF IInv, LockTypeOK
        <5> QED
          BY <2>1, <3>1, <4>1, <4>3, <5>1
      <4> QED
        BY <4>2, <4>3
    <3>2. CASE u # t
      <4>1. task'[u] = task[u] /\ place'[u] = place[u] /\ after'[u] = after[u] /\ after[u] \in Tasks \cup {None}
        BY <3>2 DEF IInv, LockTypeOK
      <4>2. place[u] \in 1 .. Length
        BY <2>5, <4>1 DEF IInv, Chain
      <4>3. CASE after[u] = None
        BY <2>1, <2>5, <4>1, <4>2, <4>3 DEF IInv, Chain
      <4>4. CASE after[u] # None
        <5>1. task[after[u]] # "new" /\ place[u] = place[after[u]] + 1 /\ after[u] # t
          BY <2>5, <4>1, <4>4 DEF IInv, Chain
        <5>2. task'[after[u]] = task[after[u]] /\ place'[after[u]] = place[after[u]]
          BY <4>1, <4>4, <5>1 DEF IInv, LockTypeOK
        <5> QED
          BY <2>1, <4>1, <4>2, <4>4, <5>1, <5>2
      <4> QED
        BY <4>3, <4>4
    <3> QED
      BY <3>1, <3>2
  <2>6. ASSUME NEW u \in Tasks, NEW v \in Tasks, task'[u] # "new", task'[v] # "new", place'[u] = place'[v]
        PROVE  u = v
    <3>1. \A w \in Tasks : w # t /\ task'[w] # "new" => place'[w] = place[w] /\ task[w] # "new" /\ place[w] \in 1 .. Length
      BY DEF IInv, LockTypeOK, Chain
    <3>2. place'[t] = Length + 1
      BY DEF IInv, LockTypeOK
    <3> QED
      BY <2>1, <2>6, <3>1, <3>2 DEF IInv, Chain
  <2> QED
    BY <2>4, <2>5, <2>6 DEF Chain
<1>3. InOrder'
  <2> SUFFICES ASSUME NEW s \in Tasks, NEW u \in Tasks, task'[s] # "new", place'[s] < place'[u],
                      task'[u] \in {"running", "done", "failed"}
               PROVE  Settled(s)'
    BY DEF InOrder
  <2>1. u # t /\ task[u] = task'[u] /\ place[u] = place'[u]
    BY DEF IInv, LockTypeOK
  <2>2. s # t
    <3>1. place[u] \in 1 .. Length /\ Length \in Nat
      BY <2>1 DEF IInv, Chain, LockTypeOK, Length
    <3> QED
      BY <2>1, <3>1 DEF IInv, LockTypeOK
  <2> QED
    BY <2>1, <2>2 DEF IInv, LockTypeOK, InOrder, Settled
<1>4. Creation'
  BY DEF IInv, LockTypeOK, Creation
<1>5. KeyIsThere'
  BY DEF IInv, LockTypeOK, KeyIsThere
<1> QED
  BY <1>1, <1>2, <1>3, <1>4, <1>5 DEF IInv

LEMMA BeginStep ==
  ASSUME IInv, NEW t \in Tasks, Begin(t)
  PROVE  IInv'
<1> USE TasksAssumption DEF Begin, Free
<1>1. LockTypeOK'
  BY DEF IInv, LockTypeOK
<1>2. Chain'
  BY DEF IInv, LockTypeOK, Chain, Length
<1>3. InOrder'
  <2> SUFFICES ASSUME NEW s \in Tasks, NEW u \in Tasks, task'[s] # "new", place[s] < place[u],
                      task'[u] \in {"running", "done", "failed"}
               PROVE  Settled(s)'
    BY DEF InOrder
  <2>1. task[s] # "new" /\ task[u] # "new" /\ place[s] \in Nat /\ place[u] \in Nat
    BY DEF IInv, LockTypeOK
  <2>2. Settled(s)
    <3>1. CASE u # t
      BY <2>1, <3>1 DEF IInv, LockTypeOK, InOrder
    <3>2. CASE u = t
      <4>1. after[t] # None
        BY <2>1, <3>2 DEF IInv, Chain, Length
      <4>2. after[t] \in Tasks /\ task[after[t]] \in {"done", "failed"} /\ place[t] = place[after[t]] + 1
        BY <4>1, <2>1, <3>2 DEF IInv, LockTypeOK, Chain, Settled
      <4>3. place[s] < place[after[t]] \/ place[s] = place[after[t]]
        BY <2>1, <3>2, <4>2 DEF IInv, LockTypeOK
      <4>4. CASE place[s] = place[after[t]]
        BY <2>1, <4>2, <4>4 DEF IInv, Chain, Settled
      <4>5. CASE place[s] < place[after[t]]
        BY <2>1, <4>2, <4>5 DEF IInv, InOrder
      <4> QED
        BY <4>3, <4>4, <4>5
    <3> QED
      BY <3>1, <3>2
  <2>3. s # t
    BY <2>2 DEF Settled
  <2> QED
    BY <2>2, <2>3 DEF IInv, LockTypeOK, Settled
<1>4. Creation'
  BY DEF IInv, LockTypeOK, Creation
<1>5. KeyIsThere'
  BY DEF IInv, LockTypeOK, KeyIsThere
<1> QED
  BY <1>1, <1>2, <1>3, <1>4, <1>5 DEF IInv

(* Who leaves the queue is its creator, if anyone creates the key pair.     *)
LEMMA SettleStep ==
  ASSUME IInv, NEW t \in Tasks, Succeed(t) \/ Fail(t)
  PROVE  IInv'
<1> USE TasksAssumption DEF Succeed, Fail
<1>0. task[t] = "running" /\ (creator = t \/ creator = None)
  BY OneRuns DEF IInv, Creation, LockTypeOK
<1>1. LockTypeOK'
  BY DEF IInv, LockTypeOK
<1>2. Chain'
  BY DEF IInv, LockTypeOK, Chain, Length
<1>3. InOrder'
  BY DEF IInv, LockTypeOK, InOrder, Settled
<1>4. \A u \in Tasks : u # t => task'[u] = task[u] /\ task[u] # "running"
  BY <1>0, OneRuns DEF IInv, LockTypeOK
<1>5. task'[t] \in {"done", "failed"}
  BY DEF IInv, LockTypeOK
<1>6. Creation'
  BY <1>0, <1>4, <1>5 DEF IInv, LockTypeOK, Creation
<1>7. KeyIsThere'
  <2>1. key # "absent"
    BY <1>0 DEF IInv, Creation
  <2>2. creator = None => key = "present"
    BY <2>1 DEF IInv, Creation, LockTypeOK
  <2>3. creator = t => \A u \in Tasks : task[u] # "done"
    BY DEF IInv, Creation, KeyIsThere
  <2> QED
    BY <1>0, <1>4, <2>2, <2>3 DEF IInv, LockTypeOK, KeyIsThere
<1> QED
  BY <1>1, <1>2, <1>3, <1>6, <1>7 DEF IInv

LEMMA StepKeeps == IInv /\ [LockNext]_lockVars => IInv'
<1> SUFFICES ASSUME IInv, [LockNext]_lockVars PROVE IInv'
  OBVIOUS
<1>1. ASSUME NEW t \in Tasks, WithPkiLock(t) PROVE IInv'
  BY <1>1, QueueStep
<1>2. ASSUME NEW t \in Tasks, Work(t) PROVE IInv'
  BY <1>2, BeginStep, SettleStep DEF Work
<1>3. CASE UNCHANGED lockVars
  BY <1>3 DEF lockVars, IInv, LockTypeOK, Chain, InOrder, Creation, KeyIsThere, Length, Settled
<1> QED
  BY <1>1, <1>2, <1>3 DEF LockNext

(* The inductive invariant of the queue.                                    *)
THEOREM QueueInvariant == LockSpec => []IInv
BY InitHolds, StepKeeps, PTL DEF LockSpec

(* Certificates are prepared in the order asked for, one at a time.         *)
THEOREM TasksInOrder == LockSpec => []InOrder
<1>1. IInv => InOrder
  BY DEF IInv
<1> QED
  BY <1>1, QueueInvariant, PTL

(* Whoever has prepared its certificate finds the key pair on disk.         *)
THEOREM KeyAlwaysThere == LockSpec => []KeyIsThere
<1>1. IInv => KeyIsThere
  BY DEF IInv
<1> QED
  BY <1>1, QueueInvariant, PTL

-----------------------------------------------------------------------------
(* A server does to the queue what PkiLock lets a task do.                  *)

LEMMA ServersQueue == Init /\ [][Next]_vars => LockSpec
<1>1. Init => LockInit
  BY DEF Init
<1>2. [Next]_vars => [LockNext]_lockVars
  <2> SUFFICES ASSUME [Next]_vars PROVE [LockNext]_lockVars
    OBVIOUS
  <2>1. CASE Queue
    BY <2>1 DEF Queue, LockNext
  <2>2. ASSUME NEW s \in Servers, Deploy(s) PROVE [LockNext]_lockVars
    BY <2>2, ServersAssumption DEF Deploy, LockNext
  <2>3. ASSUME NEW s \in Servers, Close(s) \/ Input(s) \/ Goes(s) PROVE [LockNext]_lockVars
    BY <2>3 DEF Close, Input, Goes, Prepared, Starts, StartFails, Withdraw, CloseResumes, ShutDown
  <2>4. CASE UNCHANGED vars
    BY <2>4 DEF vars
  <2> QED
    BY <2>1, <2>2, <2>3, <2>4 DEF Next
<1> QED
  BY <1>1, <1>2, PTL DEF LockSpec

(* A server that has prepared its certificate finds the key pair on disk,   *)
(* whatever the other servers do and whenever they are closed.              *)
THEOREM ServersFindTheKey == Spec => []KeyIsThere
BY ServersQueue, KeyAlwaysThere, PTL DEF Spec

-----------------------------------------------------------------------------
(* The port.  PortReleased is not inductive: that a closed node gives its   *)
(* port back depends on the variable server, by which the close handler     *)
(* decides whether there is anything to shut down.                          *)

Stages == {"none", "preparing", "starting", "withdrawing", "withdrawn", "started", "failed"}
LifeTypeOK ==
  /\ start \in [Servers -> Stages]
  /\ close \in [Servers -> {"none", "awaiting", "shutting", "done"}]
  /\ server \subseteq Servers /\ listening \subseteq Servers

(* Where a server is in its life, and what it holds there.                  *)
Holds(s) ==
  /\ start[s] \in {"none", "preparing", "starting", "withdrawn"} => s \notin listening
  /\ close[s] # "done" =>
       /\ start[s] \in {"preparing", "starting", "withdrawing", "started"} => s \in server
       /\ s \in listening => s \in server
  /\ close[s] = "done" => s \notin listening \/ s \in stuck
  /\ close[s] \in {"shutting", "done"} => StartIsOver(s)

(* Two nodes of one port are deployed one after the other.                  *)
OneAtATime == \A r, s \in Servers : Port[r] = Port[s] => r = s \/ Gone(r) \/ Gone(s)

PortInv == LifeTypeOK /\ (\A s \in Servers : Holds(s)) /\ OneAtATime

LEMMA PortInvGives == PortInv => PortReleased
<1> SUFFICES ASSUME PortInv PROVE PortReleased
  OBVIOUS
<1>1. \A s \in Servers : close[s] = "done" => s \notin listening \/ s \in stuck
  BY DEF PortInv, Holds
<1>2. ASSUME NEW s \in Servers, start[s] = "starting", NEW r \in listening \ stuck, Port[r] = Port[s]
      PROVE  FALSE
  <2>1. r \in Servers /\ r # s /\ close[s] # "done" /\ start[r] # "none" /\ close[r] # "done"
    BY <1>2 DEF PortInv, LifeTypeOK, Holds, StartIsOver
  <2> QED
    BY <1>2, <2>1 DEF PortInv, OneAtATime, Gone
<1> QED
  BY <1>1, <1>2 DEF PortReleased

(* A step of one server leaves the others as they are.                      *)
LEMMA OthersStay ==
  ASSUME PortInv, NEW s \in Servers, LifeTypeOK', stuck \subseteq stuck',
         \A r \in Servers \ {s} :
           /\ start'[r] = start[r] /\ close'[r] = close[r]
           /\ (r \in server' <=> r \in server) /\ (r \in listening' <=> r \in listening),
         Holds(s)',
         Gone(s) => Gone(s)' \/ \A r \in Servers \ {s} : Port[r] = Port[s] => Gone(r)
  PROVE  PortInv'
<1>1. ASSUME NEW r \in Servers PROVE Holds(r)'
  BY <1>1 DEF PortInv, Holds, StartIsOver
<1>2. OneAtATime'
  BY DEF PortInv, OneAtATime, Gone
<1> QED
  BY <1>1, <1>2 DEF PortInv

(* The port of a closed node is free, or its server could not be shut down. *)
THEOREM PortAlwaysReleased == Spec => []PortReleased
<1>1. Init => PortInv
  BY DEF Init, PortInv, LifeTypeOK, Stages, Holds, StartIsOver, OneAtATime, Gone
<1>2. PortInv /\ [Next]_vars => PortInv'
  <2> SUFFICES ASSUME PortInv, [Next]_vars PROVE PortInv'
    OBVIOUS
  <2>1. ASSUME UNCHANGED life PROVE PortInv'
    BY <2>1 DEF life, PortInv, LifeTypeOK, Holds, StartIsOver, OneAtATime, Gone
  <2>2. CASE Queue
    BY <2>1, <2>2 DEF Queue
  <2>3. ASSUME NEW s \in Servers, Input(s) PROVE PortInv'
    BY <2>1, <2>3 DEF Input
  <2>4. ASSUME NEW s \in Servers, Deploy(s) PROVE PortInv'
    <3> USE <2>4 DEF Deploy, Becomes
    <3>1. LifeTypeOK'
      BY DEF PortInv, LifeTypeOK, Stages
    <3>2. Holds(s)'
      BY DEF PortInv, LifeTypeOK, Holds, StartIsOver
    <3>3. \A r \in Servers \ {s} :
            /\ start'[r] = start[r] /\ close'[r] = close[r]
            /\ (r \in server' <=> r \in server) /\ (r \in listening' <=> r \in listening)
      BY DEF PortInv, LifeTypeOK
    <3>4. stuck' = stuck /\ \A r \in Servers \ {s} : Port[r] = Port[s] => Gone(r)
      OBVIOUS
    <3> QED
      BY <3>1, <3>2, <3>3, <3>4, OthersStay
  <2>5. ASSUME NEW s \in Servers, Close(s) \/ Goes(s) PROVE PortInv'
    <3> USE <2>5 DEF Close, Goes, Prepared, Starts, StartFails, Withdraw, CloseResumes, ShutDown,
        ShutsDown, ShutdownFails, Becomes, Shuts
    <3>1. LifeTypeOK'
      BY DEF PortInv, LifeTypeOK, Stages
    <3>2. Holds(s)'
      BY DEF PortInv, LifeTypeOK, Holds, StartIsOver
    <3>3. \A r \in Servers \ {s} :
            /\ start'[r] = start[r] /\ close'[r] = close[r]
            /\ (r \in server' <=> r \in server) /\ (r \in listening' <=> r \in listening)
      BY DEF PortInv, LifeTypeOK
    <3>4. stuck \subseteq stuck'
      OBVIOUS
    <3>5. Gone(s) => Gone(s)'
      BY DEF PortInv, LifeTypeOK, Holds, StartIsOver, Gone
    <3> QED
      BY <3>1, <3>2, <3>3, <3>4, <3>5, OthersStay
  <2>6. CASE UNCHANGED vars
    BY <2>1, <2>6 DEF vars
  <2> QED
    BY <2>2, <2>3, <2>4, <2>5, <2>6 DEF Next
<1> QED
  BY <1>1, <1>2, PortInvGives, PTL DEF Spec

-----------------------------------------------------------------------------
(* What commands write.                                                     *)

(* A value is a pair of one of these kinds and its content.                 *)
(* The kind of a fraction.                                                  *)
LEMMA KindOfFraction == Fraction[1] = "fraction"
<1>1. Fraction = <<"fraction", "">>
  BY DEF Fraction
<1>2. \A a, b : <<a, b>>[1] = a
  OBVIOUS
<1> QED
  BY ONLY <1>1, <1>2

LEMMA KindsOfValues ==
  ASSUME NEW v, IsMessageValue(v)
  PROVE  /\ v = <<v[1], v[2]>>
         /\ v[1] \in {"bool", "num", "fraction", "str", "big", "date", "buf", "uint8", "serial",
                      "nodeid", "parsed", "expanded", "array", "carrier"}
         /\ v[1] = "array" \/ v[1] = "carrier" \/ IsScalar(v)
         /\ v[1] = "bool" => v[2] \in BOOLEAN
         /\ v[1] = "fraction" => v = Fraction
         /\ v[1] \in {"num", "big"} => v[2] \in Numbers
         /\ v[1] \in {"nodeid", "parsed"} => v[2] = "id"
         /\ v[1] = "expanded" => v[2] \in {"id", "uri"}
<1>1. CASE IsArray(v)
  <2>1. v[1] = "array" /\ v = <<"array", v[2]>>
    <3>1. ~(v[1] \in {"num", "str", "date", "buf", "uint8", "serial", "bool", "big", "nodeid", "parsed", "expanded"})
      BY <1>1 DEF IsArray
    <3>2. v # Fraction
      BY <1>1, KindOfFraction DEF IsArray
    <3>3. ~IsScalar(v)
      BY <3>1, <3>2 DEF IsScalar
    <3>4. v[1] # "carrier"
      BY <1>1 DEF IsArray
    <3> QED
      BY <1>1, <3>3, <3>4 DEF IsArray, IsValue, IsMessageValue, IsCarrier, Arr
  <2> QED
    BY <2>1
<1>2. CASE IsCarrier(v)
  BY <1>2 DEF IsCarrier
<1>3. CASE ~IsArray(v) /\ ~IsCarrier(v)
  <2>1. IsScalar(v)
    BY <1>3 DEF IsValue, IsMessageValue
  <2>2. v = Fraction => v[1] = "fraction"
    BY KindOfFraction
  <2>3. v[1] = "fraction" => v = Fraction
    BY <2>1 DEF IsScalar
  <2>4. v = <<v[1], v[2]>>
    BY <2>1 DEF IsScalar
  <2>5. v[1] \in {"bool", "num", "fraction", "str", "big", "date", "buf", "uint8", "serial",
                      "nodeid", "parsed", "expanded"}
    BY <2>1, <2>2 DEF IsScalar
  <2>6. /\ v[1] = "bool" => v[2] \in BOOLEAN
        /\ v[1] \in {"num", "big"} => v[2] \in Numbers
        /\ v[1] \in {"nodeid", "parsed"} => v[2] = "id"
        /\ v[1] = "expanded" => v[2] \in {"id", "uri"}
    BY <2>1, <2>2 DEF IsScalar
  <2> QED
    BY <2>1, <2>3, <2>4, <2>5, <2>6
<1> QED
  BY <1>1, <1>2, <1>3

(* The pairs of a kind are told apart by their contents.                    *)
LEMMA PairsDiffer ==
  /\ \A a, b : <<a, b>>[1] = a /\ <<a, b>>[2] = b
  /\ \A a, b, c, d : <<a, b>> = <<c, d>> <=> a = c /\ b = d
  OBVIOUS

(* What a coercion throws is no value of any kind.                          *)
LEMMA InvalidIsNoValue == Invalid[1] = "throws"
<1>1. Invalid = <<"throws", "">>
  BY DEF Invalid
<1> QED
  BY ONLY <1>1, PairsDiffer

(* A type takes what a coercion makes of a value exactly when that is what  *)
(* the value stands for.                                                    *)
LEMMA TakesWhatItStandsFor ==
  ASSUME NEW t \in Declarable, NEW v, IsMessageValue(v)
  PROVE  Accepts(t, CoerceScalar(t, v)) <=> StandsFor(t, v, CoerceScalar(t, v))
<1> DEFINE w == CoerceScalar(t, v)
<1>1. /\ v = <<v[1], v[2]>>
      /\ v[1] \in {"bool", "num", "fraction", "str", "big", "date", "buf", "uint8", "serial",
                      "nodeid", "parsed", "expanded", "array", "carrier"}
      /\ v[1] = "bool" => v[2] \in BOOLEAN
      /\ v[1] = "fraction" => v = Fraction
      /\ v[1] \in {"num", "big"} => v[2] \in Numbers
      /\ v[1] \in {"nodeid", "parsed"} => v[2] = "id"
      /\ v[1] = "expanded" => v[2] \in {"id", "uri"}
  BY KindsOfValues
<1>3. CASE t = "Boolean"
  <2>1. w = ToBoolean(v)
    BY <1>3 DEF CoerceScalar
  <2>2. Accepts(t, w) <=> w[1] = "bool"
    BY <1>3 DEF Accepts
  <2>3. StandsFor(t, v, w) <=>
         \/ v[1] = "bool" /\ w = v
         \/ v \in {Num(1), Str("1"), Str("true")} /\ w = Bool(TRUE)
         \/ v \in {Num(0), Str("0"), Str("false")} /\ w = Bool(FALSE)
    BY <1>3 DEF StandsFor
  <2>4. \A b : Bool(b)[1] = "bool"
    BY PairsDiffer DEF Bool
  <2>5. Num(1)[1] = "num" /\ Num(0)[1] = "num" /\ Str("1")[1] = "str" /\ Str("true")[1] = "str"
        /\ Str("0")[1] = "str" /\ Str("false")[1] = "str"
    BY PairsDiffer DEF Num, Str
  <2>6. CASE v[1] = "bool"
    <3>1. v \notin {Num(1), Str("1"), Str("true")} /\ v \notin {Num(0), Str("0"), Str("false")}
      BY <2>5, <2>6
    <3>2. w = v
      BY <2>1, <2>6, <3>1 DEF ToBoolean
    <3> QED
      BY <2>2, <2>3, <2>6, <3>2
  <2>7. CASE v \in {Num(1), Str("1"), Str("true")}
    <3>1. v[1] # "bool"
      BY <2>5, <2>7
    <3>2. v \notin {Num(0), Str("0"), Str("false")}
      BY <2>7, PairsDiffer DEF Num, Str
    <3>3. w = Bool(TRUE)
      BY <2>1, <2>7, <3>1, <3>2 DEF ToBoolean
    <3> QED
      BY <2>2, <2>3, <2>4, <2>7, <3>3
  <2>8. CASE v \in {Num(0), Str("0"), Str("false")}
    <3>1. v[1] # "bool"
      BY <2>5, <2>8
    <3>2. v \notin {Num(1), Str("1"), Str("true")}
      BY <2>8, PairsDiffer DEF Num, Str
    <3>3. w = Bool(FALSE)
      BY <2>1, <2>8, <3>1, <3>2 DEF ToBoolean
    <3> QED
      BY <2>2, <2>3, <2>4, <2>8, <3>3
  <2>9. CASE v[1] # "bool" /\ v \notin {Num(1), Str("1"), Str("true")} /\ v \notin {Num(0), Str("0"), Str("false")}
    <3>1. w = Invalid
      BY <2>1, <2>9 DEF ToBoolean
    <3> QED
      BY <2>2, <2>3, <2>9, <3>1, InvalidIsNoValue
  <2> QED
    BY <2>6, <2>7, <2>8, <2>9
<1>4. CASE t = "Byte"
  BY <1>4 DEF Accepts, CoerceScalar, StandsFor
<1>5. CASE t = "Int32"
  BY <1>5 DEF Accepts, CoerceScalar, StandsFor
<1>6. CASE t = "Double"
  BY <1>6 DEF Accepts, CoerceScalar, StandsFor
<1>7. CASE t = "Int64"
  <2>0. /\ Accepts(t, w) <=> IsNumeral(w) \/ (IsArray(w) /\ Len(w[2]) = 2 /\ All(w, IsInteger))
        /\ StandsFor(t, v, w) <=> IsLong(v) /\ Numeral(w) = Numeral(v)
        /\ w = ToLong(v)
    BY <1>7 DEF Accepts, StandsFor, CoerceScalar
  <2>1. CASE v[1] = "big"
    <3>1. v[2] \in Numbers
      BY <2>1, <1>1
    <3>2. w = <<"str", ToString(v[2])>> /\ ToString(v[2]) \in Digits
      BY <2>0, <2>1, <3>1 DEF ToLong, Digits, Str
    <3>3. Accepts(t, w)
      BY <2>0, <3>2, PairsDiffer DEF IsNumeral
    <3>4. (CHOOSE n \in Numbers : ToString(n) = ToString(v[2])) = v[2]
      BY <3>1, NumeralsDiffer
    <3>5. w[1] = "str" /\ w[2] = ToString(v[2])
      BY <3>2, PairsDiffer
    <3>6. Numeral(w) = CHOOSE n \in Numbers : ToString(n) = w[2]
      BY <3>5 DEF Numeral, IsArray
    <3>7. Numeral(w) = v[2]
      BY <3>4, <3>5, <3>6
    <3>8. Numeral(v) = v[2] /\ IsLong(v)
      BY <2>1 DEF Numeral, IsLong, IsArray
    <3> QED
      BY <2>0, <3>3, <3>7, <3>8
  <2>2. CASE v[1] # "big"
    <3>1. w = v
      BY <2>0, <2>2 DEF ToLong
    <3>2. Accepts(t, v) <=> IsLong(v)
      BY <2>0, <2>2, <3>1 DEF IsLong, IsArray
    <3> QED
      BY <2>0, <3>1, <3>2
  <2> QED
    BY <2>1, <2>2
<1>8. CASE t = "String"
  <2>0. /\ Accepts(t, w) <=> w[1] = "str"
        /\ StandsFor(t, v, w) <=>
             \/ v[1] = "str" /\ w = v
             \/ v[1] = "bool" /\ w = Str(IF v[2] THEN "true" ELSE "false")
             \/ v[1] = "num" /\ w[1] = "str" /\ IsNumeral(w) /\ Numeral(w) = v[2]
             \/ v = Fraction /\ w = Str("0.5")
        /\ w = ToText(v)
    BY <1>8 DEF Accepts, StandsFor, CoerceScalar
  <2>1. \A s : Str(s)[1] = "str"
    BY PairsDiffer DEF Str
  <2>2. CASE v[1] = "bool"
    BY <2>0, <2>1, <2>2 DEF ToText
  <2>3. CASE v[1] = "num"
    <3>0. v # Fraction
      BY <2>3, KindOfFraction
    <3>1. w = Str(ToString(v[2])) /\ v[2] \in Numbers
      BY <1>1, <2>0, <2>3, <3>0 DEF ToText
    <3>2. w[1] = "str" /\ w[2] = ToString(v[2])
      BY <3>1, PairsDiffer DEF Str
    <3>3. w[2] \in Digits
      BY <3>1, <3>2 DEF Digits
    <3>4. Numeral(w) = CHOOSE n \in Numbers : ToString(n) = w[2]
      BY <3>2 DEF Numeral, IsArray
    <3>5. Numeral(w) = v[2]
      BY <3>1, <3>2, <3>4, NumeralsDiffer
    <3> QED
      BY <2>0, <2>3, <3>2, <3>3, <3>5 DEF IsNumeral
  <2>4. CASE v[1] = "fraction"
    BY <2>0, <2>1, <2>4, <1>1 DEF ToText
  <2>5. CASE v[1] \notin {"bool", "num", "fraction"}
    <3>1. v # Fraction
      BY <2>5, KindOfFraction
    <3>2. w = v
      BY <2>0, <2>5, <3>1 DEF ToText
    <3> QED
      BY <2>0, <2>5, <3>1, <3>2
  <2> QED
    BY <2>2, <2>3, <2>4, <2>5
<1>9. CASE t = "DateTime"
  <2>0. /\ Accepts(t, w) <=> w[1] = "date"
        /\ StandsFor(t, v, w) <=>
             \/ v[1] = "date" /\ w = v
             \/ v[1] = "str" /\ Parsed(v[2]) /\ w = Date(v[2])
             \/ IsNumber(v) /\ w = Date(Epoch(v))
        /\ w = ToDate(v)
    BY <1>9 DEF Accepts, StandsFor, CoerceScalar
  <2>1. \A d : Date(d)[1] = "date" /\ Date(d)[2] = d
    BY PairsDiffer DEF Date
  <2>2. CASE v[1] = "date"
    <3>1. ~IsNumber(v)
      BY <2>2 DEF IsNumber
    <3>2. w = v
      BY <2>0, <2>2, <3>1 DEF ToDate
    <3> QED
      BY <2>0, <2>2, <3>2
  <2>3. CASE IsNumber(v)
    <3>1. v[1] # "date" /\ v[1] # "str"
      BY <2>3 DEF IsNumber
    <3>2. w = Date(Epoch(v))
      BY <2>0, <2>3, <3>1 DEF ToDate
    <3> QED
      BY <2>0, <2>1, <2>3, <3>2
  <2>5. CASE v[1] = "str" /\ Parsed(v[2])
    <3>1. w = Date(v[2])
      BY <2>0, <2>5 DEF ToDate, IsNumber
    <3> QED
      BY <2>0, <2>1, <2>5, <3>1
  <2>6. CASE v[1] # "date" /\ ~IsNumber(v) /\ ~(v[1] = "str" /\ Parsed(v[2]))
    <3>1. w = Invalid
      BY <2>0, <2>6 DEF ToDate
    <3> QED
      BY <2>0, <2>6, <3>1, InvalidIsNoValue
  <2> QED
    BY <2>2, <2>3, <2>5, <2>6
<1>10. CASE t = "ByteString"
  BY <1>1, <1>10 DEF Accepts, CoerceScalar, StandsFor, ToByteString, Buf, IsArray, Invalid
<1>11. CASE t = "NodeId"
  <2>0. /\ Accepts(t, w) <=> w[1] = "nodeid"
        /\ StandsFor(t, v, w) <=>
             v \in {<<"nodeid", "id">>, <<"parsed", "id">>, Str("id")} /\ w = <<"nodeid", "id">>
        /\ w = ToNodeId(v)
    BY <1>11 DEF Accepts, StandsFor, CoerceScalar
  <2>1. v \in {<<"nodeid", "id">>, <<"parsed", "id">>, Str("id")} <=>
          v[1] = "nodeid" \/ (v[1] \in {"str", "parsed"} /\ v[2] = "id")
    BY <1>1, PairsDiffer DEF Str
  <2>2. CASE v[1] = "nodeid"
    BY <2>0, <2>1, <2>2, <1>1 DEF ToNodeId
  <2>3. CASE v[1] \in {"str", "parsed"} /\ v[2] = "id"
    <3>1. w = <<"nodeid", "id">>
      BY <2>0, <2>3 DEF ToNodeId
    <3> QED
      BY <2>0, <2>1, <2>3, <3>1, PairsDiffer
  <2>4. CASE v[1] # "nodeid" /\ ~(v[1] \in {"str", "parsed"} /\ v[2] = "id")
    <3>1. w = Invalid
      BY <2>0, <2>4 DEF ToNodeId
    <3> QED
      BY <2>0, <2>1, <2>4, <3>1, InvalidIsNoValue
  <2> QED
    BY <2>2, <2>3, <2>4
<1>12. CASE t = "ExpandedNodeId"
  <2>0. /\ Accepts(t, w) <=> w[1] = "expanded"
        /\ StandsFor(t, v, w) <=>
            v[1] \in {"nodeid", "expanded", "str"} /\ v[2] \in {"id", "uri"} /\ w = <<"expanded", v[2]>>
        /\ w = ToExpandedNodeId(v)
    BY <1>12 DEF Accepts, StandsFor, CoerceScalar
  <2>2. CASE v[1] = "expanded"
    <3>1. w = v
      BY <2>0, <2>2 DEF ToExpandedNodeId
    <3>2. v = <<"expanded", v[2]>>
      BY <2>2, <1>1
    <3> QED
      BY <2>0, <2>2, <3>1, <3>2, <1>1
  <2>3. CASE v[1] = "nodeid"
    <3>1. w = <<"expanded", v[2]>>
      BY <2>0, <2>3 DEF ToExpandedNodeId
    <3> QED
      BY <2>0, <2>3, <3>1, <1>1, PairsDiffer
  <2>4. CASE v[1] = "str" /\ v[2] \in {"id", "uri"}
    <3>1. w = <<"expanded", v[2]>>
      BY <2>0, <2>4 DEF ToExpandedNodeId
    <3> QED
      BY <2>0, <2>4, <3>1, PairsDiffer
  <2>5. CASE v[1] \notin {"expanded", "nodeid"} /\ ~(v[1] = "str" /\ v[2] \in {"id", "uri"})
    <3>1. w = Invalid
      BY <2>0, <2>5 DEF ToExpandedNodeId
    <3> QED
      BY <2>0, <2>5, <3>1, InvalidIsNoValue
  <2> QED
    BY <2>2, <2>3, <2>4, <2>5
<1> QED
  BY <1>3, <1>4, <1>5, <1>6, <1>7, <1>8, <1>9, <1>10, <1>11, <1>12 DEF Declarable, DataType

-----------------------------------------------------------------------------
(* What is built is what was asked for.                                     *)

(* An array that is converted element by element is an array of scalars.    *)
LEMMA ArraysOfScalars ==
  ASSUME NEW v, IsMessageValue(v), IsArray(v)
  PROVE  /\ v[2] \in Seq(ToSet(v[2])) /\ DOMAIN v[2] = 1 .. Len(v[2]) /\ Len(v[2]) \in Nat
         /\ \A i \in DOMAIN v[2] : IsValue(v[2][i])
<1>1. ~IsCarrier(v)
  BY DEF IsArray, IsCarrier
<1>2. ~IsScalar(v)
  BY KindOfFraction DEF IsArray, IsScalar
<1>3. v[2] \in Seq(ToSet(v[2])) /\ All(v, IsScalar)
  BY <1>1, <1>2 DEF IsMessageValue, IsValue
<1>4. DOMAIN v[2] = 1 .. Len(v[2]) /\ Len(v[2]) \in Nat
  BY <1>3
<1>5. ASSUME NEW i \in DOMAIN v[2]
      PROVE  IsScalar(v[2][i])
  BY <1>3, <1>5 DEF All, ToSet
<1> QED
  BY <1>3, <1>4, <1>5 DEF IsValue

(* The type and the shape of what is built, and when it is.                 *)
LEMMA BuiltOf ==
  ASSUME NEW t, NEW v
  PROVE  /\ BuildAs(t, v).ok => BuildAs(t, v).type = t
         /\ ~AsArray(t, v) =>
              /\ BuildAs(t, v).ok <=> Accepts(t, CoerceScalar(t, v))
              /\ BuildAs(t, v).ok =>
                   BuildAs(t, v).array = FALSE /\ BuildAs(t, v).value = CoerceScalar(t, v)
         /\ AsArray(t, v) =>
              /\ BuildAs(t, v).ok <=> \A i \in DOMAIN v[2] : Accepts(t, CoerceScalar(t, v[2][i]))
              /\ BuildAs(t, v).ok =>
                   /\ BuildAs(t, v).array = TRUE
                   /\ BuildAs(t, v).value[2] = [i \in DOMAIN v[2] |-> CoerceScalar(t, v[2][i])]
<1>1. CASE ~AsArray(t, v)
  <2>1. AsArray(t, v) = FALSE
    BY <1>1 DEF AsArray
  <2>2. BuildAs(t, v) = IF Accepts(t, CoerceScalar(t, v)) THEN Variant(t, FALSE, CoerceScalar(t, v)) ELSE NoVariant
    BY <2>1 DEF BuildAs
  <2>3. CASE Accepts(t, CoerceScalar(t, v))
    <3>1. BuildAs(t, v) = Variant(t, FALSE, CoerceScalar(t, v))
      BY <2>2, <2>3
    <3> QED
      BY <1>1, <2>3, <3>1 DEF Variant
  <2>4. CASE ~Accepts(t, CoerceScalar(t, v))
    <3>1. BuildAs(t, v) = NoVariant
      BY <2>2, <2>4
    <3> QED
      BY <1>1, <2>4, <3>1 DEF NoVariant
  <2> QED
    BY <2>3, <2>4
<1>2. CASE AsArray(t, v)
  <2>1. PICK s : s = [i \in DOMAIN v[2] |-> CoerceScalar(t, v[2][i])]
    OBVIOUS
  <2>2. Arr(s)[2] = s
    BY PairsDiffer DEF Arr
  <2>3. (\A x \in ToSet(Arr(s)[2]) : Accepts(t, x)) <=> \A i \in DOMAIN v[2] : Accepts(t, CoerceScalar(t, v[2][i]))
    BY <2>1, <2>2 DEF ToSet
  <2>4. AsArray(t, v) = TRUE
    BY <1>2 DEF AsArray
  <2>5. BuildAs(t, v) = IF \A x \in ToSet(Arr(s)[2]) : Accepts(t, x) THEN Variant(t, TRUE, Arr(s)) ELSE NoVariant
    BY <2>1, <2>4 DEF BuildAs, All
  <2>6. CASE \A x \in ToSet(Arr(s)[2]) : Accepts(t, x)
    <3>1. BuildAs(t, v) = Variant(t, TRUE, Arr(s))
      BY <2>5, <2>6
    <3>2. BuildAs(t, v).ok /\ BuildAs(t, v).type = t /\ BuildAs(t, v).array = TRUE /\ BuildAs(t, v).value[2] = s
      BY <2>2, <3>1 DEF Variant
    <3> QED
      BY <1>2, <2>1, <2>3, <2>6, <3>2
  <2>7. CASE ~\A x \in ToSet(Arr(s)[2]) : Accepts(t, x)
    <3>1. BuildAs(t, v) = NoVariant
      BY <2>5, <2>7
    <3>2. ~BuildAs(t, v).ok
      BY <3>1 DEF NoVariant
    <3> QED
      BY <1>2, <2>3, <2>7, <3>2
  <2> QED
    BY <2>6, <2>7
<1> QED
  BY <1>1, <1>2

(* A node that keeps what BuildAs() makes of a value has what was asked.    *)
LEMMA BuiltIsAsked ==
  ASSUME NEW t \in Declarable, NEW v, IsMessageValue(v), BuildAs(t, v).ok,
         NEW node, node.type = t, node.value = BuildAs(t, v), Carried(node.asked) = v
  PROVE  HasWhatWasAsked(node)
<1>1. CASE ~AsArray(t, v)
  <2>1. node.value.type = node.type /\ node.value.array = FALSE /\ node.value.value = CoerceScalar(t, v)
    <3>1. BuildAs(t, v).type = t /\ BuildAs(t, v).array = FALSE /\ BuildAs(t, v).value = CoerceScalar(t, v)
      BY <1>1, BuiltOf
    <3> QED
      BY <3>1
  <2>2. StandsFor(t, v, CoerceScalar(t, v))
    BY <1>1, BuiltOf, TakesWhatItStandsFor
  <2> QED
    BY <2>1, <2>2 DEF HasWhatWasAsked, Scalars
<1>2. CASE AsArray(t, v)
  <2>1. node.value.type = node.type /\ node.value.array = TRUE
        /\ node.value.value[2] = [i \in DOMAIN v[2] |-> CoerceScalar(t, v[2][i])]
    BY <1>2, BuiltOf, ZenonT(30)
  <2>2. DOMAIN v[2] = 1 .. Len(v[2]) /\ Len(v[2]) \in Nat /\ \A i \in DOMAIN v[2] : IsValue(v[2][i])
    BY <1>2, ArraysOfScalars DEF AsArray
  <2>3. \A i \in DOMAIN v[2] : StandsFor(t, v[2][i], CoerceScalar(t, v[2][i]))
    <3>1. SUFFICES ASSUME NEW i \in DOMAIN v[2]
                   PROVE  StandsFor(t, v[2][i], CoerceScalar(t, v[2][i]))
      OBVIOUS
    <3>2. Accepts(t, CoerceScalar(t, v[2][i]))
      BY <1>2, BuiltOf
    <3>3. IsMessageValue(v[2][i])
      BY <2>2 DEF IsMessageValue
    <3> QED
      BY <3>2, <3>3, TakesWhatItStandsFor
  <2>4. Len(node.value.value[2]) = Len(v[2])
    BY <2>1, <2>2
  <2> QED
    BY <2>1, <2>2, <2>3, <2>4 DEF HasWhatWasAsked, Scalars
<1> QED
  BY <1>1, <1>2

(* A carrier is no value of a declared type.                                *)
LEMMA CarriersAreRefused ==
  ASSUME NEW t \in Declarable, NEW v, v[1] = "carrier"
  PROVE  /\ ~BuildAs(t, v).ok
         /\ ~StandsFor(t, v, CoerceScalar(t, v))
<1>1. v # Fraction /\ v \notin {Num(1), Str("1"), Str("true")} /\ v \notin {Num(0), Str("0"), Str("false")}
  BY KindOfFraction, PairsDiffer DEF Num, Str
<1>2. v \notin {<<"nodeid", "id">>, <<"parsed", "id">>, Str("id")}
  BY PairsDiffer DEF Str
<1>3. ~StandsFor(t, v, CoerceScalar(t, v))
  BY <1>1, <1>2 DEF StandsFor, IsNumeral, IsNumber, IsLong, IsArray, Declarable, DataType
<1>4. ~Accepts(t, CoerceScalar(t, v))
  <2>1. CASE t = "Boolean"
    <3>1. CoerceScalar(t, v) = Invalid
      BY <1>1, <2>1 DEF CoerceScalar, ToBoolean
    <3> QED
      BY <2>1, <3>1, InvalidIsNoValue DEF Accepts
  <2>2. CASE t \in {"Byte", "Int32", "Double"}
    BY <1>1, <2>2 DEF CoerceScalar, Accepts, IsNumeral
  <2>3. CASE t = "Int64"
    BY <2>3 DEF CoerceScalar, ToLong, Accepts, IsNumeral, IsArray
  <2>4. CASE t = "String"
    BY <1>1, <2>4 DEF CoerceScalar, ToText, Accepts
  <2>5. CASE t = "DateTime"
    <3>1. CoerceScalar(t, v) = Invalid
      BY <2>5 DEF CoerceScalar, ToDate, IsNumber
    <3> QED
      BY <2>5, <3>1, InvalidIsNoValue DEF Accepts
  <2>6. CASE t \in {"ByteString", "NodeId", "ExpandedNodeId"}
    <3>1. CoerceScalar(t, v) = Invalid
      BY <2>6 DEF CoerceScalar, ToByteString, ToNodeId, ToExpandedNodeId, IsArray
    <3> QED
      BY <2>6, <3>1, InvalidIsNoValue DEF Accepts
  <2> QED
    BY <2>1, <2>2, <2>3, <2>4, <2>5, <2>6 DEF Declarable, DataType
<1>5. ~AsArray(t, v)
  BY DEF AsArray, IsArray
<1> QED
  BY <1>3, <1>4, <1>5, BuiltOf

(* What a variable of a declared type takes is what was asked for.          *)
LEMMA TakenIsAsked ==
  ASSUME NEW d, NEW v, IsMessageValue(v), NEW t \in Declarable,
         BuildVariant(v, d).ok, BuildVariant(v, d).type = t
  PROVE  BuildAs(t, Carried(v)).ok /\ BuildVariant(v, d) = BuildAs(t, Carried(v)) /\ IsMessageValue(Carried(v))
<1>1. \A u, x : BuildOf(u, x).ok /\ BuildOf(u, x).type = t => BuildOf(u, x) = BuildAs(t, x)
  <2>1. SUFFICES ASSUME NEW u, NEW x, BuildOf(u, x).ok, BuildOf(u, x).type = t
                 PROVE  BuildOf(u, x) = BuildAs(t, x)
    OBVIOUS
  <2>2. t # NullType
    BY DEF Declarable, DataType, NullType
  <2>3. u # NullType
    BY <2>1, <2>2 DEF BuildOf, Variant
  <2>4. BuildOf(u, x) = BuildAs(u, x)
    BY <2>3 DEF BuildOf
  <2>5. u = t
    BY <2>1, <2>4, BuiltOf, ZenonT(30)
  <2> QED
    BY <2>4, <2>5
<1>2. IsKnown(d)
  <2>1. ~IsKnown(d) => BuildVariant(v, d) = NoVariant
    BY DEF BuildVariant, IsKnown, DataType
  <2> QED
    BY <2>1 DEF NoVariant
<1>3. CASE d = "Variant" /\ v[1] = "carrier"
  <2>1. BuildVariant(v, d) = BuildOf(Resolve(v[2].type, v[2].value), v[2].value)
    BY <1>2, <1>3 DEF BuildVariant
  <2>2. Carried(v) = v[2].value
    BY <1>3 DEF Carried
  <2>3. ~IsValue(v)
    <3>1. v # Fraction
      BY <1>3, KindOfFraction
    <3> QED
      BY <1>3, <3>1 DEF IsValue, IsScalar, IsArray
  <2>4. IsMessageValue(v[2].value)
    BY <2>3 DEF IsMessageValue, IsCarrier
  <2> QED
    BY <1>1, <2>1, <2>2, <2>4
<1>4. CASE ~(d = "Variant" /\ v[1] = "carrier")
  <2>1. \E u : BuildVariant(v, d) = BuildOf(u, v)
    BY <1>2, <1>4 DEF BuildVariant
  <2>2. BuildVariant(v, d) = BuildAs(t, v)
    BY <1>1, <2>1
  <2>3. v[1] # "carrier"
    BY <2>2, CarriersAreRefused
  <2> QED
    BY <2>2, <2>3 DEF Carried
<1> QED
  BY <1>3, <1>4

-----------------------------------------------------------------------------
(* An address space in which every variable has what was asked for.         *)

IsNode(node) ==
  node = [class |-> node.class, parent |-> node.parent, type |-> node.type, value |-> node.value,
          asked |-> node.asked, writable |-> node.writable, bound |-> node.bound]

VariableOK(node) ==
  node.class = "variable" => node.type \in Declarable /\ (node.asked # Missing => HasWhatWasAsked(node))

SpaceOK(sp) ==
  /\ ObjectsFolder \in DOMAIN sp /\ NoId \notin DOMAIN sp
  /\ sp[ObjectsFolder].class = "folder" /\ sp[ObjectsFolder].parent = NoId
  /\ \A id \in DOMAIN sp : IsNode(sp[id]) /\ VariableOK(sp[id])

(* A new node has the class and the parent it is made with.                 *)
LEMMA NodesAreNodes ==
  ASSUME NEW class, NEW parent
  PROVE  /\ IsNode(Node(class, parent))
         /\ Node(class, parent).class = class /\ Node(class, parent).parent = parent
BY DEF IsNode, Node

(* The address space of a server that has just started.                     *)
LEMMA StandardSpaceOK == SpaceOK(StandardSpace)
<1>1. StandardSpace = [i \in {ObjectsFolder} |-> Node("folder", NoId)]
  BY DEF StandardSpace
<1>2. DOMAIN StandardSpace = {ObjectsFolder} /\ StandardSpace[ObjectsFolder] = Node("folder", NoId)
  BY <1>1
<1> QED
  BY <1>2, NodesAreNodes, IdsAssumption DEF SpaceOK, VariableOK

(* A node that is added is the only change.                                 *)
LEMMA PutKeeps ==
  ASSUME NEW sp, SpaceOK(sp), NEW msg \in Commands, IsFree(sp, msg),
         NEW node, IsNode(node), VariableOK(node)
  PROVE  SpaceOK(Put(sp, ChosenId(sp, msg), node))
<1> DEFINE id == ChosenId(sp, msg)
<1>1. id \notin DOMAIN sp /\ id # NoId
  <2>1. CASE msg.nodeId # NoId
    BY <2>1 DEF IsFree, ChosenId
  <2>2. CASE msg.nodeId = NoId
    <3>1. \E i \in Ids : i \notin DOMAIN sp
      BY <2>2 DEF IsFree
    <3>2. id \in Ids /\ id \notin DOMAIN sp
      BY <2>2, <3>1 DEF ChosenId
    <3> QED
      BY <3>2, IdsAssumption
  <2> QED
    BY <2>1, <2>2
<1> HIDE DEF id
<1>2. PICK new : new = Put(sp, id, node)
  OBVIOUS
<1>3. new = [i \in DOMAIN sp \cup {id} |-> IF i = id THEN node ELSE sp[i]]
  BY <1>2 DEF Put
<1> QED
  BY <1>1, <1>2, <1>3 DEF SpaceOK, id

(* A changed node that stays a node of its class, below the same parent.    *)
LEMMA ChangeKeeps ==
  ASSUME NEW sp, SpaceOK(sp), NEW id \in DOMAIN sp, NEW node, IsNode(node), VariableOK(node),
         node.class = sp[id].class, node.parent = sp[id].parent
  PROVE  SpaceOK([sp EXCEPT ![id] = node])
BY DEF SpaceOK

(* A deletion leaves the standard folder.                                   *)
LEMMA DeletionKeeps ==
  ASSUME NEW sp, SpaceOK(sp), NEW id, InNamespace(sp, id)
  PROVE  SpaceOK(Without(sp, Below(sp, id)))
<1> DEFINE others == DOMAIN sp \ {ObjectsFolder}
           gone == Below(sp, id)
<1>1. id \in others /\ others \in SUBSET DOMAIN sp /\ ObjectsFolder \notin others
  BY DEF InNamespace
<1>2. \A i \in DOMAIN sp : sp[i].parent \in others => i \in others
  BY DEF SpaceOK
<1>3. ObjectsFolder \notin gone
  BY <1>1, <1>2 DEF Below
<1> HIDE DEF gone
<1>4. Without(sp, gone) = [i \in DOMAIN sp \ gone |-> sp[i]]
  BY DEF Without
<1>5. SpaceOK(Without(sp, gone))
  BY <1>3, <1>4 DEF SpaceOK
<1> QED
  BY <1>5 DEF gone

(* A variable of no declared type is a Double.                              *)
LEMMA DefaultsAreKnown ==
  ASSUME NEW d
  PROVE  /\ Type(d, "Double") \in DataType \cup {AutoType} => Type(d, "Double") \in DataType
         /\ d # "Variant" => Type(d, "Double") # "Variant"
BY DEF Type, DataType, AutoType

(* Every handler leaves an address space of this kind.                      *)
LEMMA HandlersKeep ==
  ASSUME NEW sp, SpaceOK(sp), NEW msg \in Commands
  PROVE  SpaceOK(Handle(sp, msg).space)
<1>0. IsCommand(msg)
  BY CommandsAssumption
<1>1. Failed(sp).space = sp /\ Good(sp).space = sp /\ \A x : Good(x).space = x /\ Failed(x).space = x
  BY DEF Failed, Good
<1>2. ASSUME NEW class, NEW parent, class # "variable", IsFree(sp, msg)
      PROVE  SpaceOK(Put(sp, ChosenId(sp, msg), Node(class, parent)))
  BY <1>2, NodesAreNodes, PutKeeps DEF VariableOK
<1>3. SpaceOK(HandleAddFolder(sp, msg).space)
  BY <1>1, <1>2 DEF HandleAddFolder
<1>4. SpaceOK(HandleAddObject(sp, msg).space)
  BY <1>1, <1>2 DEF HandleAddObject
<1>5. SpaceOK(HandleAddMethod(sp, msg).space)
  <2>1. PICK method : method = [Node("method", msg.parentNodeId) EXCEPT !.bound = Binds(msg.func)]
    OBVIOUS
  <2>2. IsNode(method) /\ VariableOK(method)
    BY <2>1 DEF IsNode, Node, VariableOK
  <2>3. IsFree(sp, msg) => SpaceOK(Put(sp, ChosenId(sp, msg), method))
    BY <2>2, PutKeeps
  <2> QED
    BY <1>1, <2>1, <2>3 DEF HandleAddMethod
<1>6. ASSUME msg.command = "addVariable"
      PROVE  SpaceOK(HandleAddVariable(sp, msg).space)
  <2>1. PICK t : t = Type(msg.datatype, "Double")
    OBVIOUS
  <2>2. PICK variant : variant = InitialVariant(t, msg.value)
    OBVIOUS
  <2>3. PICK node : node = [Node("variable", ParentOf(msg)) EXCEPT
                              !.type = t, !.value = variant, !.asked = msg.value]
    OBVIOUS
  <2>4. /\ IsNode(node)
        /\ node.type = t /\ node.value = variant /\ node.asked = msg.value
    BY <2>3 DEF IsNode, Node
  <2>5. ASSUME IsKnown(t), variant.ok
        PROVE  VariableOK(node)
    <3>1. t \in Declarable
      BY <1>0, <1>6, <2>1, <2>5, DefaultsAreKnown DEF IsKnown, IsCommand, Declarable
    <3>2. ASSUME msg.value # Missing
          PROVE  HasWhatWasAsked(node)
      <4>1. IsMessageValue(msg.value)
        BY <1>0, <3>2 DEF IsCommand
      <4>2. variant = BuildVariant(msg.value, t)
        BY <2>2, <3>2 DEF InitialVariant
      <4>3. t # "Variant" /\ t # AutoType /\ t # NullType
        BY <3>1 DEF Declarable, DataType, AutoType, NullType
      <4>4. variant = BuildAs(t, msg.value)
        BY <2>5, <4>2, <4>3 DEF BuildVariant, BuildOf, Resolve
      <4>5. variant.type = t
        BY <2>5, <4>4, BuiltOf
      <4>6. BuildAs(t, Carried(msg.value)).ok /\ variant = BuildAs(t, Carried(msg.value))
            /\ IsMessageValue(Carried(msg.value))
        BY <2>5, <3>1, <4>1, <4>2, <4>5, TakenIsAsked
      <4> QED
        BY <2>4, <3>1, <4>6, BuiltIsAsked
    <3> QED
      BY <2>4, <3>1, <3>2 DEF VariableOK
  <2>6. IsFree(sp, msg) /\ IsKnown(t) /\ variant.ok => SpaceOK(Put(sp, ChosenId(sp, msg), node))
    BY <2>4, <2>5, PutKeeps
  <2>7. \/ HandleAddVariable(sp, msg) = Failed(sp)
        \/ /\ IsFree(sp, msg) /\ IsKnown(t) /\ variant.ok
           /\ HandleAddVariable(sp, msg) = Good(Put(sp, ChosenId(sp, msg), node))
    BY <2>1, <2>2, <2>3 DEF HandleAddVariable
  <2> QED
    BY <1>1, <2>6, <2>7
<1>7. SpaceOK(HandleSetValue(sp, msg).space)
  <2> DEFINE id == msg.nodeId
  <2>1. PICK variant : variant = BuildVariant(msg.value, ResolveSetValueDataType(sp[id], msg))
    OBVIOUS
  <2>2. CASE id # NoId /\ msg.value # Missing /\ InNamespace(sp, id) /\ Takes(sp[id], variant)
    <3>1. id \in DOMAIN sp /\ sp[id].class = "variable" /\ variant.ok /\ variant.type = sp[id].type
      BY <2>2 DEF InNamespace, Takes
    <3>2. IsNode(sp[id]) /\ sp[id].type \in Declarable
      BY <3>1 DEF SpaceOK, VariableOK
    <3>3. PICK node : node = [sp[id] EXCEPT !.value = variant, !.asked = msg.value]
      OBVIOUS
    <3>4. /\ IsNode(node) /\ node.class = sp[id].class /\ node.parent = sp[id].parent
          /\ node.type = sp[id].type /\ node.value = variant /\ node.asked = msg.value
      BY <3>2, <3>3 DEF IsNode
    <3>5. IsMessageValue(msg.value)
      BY <1>0, <2>2 DEF IsCommand
    <3>6. BuildAs(sp[id].type, Carried(msg.value)).ok /\ variant = BuildAs(sp[id].type, Carried(msg.value))
          /\ IsMessageValue(Carried(msg.value))
      BY <2>1, <3>1, <3>2, <3>5, TakenIsAsked
    <3>7. HasWhatWasAsked(node)
      BY <3>2, <3>4, <3>6, BuiltIsAsked
    <3>8. SpaceOK([sp EXCEPT ![id] = node])
      BY <3>1, <3>2, <3>4, <3>7, ChangeKeeps DEF VariableOK
    <3>9. HandleSetValue(sp, msg) = Good([sp EXCEPT ![id] = node])
      BY <2>1, <2>2, <3>1, <3>3 DEF HandleSetValue
    <3> QED
      BY <1>1, <3>8, <3>9
  <2>3. CASE ~(id # NoId /\ msg.value # Missing /\ InNamespace(sp, id) /\ Takes(sp[id], variant))
    BY <1>1, <2>1, <2>3 DEF HandleSetValue
  <2> QED
    BY <2>2, <2>3
<1>8. SpaceOK(HandleDeleteNode(sp, msg).space)
  BY <1>1, DeletionKeeps DEF HandleDeleteNode
<1>9. SpaceOK(HandleSetWritable(sp, msg).space)
  <2> DEFINE id == msg.nodeId
  <2>1. CASE id # NoId /\ InAddressSpace(sp, id)
    <3>1. PICK node : node = [sp[id] EXCEPT !.writable = TRUE]
      OBVIOUS
    <3>2. id \in DOMAIN sp /\ IsNode(sp[id]) /\ VariableOK(sp[id])
      BY <2>1 DEF InAddressSpace, SpaceOK
    <3>3. /\ IsNode(node) /\ node.class = sp[id].class /\ node.parent = sp[id].parent
          /\ node.type = sp[id].type /\ node.value = sp[id].value /\ node.asked = sp[id].asked
      BY <3>1, <3>2 DEF IsNode
    <3>4. VariableOK(node)
      BY <3>2, <3>3 DEF VariableOK, HasWhatWasAsked
    <3>5. HandleSetWritable(sp, msg) = Good([sp EXCEPT ![id] = node])
      BY <2>1, <3>1, <3>2 DEF HandleSetWritable
    <3> QED
      BY <1>1, <3>2, <3>3, <3>4, <3>5, ChangeKeeps
  <2>2. CASE ~(id # NoId /\ InAddressSpace(sp, id))
    BY <1>1, <2>2 DEF HandleSetWritable
  <2> QED
    BY <2>1, <2>2
<1>10. SpaceOK(HandleRaiseEvent(sp, msg).space)
  BY <1>1 DEF HandleRaiseEvent
<1> QED
  BY <1>1, <1>3, <1>4, <1>5, <1>6, <1>7, <1>8, <1>9, <1>10 DEF Handle

(* Every server's address space is of this kind; only commands change it.   *)
SpacesOK == DOMAIN space = Servers /\ \A s \in Servers : SpaceOK(space[s])

(* A step keeps every address space of this kind.                           *)
LEMMA SpacesStayOK == SpacesOK /\ [Next]_vars => SpacesOK'
<1>1. SUFFICES ASSUME SpacesOK, [Next]_vars
               PROVE  SpacesOK'
  OBVIOUS
<1>2. CASE UNCHANGED space
  BY <1>1, <1>2 DEF SpacesOK
<1>3. ASSUME NEW s \in Servers, Input(s)
      PROVE  SpacesOK'
  <2>1. PICK msg \in Commands : space' = [space EXCEPT ![s] = Handle(space[s], msg).space]
    BY <1>3 DEF Input
  <2>2. SpaceOK(Handle(space[s], msg).space)
    BY <1>1, HandlersKeep DEF SpacesOK
  <2>3. DOMAIN space' = Servers
    BY <1>1, <2>1 DEF SpacesOK
  <2>4. PICK sp : sp = Handle(space[s], msg).space
    OBVIOUS
  <2>5. \A r \in Servers : space'[r] = IF r = s THEN sp ELSE space[r]
    BY <1>1, <2>1, <2>4 DEF SpacesOK
  <2>6. \A r \in Servers : SpaceOK(space'[r])
    BY <1>1, <2>2, <2>4, <2>5 DEF SpacesOK
  <2> QED
    BY <2>3, <2>6 DEF SpacesOK
<1>4. UNCHANGED space \/ \E s \in Servers : Input(s)
  <2>1. ASSUME NEW s \in Servers, Deploy(s) \/ Close(s) \/ Goes(s)
        PROVE  UNCHANGED space
    BY <2>1 DEF Deploy, Close, Goes, Prepared, Starts, StartFails, Withdraw, CloseResumes, ShutDown
  <2>2. Queue => UNCHANGED space
    BY DEF Queue
  <2> QED
    BY <1>1, <2>1, <2>2 DEF Next, vars
<1> QED
  BY <1>2, <1>3, <1>4

(* The address spaces of every run of the servers.                          *)
THEOREM SpacesAlwaysOK == Spec => []SpacesOK
<1>1. Init => SpacesOK
  BY StandardSpaceOK DEF Init, SpacesOK
<1> QED
  BY <1>1, SpacesStayOK, PTL DEF Spec

(* Whatever values of whatever types the commands have, a variable that was *)
(* asked to have a value has what the value stands for, element by element. *)
THEOREM NothingElseIsWritten == Spec => []NeverSomethingElse
<1>1. SpacesOK => NeverSomethingElse
  BY DEF SpacesOK, SpaceOK, VariableOK, NeverSomethingElse, Variables
<1> QED
  BY <1>1, SpacesAlwaysOK, PTL

-----------------------------------------------------------------------------
(* What is built is all that fits.                                          *)

(* The forms of a scalar that are arrays are values of their type exactly   *)
(* when they are what it has bytes, or halves, of.                          *)
LEMMA FitsIsBuilt ==
  ASSUME NEW t \in Declarable, NEW v, IsMessageValue(v)
  PROVE  BuildAs(t, v).ok <=> Fits(t, v)
<1> DEFINE Stood(x) == StandsFor(t, x, CoerceScalar(t, x))
<1>1. Fits(t, v) <=> Stood(v) \/ (IsArray(v) /\ \A i \in DOMAIN v[2] : Stood(v[2][i]))
  BY DEF Fits, All, ToSet
<1>2. Stood(v) <=> Accepts(t, CoerceScalar(t, v))
  BY TakesWhatItStandsFor
<1>3. ASSUME IsArray(v)
      PROVE  \A i \in DOMAIN v[2] : Stood(v[2][i]) <=> Accepts(t, CoerceScalar(t, v[2][i]))
  BY <1>3, ArraysOfScalars, TakesWhatItStandsFor DEF IsMessageValue
<1>4. CASE AsArray(t, v)
  <2>1. BuildAs(t, v).ok <=> \A i \in DOMAIN v[2] : Stood(v[2][i])
    BY <1>3, <1>4, BuiltOf DEF AsArray
  <2>2. ~Stood(v)
    <3>1. CASE t = "ByteString"
      <4>1. Stood(v) => All(v, IsByte)
        BY <1>4, <3>1 DEF StandsFor, AsArray, IsArray
      <4>2. All(v, IsByte) => All(v, IsNumber)
        BY DEF All, IsByte, IsNumber
      <4> QED
        BY <1>4, <3>1, <4>1, <4>2 DEF AsArray, IsScalarArrayForm
    <3>2. CASE t = "Int64"
      BY <1>4, <3>2 DEF StandsFor, AsArray, IsScalarArrayForm, IsLong, IsNumeral, IsArray
    <3>3. CASE t \in Declarable \ {"ByteString", "Int64"}
      <4>1. v[1] = "array"
        BY <1>4 DEF AsArray, IsArray
      <4>2. v # Fraction
        BY <4>1, KindOfFraction
      <4>3. v \notin {Num(1), Str("1"), Str("true")} /\ v \notin {Num(0), Str("0"), Str("false")}
            /\ v \notin {<<"nodeid", "id">>, <<"parsed", "id">>, Str("id")}
        BY <4>1, PairsDiffer DEF Num, Str
      <4> QED
        BY <3>3, <4>1, <4>2, <4>3 DEF StandsFor, IsNumeral, IsNumber, Declarable, DataType
    <3> QED
      BY <3>1, <3>2, <3>3
  <2> QED
    BY <1>1, <1>4, <2>1, <2>2 DEF AsArray
<1>5. CASE ~AsArray(t, v)
  <2>1. BuildAs(t, v).ok <=> Stood(v)
    BY <1>2, <1>5, BuiltOf
  <2>2. ASSUME IsArray(v), \A i \in DOMAIN v[2] : Stood(v[2][i])
        PROVE  Stood(v)
    <3>1. CASE t = "ByteString" /\ All(v, IsNumber)
      <4>1. \A i \in DOMAIN v[2] : IsNumber(v[2][i])
        BY <3>1 DEF All, ToSet
      <4>2. \A i \in DOMAIN v[2] : ~Stood(v[2][i])
        BY <3>1, <4>1 DEF StandsFor, IsNumber, IsArray
      <4>3. DOMAIN v[2] = {}
        BY <2>2, <4>2
      <4>4. All(v, IsByte)
        BY <4>3 DEF All, ToSet
      <4>5. CoerceScalar(t, v) = Buf(ToString(v[2]))
        BY <2>2, <3>1, <4>4 DEF CoerceScalar, ToByteString, IsArray
      <4> QED
        BY <2>2, <3>1, <4>4, <4>5 DEF StandsFor
    <3>2. CASE t = "Int64" /\ Len(v[2]) = 2 /\ All(v, IsInteger)
      BY <2>2, <3>2 DEF StandsFor, CoerceScalar, ToLong, IsLong, IsNumeral, IsArray
    <3> QED
      BY <1>5, <2>2, <3>1, <3>2 DEF AsArray, IsScalarArrayForm
  <2> QED
    BY <1>1, <2>1, <2>2
<1> QED
  BY <1>4, <1>5

(* A value of no explicit type is set on a variable, of whatever type,      *)
(* exactly when the type fits it.                                           *)
LEMMA SetIfItFits ==
  ASSUME NEW sp, SpaceOK(sp), NEW id \in Variables(sp), NEW msg \in Commands,
         msg.command = "setValue", msg.datatype = AutoType, msg.nodeId = id, msg.value # Missing
  PROVE  Handle(sp, msg).ok <=> Fits(sp[id].type, msg.value)
<1> DEFINE t == sp[id].type
<1>1. id \in DOMAIN sp /\ sp[id].class = "variable" /\ t \in Declarable
  BY DEF Variables, SpaceOK, VariableOK
<1>2. id # NoId /\ InNamespace(sp, id)
  BY <1>1 DEF SpaceOK, InNamespace
<1>3. IsMessageValue(msg.value)
  BY CommandsAssumption DEF IsCommand
<1>4. t # NullType /\ t # "Variant" /\ t # AutoType /\ IsKnown(t)
  BY <1>1 DEF Declarable, DataType, NullType, AutoType, IsKnown
<1>5. ResolveSetValueDataType(sp[id], msg) = t
  BY <1>4 DEF ResolveSetValueDataType, DeclaredType
<1>6. BuildVariant(msg.value, t) = BuildAs(t, msg.value)
  BY <1>4 DEF BuildVariant, BuildOf, Resolve
<1>7. Takes(sp[id], BuildAs(t, msg.value)) <=> BuildAs(t, msg.value).ok
  BY <1>1, BuiltOf DEF Takes
<1>8. Handle(sp, msg) = HandleSetValue(sp, msg)
  BY DEF Handle
<1>9. HandleSetValue(sp, msg).ok <=> Takes(sp[id], BuildAs(t, msg.value))
  BY <1>2, <1>5, <1>6 DEF HandleSetValue, Good, Failed
<1>10. BuildAs(t, msg.value).ok <=> Fits(t, msg.value)
  BY <1>1, <1>3, FitsIsBuilt
<1> QED
  BY <1>7, <1>8, <1>9, <1>10

THEOREM FittingValuesAreSet == Spec => []FittingValueIsSet
<1>1. SpacesOK => FittingValueIsSet
  BY SetIfItFits DEF SpacesOK, FittingValueIsSet
<1> QED
  BY <1>1, SpacesAlwaysOK, PTL

(* A method is all that a refused command may leave behind; the code has it *)
(* in the address space before its handler is made.                         *)
THEOREM OnlyMethodsAreLeft ==
  ASSUME NEW sp, NEW msg, msg.command # "addMethod" \/ Binds(msg.func), ~Handle(sp, msg).ok
  PROVE  Handle(sp, msg).space = sp
<1>1. \A x : Good(x).ok
  BY DEF Good
<1>2. Failed(sp).space = sp
  BY DEF Failed
<1>3. ASSUME NEW answer, ~answer.ok, answer = Failed(sp) \/ \E x : answer = Good(x)
      PROVE  answer.space = sp
  BY <1>1, <1>2, <1>3
<1>4. /\ HandleAddFolder(sp, msg) = Failed(sp) \/ \E x : HandleAddFolder(sp, msg) = Good(x)
      /\ HandleAddObject(sp, msg) = Failed(sp) \/ \E x : HandleAddObject(sp, msg) = Good(x)
      /\ HandleAddVariable(sp, msg) = Failed(sp) \/ \E x : HandleAddVariable(sp, msg) = Good(x)
      /\ HandleSetValue(sp, msg) = Failed(sp) \/ \E x : HandleSetValue(sp, msg) = Good(x)
      /\ HandleDeleteNode(sp, msg) = Failed(sp) \/ \E x : HandleDeleteNode(sp, msg) = Good(x)
      /\ HandleSetWritable(sp, msg) = Failed(sp) \/ \E x : HandleSetWritable(sp, msg) = Good(x)
      /\ HandleRaiseEvent(sp, msg) = Failed(sp) \/ \E x : HandleRaiseEvent(sp, msg) = Good(x)
  BY DEF HandleAddFolder, HandleAddObject, HandleAddVariable, HandleSetValue, HandleDeleteNode,
         HandleSetWritable, HandleRaiseEvent
<1>5. ASSUME msg.command = "addMethod"
      PROVE  HandleAddMethod(sp, msg) = Failed(sp) \/ \E x : HandleAddMethod(sp, msg) = Good(x)
  BY <1>5 DEF HandleAddMethod
<1>6. Handle(sp, msg) = Failed(sp) \/ \E x : Handle(sp, msg) = Good(x)
  BY <1>4, <1>5 DEF Handle
<1> QED
  BY <1>3, <1>6

=============================================================================

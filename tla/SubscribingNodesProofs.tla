----------------------- MODULE SubscribingNodesProofs -----------------------
(***************************************************************************)
(* What SubscribingNodes promises holds for all topics, messages and       *)
(* bounds.  Nothing that a property says is inductive: it is what the      *)
(* node, the session and the coroutines agree on while nothing is under    *)
(* way.  The invariant says what they agree on while something is:         *)
(* Situation lists what the node is doing when no two messages have        *)
(* overlapped, and every step leads from one of the situations to one.     *)
(***************************************************************************)
EXTENDS SubscribingNodes, FiniteSetTheorems, TLAPS

Stages == {"idle", "connecting", "ready", "creating", "endItems", "endSub"}
Idles(c) == pc[c] \in {"idle", "connecting", "ready"}
OthersIdle(c) == \A d \in Coroutines \ {c} : Idles(d)
Held(t) == \E h \in handles : h.topic = t
Browse == kind \in {"browseRead", "browseSubscribe"}

(* Where the coroutines can be, and what can be asked for.                  *)
Shape ==
  /\ kind \in {"client", "event", "browseRead", "browseSubscribe"}
  /\ node \in {"running", "closing", "closed"}
  /\ pc \in [Coroutines -> Stages]
  /\ DOMAIN request = Coroutines /\ DOMAIN own = Coroutines /\ DOMAIN ending = Coroutines
  /\ up \in BOOLEAN /\ ever \in BOOLEAN /\ clash \in BOOLEAN /\ failed \in BOOLEAN
  /\ pc["close"] = "idle" /\ pc["setup"] \in {"idle", "creating"}
  /\ pc["replay"] \in {"idle", "ready", "creating", "endItems"}
  /\ pc["replay"] = "endItems" => kind = "event" /\ request["replay"].op = "subscribe"
  /\ Browse => wanted \in {{}, Topics}
  /\ kind = "event" => wanted = {} \/ \E t : wanted = {t}

(* Before the first connection there is nothing to lose.                    *)
Unopened ==
  ~ever => /\ ~up /\ handles = {} /\ items = {} /\ subs = {} /\ sub = None
           /\ \A c \in Coroutines : pc[c] \in {"idle", "connecting"}
           /\ kind # "browseSubscribe" => wanted = {}

(* The client node has one item for a topic, however messages overlap: it   *)
(* holds every item that is alive, and looks among what it holds.           *)
ClientItems ==
  kind = "client" =>
    /\ \A i, j \in items : i.topic = j.topic => i = j
    /\ items \subseteq handles \/ (node = "closed" /\ Quiet)
    /\ \A c \in Coroutines : pc[c] = "endItems" =>
         ending[c] # {} /\ \A e \in ending[c] : e.topic = request[c].topic

(* The node holds all there is on the session.                              *)
Steady ==
  /\ subs = (IF sub = None THEN {} ELSE {sub})
  /\ items = handles /\ (sub = None => handles = {})
  /\ \A h, g \in handles : h.topic = g.topic => h = g

Empty == sub = None /\ handles = {} /\ items = {}

(* An item for the topic will be there, or the node must be asked again.    *)
ToCome(t) ==
  \/ kind = "client" /\ pc["replay"] \in {"ready", "creating"} /\ t \notin visited
  \/ kind = "event" /\ pc["replay"] = "ready"
  \/ kind = "browseSubscribe" /\ ~up /\ sub = None
  \/ kind = "browseRead" /\ sub = None

(* Nothing is under way, but for a replay between two topics.               *)
Resting ==
  /\ \A c \in Coroutines : Idles(c)
  /\ Steady
  /\ node # "running" => Settled
  /\ node = "closing" => own["close"] = sub /\ ending["close"] = handles
  /\ node = "closed" => sub = None
  /\ node = "running" => \A t \in wanted : Held(t) \/ ToCome(t)
  /\ kind # "browseSubscribe" => \A h \in handles : h.topic \in wanted
  /\ Browse /\ sub # None => \A t \in Topics : Held(t)
  /\ kind = "client" /\ sub # None => handles # {}

(* c waits for the subscription it is creating.                             *)
SetUp(c) ==
  /\ node = "running" /\ pc[c] = "creating" /\ OthersIdle(c)
  /\ Empty /\ subs = {own[c]} /\ own[c] # None
  /\ kind = "client" => /\ request[c].topic \in wanted
                        /\ \A t \in wanted : t = request[c].topic \/ ToCome(t)
  /\ kind = "event" => wanted = {request[c].topic}
  /\ kind = "browseRead" => wanted = Topics

(* c waits for its items to be terminated.                                  *)
ItemsGo(c) ==
  /\ node = "running" /\ pc[c] = "endItems" /\ OthersIdle(c)
  /\ Steady /\ sub # None /\ ending[c] # {}
  /\ IF kind = "client"
     THEN /\ own[c] = sub /\ request[c].topic \notin wanted
          /\ ending[c] = {h \in handles : h.topic = request[c].topic}
          /\ \A h \in handles : h.topic \in wanted \cup {request[c].topic}
          /\ \A t \in wanted : Held(t) \/ ToCome(t)
     ELSE /\ ending[c] = handles
          /\ wanted = IF kind = "event" /\ request[c].op = "subscribe" THEN {request[c].topic} ELSE {}

(* c waits for the subscription to be terminated.                           *)
SubGoes(c) ==
  /\ node = "running" /\ pc[c] = "endSub" /\ OthersIdle(c)
  /\ Steady /\ handles = {} /\ own[c] = sub /\ wanted = {} /\ sub # None
  /\ kind = "client" => pc["replay"] = "idle"

(* c waits for either while the session it was on has been replaced.        *)
Dropped(c) ==
  /\ node = "running" /\ pc[c] \in {"endItems", "endSub"} /\ Empty
  /\ pc[c] = "endItems" => ending[c] # {}
  /\ pc[c] = "endSub" => wanted = {}
  /\ \/ OthersIdle(c) /\ subs = {}
     \/ kind = "browseSubscribe" /\ \E d \in Coroutines \ {c} : pc[d] = "creating"

Situation ==
  \/ Resting
  \/ \E c \in Coroutines : SetUp(c) \/ ItemsGo(c) \/ SubGoes(c) \/ Dropped(c)

Good == ~clash /\ ~failed

IInv == Shape /\ Unopened /\ ClientItems /\ (Good => Situation)

-----------------------------------------------------------------------------
(* The coroutines, and what the operators of Subscriptions do.              *)

LEMMA NamesOfCoroutines ==
  /\ \A m \in Messages : m \in Coroutines /\ m # "replay" /\ m # "setup" /\ m # "close"
  /\ "replay" \in Coroutines /\ "setup" \in Coroutines /\ "close" \in Coroutines
  /\ \A c \in Coroutines : c \in Messages \/ c = "replay" \/ c = "setup" \/ c = "close"
<1>1. Messages \cap {"replay", "setup", "close"} = {}
  BY SubsAssumption
<1> QED
  BY <1>1 DEF Coroutines

(* A function whose value at c is replaced.                                 *)
LEMMA Replaced ==
  ASSUME NEW f, NEW g, NEW v, NEW c \in Coroutines, DOMAIN f = Coroutines, g = [f EXCEPT ![c] = v]
  PROVE  /\ DOMAIN g = Coroutines /\ g[c] = v
         /\ \A d \in Coroutines \ {c} : g[d] = f[d]
OBVIOUS

LEMMA GoesTo ==
  ASSUME Shape, NEW c \in Coroutines, NEW p \in Stages, Goes(c, p)
  PROVE  /\ pc' \in [Coroutines -> Stages] /\ pc'[c] = p
         /\ \A d \in Coroutines \ {c} : pc'[d] = pc[d]
BY DEF Shape, Goes

LEMMA EndsThere ==
  ASSUME Shape, NEW c \in Coroutines, Ends(c)
  PROVE  /\ pc' \in [Coroutines -> Stages] /\ pc'[c] = "idle"
         /\ DOMAIN request' = Coroutines /\ DOMAIN own' = Coroutines /\ DOMAIN ending' = Coroutines
         /\ ending'[c] = {}
         /\ \A d \in Coroutines \ {c} : /\ pc'[d] = pc[d] /\ request'[d] = request[d]
                                        /\ own'[d] = own[d] /\ ending'[d] = ending[d]
<1>1. "idle" \in Stages
  BY DEF Stages
<1>2. /\ pc' \in [Coroutines -> Stages] /\ pc'[c] = "idle"
      /\ \A d \in Coroutines \ {c} : pc'[d] = pc[d]
  BY <1>1, GoesTo DEF Ends
<1>3. DOMAIN request = Coroutines /\ DOMAIN own = Coroutines /\ DOMAIN ending = Coroutines
  BY DEF Shape
<1>4. DOMAIN request' = Coroutines /\ \A d \in Coroutines \ {c} : request'[d] = request[d]
  BY <1>3 DEF Ends
<1>5. DOMAIN own' = Coroutines /\ \A d \in Coroutines \ {c} : own'[d] = own[d]
  BY <1>3 DEF Ends
<1>6. DOMAIN ending' = Coroutines /\ ending'[c] = {} /\ \A d \in Coroutines \ {c} : ending'[d] = ending[d]
  BY <1>3 DEF Ends
<1> QED
  BY <1>2, <1>4, <1>5, <1>6

LEMMA NewSubIsNew == FreeSubs # {} => NewSub \in FreeSubs /\ NewSub # None
<1> DEFINE S == FreeSubs
<1>1. S \subseteq Nat
  BY SubsAssumption DEF FreeSubs
<1> HIDE DEF S
<1>2. ASSUME S # {} PROVE Min(S) \in S
  <2>1. PICK x \in S : \A y \in S : ~(<<y, x>> \in OpToRel(<, Nat))
    BY <1>1, <1>2, WFMin, NatLessThanWellFounded
  <2>2. \A y \in S : ~(y < x)
    BY <1>1, <2>1 DEF OpToRel
  <2>3. \A y \in S : x =< y
    BY <1>1, <2>2
  <2>4. Min(S) = CHOOSE z \in S : \A y \in S : z =< y
    BY DEF Min
  <2> QED
    BY <2>3, <2>4
<1> QED
  BY <1>1, <1>2, SubsAssumption DEF S, NewSub

(* A subscription that is being created.                                    *)
LEMMA CreatesOne ==
  ASSUME Shape, NEW c \in Coroutines, Creates(c)
  PROVE  /\ \E s : s # None /\ own'[c] = s /\ subs' = subs \cup {s}
         /\ DOMAIN own' = Coroutines /\ \A d \in Coroutines \ {c} : own'[d] = own[d]
         /\ pc' \in [Coroutines -> Stages] /\ pc'[c] = "creating"
         /\ \A d \in Coroutines \ {c} : pc'[d] = pc[d]
         /\ clash' = (clash \/ Clashes(c))
<1>1. "creating" \in Stages
  BY DEF Stages
<1>2. /\ pc' \in [Coroutines -> Stages] /\ pc'[c] = "creating"
      /\ \A d \in Coroutines \ {c} : pc'[d] = pc[d]
  BY <1>1, GoesTo DEF Creates
<1>3. DOMAIN own = Coroutines
  BY DEF Shape
<1>4. own'[c] = NewSub /\ DOMAIN own' = Coroutines /\ \A d \in Coroutines \ {c} : own'[d] = own[d]
  BY <1>3 DEF Creates
<1> QED
  BY <1>2, <1>4, NewSubIsNew DEF Creates

(* An item that is added.                                                   *)
LEMMA AddsOne ==
  ASSUME NEW s, NEW t, Add(s, t)
  PROVE  \/ Held(t) /\ handles' = handles /\ items' = items
         \/ ~Held(t) /\ \E i : /\ i.topic = t /\ handles' = handles \cup {i}
                               /\ items' = IF s \in subs THEN items \cup {i} ELSE items
<1>1. NewItem(s, t).topic = t
  BY DEF NewItem
<1>2. CASE Has(t)
  BY <1>2 DEF Add, Has, Held
<1>3. CASE ~Has(t)
  <2> DEFINE i == NewItem(s, t)
  <2>1. Created(s, {t}) = IF s \in subs THEN {i} ELSE {}
    BY DEF Created
  <2>2. handles' = handles \cup {i} /\ items' = items \cup Created(s, {t})
    BY <1>3 DEF Add
  <2>3. i.topic = t
    BY <1>1
  <2> HIDE DEF i
  <2>4. items' = IF s \in subs THEN items \cup {i} ELSE items
    BY <2>1, <2>2
  <2> QED
    BY <1>3, <2>2, <2>3, <2>4 DEF Has, Held
<1> QED
  BY <1>2, <1>3

(* The item of an event node.                                               *)
LEMMA CreatesItem ==
  ASSUME NEW s, NEW t, s # None, CreateItem(s, t)
  PROVE  \E i : /\ i.topic = t /\ handles' = {i}
                /\ items' = IF s \in subs THEN items \cup {i} ELSE items
<1> DEFINE i == NewItem(s, t)
<1>1. i.topic = t
  BY DEF NewItem
<1>2. Created(s, {t}) = IF s \in subs THEN {i} ELSE {}
  BY DEF Created
<1>3. handles' = {i} /\ items' = items \cup Created(s, {t})
  BY DEF CreateItem
<1> HIDE DEF i
<1>4. items' = IF s \in subs THEN items \cup {i} ELSE items
  BY <1>2, <1>3
<1> QED
  BY <1>1, <1>3, <1>4

-----------------------------------------------------------------------------
(* What a situation says to a coroutine that goes on.                       *)

(* One that is ready and finds no other one finds everything at rest.       *)
LEMMA ReadyRests ==
  ASSUME Situation, NEW c \in Coroutines, pc[c] = "ready", ~Clashes(c)
  PROVE  Resting /\ node = "running"
<1>1. \A d \in Coroutines \ {c} : pc[d] \notin {"creating", "endItems", "endSub"}
  BY DEF Clashes
<1>2. \A d \in Coroutines : pc[d] \notin {"creating", "endItems", "endSub"}
  BY <1>1
<1>3. Resting
  BY <1>2 DEF Situation, SetUp, ItemsGo, SubGoes, Dropped
<1>4. ~Settled
  BY DEF Settled
<1> QED
  BY <1>3, <1>4 DEF Resting

LEMMA CreatingSetsUp ==
  ASSUME Situation, NEW c \in Coroutines, pc[c] = "creating", ~Clashes(c) \/ ~Browse, Shape
  PROVE  SetUp(c)
<1>1. ~Resting
  BY DEF Resting, Idles
<1>2. \A d \in Coroutines : SetUp(d) => d = c
  BY DEF SetUp, OthersIdle, Idles
<1>3. \A d \in Coroutines : ~ItemsGo(d)
  BY DEF ItemsGo, OthersIdle, Idles
<1>4. \A d \in Coroutines : ~SubGoes(d)
  BY DEF SubGoes, OthersIdle, Idles
<1>5. \A d \in Coroutines : ~Dropped(d)
  BY DEF Dropped, OthersIdle, Idles, Clashes, Browse
<1> QED
  BY <1>1, <1>2, <1>3, <1>4, <1>5 DEF Situation

LEMMA DroppedQuiet ==
  ASSUME NEW c \in Coroutines, Dropped(c), Quiet
  PROVE  OthersIdle(c) /\ subs = {}
BY DEF Dropped, Quiet

LEMMA ItemsAwaited ==
  ASSUME Situation, Quiet, NEW c \in Coroutines, pc[c] = "endItems"
  PROVE  ItemsGo(c) \/ Dropped(c)
<1>1. ~Resting
  BY DEF Resting, Idles
<1>2. \A d \in Coroutines : ~SetUp(d)
  BY DEF SetUp, Quiet
<1>3. \A d \in Coroutines : ItemsGo(d) => d = c
  BY DEF ItemsGo, OthersIdle, Idles
<1>4. \A d \in Coroutines : ~SubGoes(d)
  BY DEF SubGoes, OthersIdle, Idles
<1>5. \A d \in Coroutines : Dropped(d) => d = c
  BY DroppedQuiet DEF OthersIdle, Idles
<1> QED
  BY <1>1, <1>2, <1>3, <1>4, <1>5 DEF Situation

LEMMA SubAwaited ==
  ASSUME Situation, Quiet, NEW c \in Coroutines, pc[c] = "endSub"
  PROVE  SubGoes(c) \/ Dropped(c)
<1>1. ~Resting
  BY DEF Resting, Idles
<1>2. \A d \in Coroutines : ~SetUp(d)
  BY DEF SetUp, Quiet
<1>3. \A d \in Coroutines : ~ItemsGo(d)
  BY DEF ItemsGo, OthersIdle, Idles
<1>4. \A d \in Coroutines : SubGoes(d) => d = c
  BY DEF SubGoes, OthersIdle, Idles
<1>5. \A d \in Coroutines : Dropped(d) => d = c
  BY DroppedQuiet DEF OthersIdle, Idles
<1> QED
  BY <1>1, <1>2, <1>3, <1>4, <1>5 DEF Situation

(* Whatever goes on has been connected before.                              *)
LEMMA Opened ==
  ASSUME Shape, Unopened, NEW c \in Coroutines, pc[c] \notin {"idle", "connecting"}
  PROVE  ever
BY DEF Unopened, Shape

(* A step that leaves ever alone keeps the shape, if the coroutine it is of *)
(* goes where it can go.                                                    *)
LEMMA Reshaped ==
  ASSUME Shape, NEW c \in Coroutines, UNCHANGED <<kind, node, up, ever>>,
         clash' \in BOOLEAN, failed' \in BOOLEAN,
         pc' \in [Coroutines -> Stages],
         \A d \in Coroutines \ {c} : pc'[d] = pc[d] /\ request'[d] = request[d],
         DOMAIN request' = Coroutines, DOMAIN own' = Coroutines, DOMAIN ending' = Coroutines,
         c = "close" => pc'[c] = "idle",
         c = "setup" => pc'[c] \in {"idle", "creating"},
         c = "replay" => pc'[c] \in {"idle", "ready", "creating"}
                         \/ (pc'[c] = "endItems" /\ kind = "event" /\ request'[c].op = "subscribe"),
         Browse => wanted' \in {{}, Topics},
         kind = "event" => wanted' = {} \/ \E t : wanted' = {t}
  PROVE  Shape'
<1>1. "replay" \in Coroutines /\ "setup" \in Coroutines /\ "close" \in Coroutines
  BY NamesOfCoroutines
<1>2. pc'["close"] = "idle"
  BY <1>1 DEF Shape
<1>3. pc'["setup"] \in {"idle", "creating"}
  BY <1>1 DEF Shape
<1>4. /\ pc'["replay"] \in {"idle", "ready", "creating", "endItems"}
      /\ pc'["replay"] = "endItems" => kind = "event" /\ request'["replay"].op = "subscribe"
  <2>1. CASE c = "replay"
    BY <2>1
  <2>2. CASE c # "replay"
    BY <1>1, <2>2 DEF Shape
  <2> QED
    BY <2>1, <2>2
<1> QED
  BY <1>2, <1>3, <1>4 DEF Shape, Browse

LEMMA StillOpened ==
  ASSUME Shape, Unopened, NEW c \in Coroutines, pc[c] \notin {"idle", "connecting"}, ever' = ever
  PROVE  ever /\ Unopened'
BY Opened DEF Unopened

-----------------------------------------------------------------------------
(* The client node.                                                         *)

LEMMA ClientSubscribes ==
  ASSUME IInv, NEW m \in Messages, kind = "client", ClientSubscribe(m)
  PROVE  IInv'
<1> USE DEF IInv
<1>1. m \in Coroutines /\ m # "replay" /\ m # "setup" /\ m # "close" /\ "replay" \in Coroutines
  BY NamesOfCoroutines
<1>2. /\ pc[m] = "ready" /\ wanted' = wanted \cup {request[m].topic}
      /\ UNCHANGED <<kind, node, sub, visited, up, ever, failed>>
      /\ DOMAIN request = Coroutines /\ DOMAIN own = Coroutines /\ DOMAIN ending = Coroutines
  BY DEF ClientSubscribe, Shape
<1>3. CASE sub = None
  <2>1. Creates(m) /\ UNCHANGED <<handles, items, request, ending>>
    BY <1>3 DEF ClientSubscribe
  <2>2. PICK s : s # None /\ own'[m] = s /\ subs' = subs \cup {s}
    BY <1>1, <2>1, CreatesOne
  <2>3. /\ DOMAIN own' = Coroutines /\ \A d \in Coroutines \ {m} : own'[d] = own[d]
        /\ pc' \in [Coroutines -> Stages] /\ pc'[m] = "creating"
        /\ \A d \in Coroutines \ {m} : pc'[d] = pc[d]
        /\ clash' = (clash \/ Clashes(m))
    BY <1>1, <2>1, CreatesOne
  <2>4. Shape'
    BY <1>1, <1>2, <2>1, <2>3, Reshaped DEF Shape, Browse
  <2>5. Unopened'
    BY <1>1, <1>2, StillOpened
  <2>6. ClientItems'
    <3>1. ~Quiet
      BY <1>1, <1>2 DEF Quiet
    <3> QED
      BY <1>1, <1>2, <2>1, <2>3, <3>1 DEF ClientItems
  <2>7. ASSUME Good' PROVE SetUp(m)'
    <3>1. Good /\ ~Clashes(m)
      BY <1>2, <2>3, <2>7 DEF Good, Shape
    <3>2. Resting /\ node = "running"
      BY <1>1, <1>2, <3>1, ReadyRests
    <3>3. Empty' /\ subs' = {own[m]}'
      BY <1>2, <1>3, <2>1, <2>2, <3>2 DEF Resting, Steady, Empty
    <3>4. OthersIdle(m)'
      BY <2>3, <3>2 DEF OthersIdle, Resting, Idles
    <3>5. \A t \in wanted : ToCome(t)
      BY <1>3, <3>2 DEF Resting, Steady, Held
    <3>6. \A t \in wanted : ToCome(t)'
      BY <1>1, <1>2, <2>3, <3>5 DEF ToCome
    <3> QED
      BY <1>1, <1>2, <2>1, <2>2, <2>3, <3>2, <3>3, <3>4, <3>6 DEF SetUp
  <2> QED
    BY <1>1, <2>4, <2>5, <2>6, <2>7 DEF Situation
<1>4. CASE sub # None
  <2>0. PICK t : t = request[m].topic
    OBVIOUS
  <2>1. Add(sub, t) /\ Ends(m) /\ clash' = (clash \/ Clashes(m)) /\ UNCHANGED subs
    BY <1>4, <2>0 DEF ClientSubscribe
  <2>2. /\ pc' \in [Coroutines -> Stages] /\ pc'[m] = "idle"
        /\ DOMAIN request' = Coroutines /\ DOMAIN own' = Coroutines /\ DOMAIN ending' = Coroutines
        /\ \A d \in Coroutines \ {m} : /\ pc'[d] = pc[d] /\ request'[d] = request[d]
                                        /\ own'[d] = own[d] /\ ending'[d] = ending[d]
    BY <1>1, <2>1, EndsThere
  <2>3. \/ Held(t) /\ handles' = handles /\ items' = items
        \/ ~Held(t) /\ \E i : /\ i.topic = t /\ handles' = handles \cup {i}
                              /\ items' = IF sub \in subs THEN items \cup {i} ELSE items
    BY <2>1, AddsOne
  <2>4. Shape'
    BY <1>1, <1>2, <2>1, <2>2, Reshaped DEF Shape, Browse
  <2>5. Unopened'
    BY <1>1, <1>2, StillOpened
  <2>6. ClientItems'
    <3>1. ~Quiet
      BY <1>1, <1>2 DEF Quiet
    <3>2. items \subseteq handles /\ \A i, j \in items : i.topic = j.topic => i = j
      BY <3>1 DEF ClientItems
    <3>3. items' \subseteq handles' /\ \A i, j \in items' : i.topic = j.topic => i = j
      BY <2>3, <3>2 DEF Held
    <3>4. \A c \in Coroutines : pc'[c] = "endItems" =>
            ending'[c] # {} /\ \A e \in ending'[c] : e.topic = request'[c].topic
      BY <2>2 DEF ClientItems
    <3> QED
      BY <3>3, <3>4 DEF ClientItems
  <2>7. ASSUME Good' PROVE Resting'
    <3>1. Good /\ ~Clashes(m)
      BY <1>2, <2>1, <2>7 DEF Good, Shape
    <3>2. Resting /\ node = "running"
      BY <1>1, <1>2, <3>1, ReadyRests
    <3>3. \A d \in Coroutines : Idles(d)'
      BY <2>2, <3>2 DEF Resting, Idles
    <3>4. /\ Steady' /\ Held(t)' /\ handles \subseteq handles'
          /\ \A h \in handles' : h \in handles \/ h.topic = t
      <4>1. subs = {sub} /\ items = handles /\ \A h, g \in handles : h.topic = g.topic => h = g
        BY <1>4, <3>2 DEF Resting, Steady
      <4>2. CASE Held(t)
        BY <1>2, <1>4, <2>1, <2>3, <4>1, <4>2 DEF Steady, Held
      <4>3. CASE ~Held(t)
        <5>1. PICK i : i.topic = t /\ handles' = handles \cup {i} /\ items' = items \cup {i}
          BY <2>3, <4>1, <4>3
        <5>2. \A h, g \in handles' : h.topic = g.topic => h = g
          BY <4>1, <4>3, <5>1 DEF Held
        <5>3. Steady'
          BY <1>2, <1>4, <2>1, <4>1, <5>1, <5>2 DEF Steady
        <5> QED
          BY <5>1, <5>3 DEF Held
      <4> QED
        BY <4>2, <4>3
    <3>5. \A w \in wanted' : Held(w)' \/ ToCome(w)'
      <4>1. \A w \in wanted : Held(w) \/ ToCome(w)
        BY <3>2 DEF Resting
      <4>2. \A w \in wanted : Held(w) => Held(w)'
        BY <3>4 DEF Held
      <4>3. \A w \in wanted : ToCome(w) => ToCome(w)'
        BY <1>1, <1>2, <2>2 DEF ToCome
      <4>4. \A w \in wanted : Held(w)' \/ ToCome(w)'
        BY <4>1, <4>2, <4>3
      <4>5. Held(t)' /\ wanted' = wanted \cup {t}
        BY <1>2, <2>0, <3>4
      <4>6. TAKE w \in wanted'
      <4> QED
        BY <4>4, <4>5, <4>6
    <3>6. \A h \in handles' : h.topic \in wanted'
      BY <1>2, <2>0, <3>2, <3>4 DEF Resting
    <3>7. handles' # {}
      BY <3>4 DEF Held
    <3> QED
      BY <1>2, <3>2, <3>3, <3>4, <3>5, <3>6, <3>7 DEF Resting, Browse
  <2> QED
    BY <2>4, <2>5, <2>6, <2>7 DEF Situation
<1> QED
  BY <1>3, <1>4

LEMMA ClientCreates ==
  ASSUME IInv, NEW m \in Messages, kind = "client", ClientCreated(m)
  PROVE  IInv'
<1> USE DEF IInv
<1>0. PICK t : t = request[m].topic
  OBVIOUS
<1>1. m \in Coroutines /\ m # "replay" /\ m # "setup" /\ m # "close" /\ "replay" \in Coroutines
  BY NamesOfCoroutines
<1>2. /\ pc[m] = "creating" /\ sub' = own[m] /\ Add(own[m], t) /\ Ends(m)
      /\ clash' = (clash \/ Clashes(m))
      /\ UNCHANGED <<kind, node, wanted, visited, up, ever, subs, failed>>
  BY <1>0 DEF ClientCreated
<1>3. /\ pc' \in [Coroutines -> Stages] /\ pc'[m] = "idle"
      /\ DOMAIN request' = Coroutines /\ DOMAIN own' = Coroutines /\ DOMAIN ending' = Coroutines
      /\ \A d \in Coroutines \ {m} : /\ pc'[d] = pc[d] /\ request'[d] = request[d]
                                      /\ own'[d] = own[d] /\ ending'[d] = ending[d]
  BY <1>1, <1>2, EndsThere
<1>4. \/ Held(t) /\ handles' = handles /\ items' = items
      \/ ~Held(t) /\ \E i : /\ i.topic = t /\ handles' = handles \cup {i}
                            /\ items' = IF own[m] \in subs THEN items \cup {i} ELSE items
  BY <1>2, AddsOne
<1>5. Shape'
  BY <1>1, <1>2, <1>3, Reshaped DEF Shape, Browse
<1>6. Unopened'
  BY <1>1, <1>2, StillOpened
<1>7. ClientItems'
  <2>1. ~Quiet
    BY <1>1, <1>2 DEF Quiet
  <2>2. items \subseteq handles /\ \A i, j \in items : i.topic = j.topic => i = j
    BY <2>1 DEF ClientItems
  <2>3. items' \subseteq handles' /\ \A i, j \in items' : i.topic = j.topic => i = j
    BY <1>4, <2>2 DEF Held
  <2>4. \A c \in Coroutines : pc'[c] = "endItems" =>
          ending'[c] # {} /\ \A e \in ending'[c] : e.topic = request'[c].topic
    BY <1>3 DEF ClientItems
  <2> QED
    BY <2>3, <2>4 DEF ClientItems
<1>8. ASSUME Good' PROVE Resting'
  <2>1. Good
    BY <1>2, <1>8 DEF Good, Shape
  <2>2. SetUp(m)
    BY <1>1, <1>2, <2>1, CreatingSetsUp DEF Browse
  <2>3. \A d \in Coroutines : Idles(d)'
    BY <1>3, <2>2 DEF SetUp, OthersIdle, Idles
  <2>4. Steady' /\ Held(t)' /\ \A h \in handles' : h.topic = t
    <3>1. subs = {own[m]} /\ own[m] # None /\ handles = {} /\ items = {}
      BY <2>2 DEF SetUp, Empty
    <3>2. PICK i : i.topic = t /\ handles' = {i} /\ items' = {i}
      BY <1>4, <3>1 DEF Held
    <3>3. Steady'
      BY <1>2, <3>1, <3>2 DEF Steady
    <3> QED
      BY <3>2, <3>3 DEF Held
  <2>5. t \in wanted /\ \A w \in wanted : w = t \/ ToCome(w)
    BY <1>0, <1>2, <2>2 DEF SetUp
  <2>6. \A w \in wanted : ToCome(w) => ToCome(w)'
    BY <1>1, <1>2, <1>3 DEF ToCome
  <2> QED
    BY <1>2, <2>2, <2>3, <2>4, <2>5, <2>6 DEF SetUp, Resting, Browse, Held
<1> QED
  BY <1>5, <1>6, <1>7, <1>8 DEF Situation

LEMMA ClientUnsubscribes ==
  ASSUME IInv, NEW m \in Messages, kind = "client", ClientUnsubscribe(m)
  PROVE  IInv'
<1> USE DEF IInv
<1>0. PICK t : t = request[m].topic
  OBVIOUS
<1>1. m \in Coroutines /\ m # "replay" /\ m # "setup" /\ m # "close" /\ "replay" \in Coroutines
  BY NamesOfCoroutines
<1>2. /\ pc[m] = "ready" /\ wanted' = wanted \ {t} /\ clash' = (clash \/ Clashes(m))
      /\ UNCHANGED <<kind, node, handles, sub, visited, up, ever, subs, items, failed>>
  BY <1>0 DEF ClientUnsubscribe, server
<1>3. Unopened'
  BY <1>1, <1>2, StillOpened
<1>4. items \subseteq handles
  BY <1>1, <1>2 DEF ClientItems, Quiet
<1>5. ASSUME Good' PROVE Good /\ Resting /\ node = "running"
  <2>1. Good /\ ~Clashes(m)
    BY <1>2, <1>5 DEF Good, Shape
  <2> QED
    BY <1>1, <1>2, <2>1, ReadyRests
<1>6. CASE ~Held(t)
  <2>1. Ends(m)
    BY <1>0, <1>6 DEF ClientUnsubscribe, Has, Held
  <2>2. /\ pc' \in [Coroutines -> Stages] /\ pc'[m] = "idle"
        /\ DOMAIN request' = Coroutines /\ DOMAIN own' = Coroutines /\ DOMAIN ending' = Coroutines
        /\ \A d \in Coroutines \ {m} : /\ pc'[d] = pc[d] /\ request'[d] = request[d]
                                        /\ own'[d] = own[d] /\ ending'[d] = ending[d]
    BY <1>1, <2>1, EndsThere
  <2>3. Shape'
    BY <1>1, <1>2, <2>2, Reshaped DEF Shape, Browse
  <2>4. ClientItems'
    BY <1>1, <1>2, <1>4, <2>2 DEF ClientItems
  <2>5. ASSUME Good' PROVE Resting'
    <3>1. Resting /\ node = "running"
      BY <1>5, <2>5
    <3>2. \A d \in Coroutines : Idles(d)'
      BY <2>2, <3>1 DEF Resting, Idles
    <3>3. \A w \in wanted' : Held(w)' \/ ToCome(w)'
      BY <1>1, <1>2, <2>2, <3>1 DEF Resting, Held, ToCome
    <3>4. \A h \in handles' : h.topic \in wanted'
      BY <1>2, <1>6, <3>1 DEF Resting, Held
    <3>5. Steady'
      BY <1>2, <3>1 DEF Resting, Steady
    <3> QED
      BY <1>2, <3>1, <3>2, <3>3, <3>4, <3>5 DEF Resting, Browse
  <2> QED
    BY <1>3, <2>3, <2>4, <2>5 DEF Situation
<1>7. CASE Held(t)
  <2> DEFINE E == {h \in handles : h.topic = t}
  <2>1. /\ Goes(m, "endItems") /\ own' = [own EXCEPT ![m] = sub]
        /\ ending' = [ending EXCEPT ![m] = E] /\ request' = request
    BY <1>0, <1>7 DEF ClientUnsubscribe, Has, Held
  <2>2. E # {} /\ \A e \in E : e.topic = t
    BY <1>7 DEF Held
  <2>3. /\ pc' \in [Coroutines -> Stages] /\ pc'[m] = "endItems"
        /\ \A d \in Coroutines \ {m} : pc'[d] = pc[d]
    BY <1>1, <2>1, GoesTo DEF Stages
  <2>4. /\ DOMAIN own' = Coroutines /\ own'[m] = sub
        /\ DOMAIN ending' = Coroutines /\ ending'[m] = {h \in handles : h.topic = t}
        /\ \A d \in Coroutines \ {m} : ending'[d] = ending[d]
    BY <1>1, <2>1 DEF Shape
  <2>5. Shape'
    BY <1>1, <1>2, <2>1, <2>3, <2>4, Reshaped DEF Shape, Browse
  <2>6. ClientItems'
    <3>1. \A c \in Coroutines : pc'[c] = "endItems" =>
            ending'[c] # {} /\ \A e \in ending'[c] : e.topic = request'[c].topic
      BY <1>0, <1>1, <2>1, <2>2, <2>3, <2>4 DEF ClientItems
    <3> QED
      BY <1>2, <1>4, <3>1 DEF ClientItems
  <2>7. ASSUME Good' PROVE ItemsGo(m)'
    <3>1. Resting /\ node = "running"
      BY <1>5, <2>7
    <3>2. OthersIdle(m)'
      BY <2>3, <3>1 DEF OthersIdle, Resting, Idles
    <3>3. Steady' /\ sub' # None
      BY <1>2, <1>7, <3>1 DEF Resting, Steady, Held
    <3>4. \A w \in wanted' : Held(w)' \/ ToCome(w)'
      BY <1>1, <1>2, <2>3, <3>1 DEF Resting, Held, ToCome
    <3>5. \A h \in handles' : h.topic \in wanted' \cup {t}
      BY <1>2, <3>1 DEF Resting
    <3>6. request'[m].topic = t /\ t \notin wanted'
      BY <1>0, <1>2, <2>1
    <3>7. ending'[m] # {} /\ ending'[m] = {h \in handles' : h.topic = request'[m].topic}
      BY <1>2, <2>2, <2>4, <3>6
    <3> QED
      BY <1>2, <2>3, <2>4, <3>1, <3>2, <3>3, <3>4, <3>5, <3>6, <3>7 DEF ItemsGo
  <2> QED
    BY <1>1, <1>3, <2>5, <2>6, <2>7 DEF Situation
<1> QED
  BY <1>6, <1>7

LEMMA ClientItemEnds ==
  ASSUME IInv, NEW m \in Messages, kind = "client", ClientItemEnded(m)
  PROVE  IInv'
<1> USE DEF IInv
<1>0. PICK t : t = request[m].topic
  OBVIOUS
<1>1. m \in Coroutines /\ m # "replay" /\ m # "setup" /\ m # "close" /\ "replay" \in Coroutines
  BY NamesOfCoroutines
<1>2. /\ Quiet /\ pc[m] = "endItems" /\ ending[m] \subseteq items
      /\ items' = items \ ending[m] /\ handles' = {h \in handles : h.topic # t}
      /\ UNCHANGED <<kind, node, wanted, sub, visited, up, ever, subs, clash, failed>>
  BY <1>0 DEF ClientItemEnded, ItemsEnded
<1>3. Unopened'
  BY <1>1, <1>2, StillOpened
<1>4. ending[m] # {} /\ \A e \in ending[m] : e.topic = t
  BY <1>0, <1>1, <1>2 DEF ClientItems
<1>5. /\ \A i, j \in items' : i.topic = j.topic => i = j
      /\ items' \subseteq handles' \/ (items' \subseteq items /\ node = "closed")
  <2>1. \A i \in items : i.topic = t => i \in ending[m]
    BY <1>2, <1>4 DEF ClientItems
  <2> QED
    BY <1>2, <2>1 DEF ClientItems
<1>6. pc["replay"] = "idle"
  BY <1>1, <1>2 DEF Shape, Quiet
<1>7. ASSUME Good' PROVE ItemsGo(m)
  <2>1. Good
    BY <1>2, <1>7 DEF Good
  <2>2. ~Dropped(m)
    BY <1>2, <1>4 DEF Dropped, Empty
  <2> QED
    BY <1>1, <1>2, <2>1, <2>2, ItemsAwaited
<1>8. ASSUME Good'
      PROVE  /\ Steady' /\ \A h \in handles' : h.topic \in wanted'
             /\ \A w \in wanted' : Held(w)'
  <2>0. ItemsGo(m)
    BY <1>7, <1>8
  <2>1. Steady /\ sub # None /\ ending[m] = {h \in handles : h.topic = t}
    BY <1>0, <1>2, <2>0 DEF ItemsGo
  <2>2. items' = handles' /\ \A h, g \in handles' : h.topic = g.topic => h = g
    BY <1>2, <2>1 DEF Steady
  <2>3. Steady'
    BY <1>2, <2>1, <2>2 DEF Steady
  <2>4. \A w \in wanted : ~ToCome(w)
    BY <1>2, <1>6 DEF ToCome
  <2>5. t \notin wanted /\ (\A h \in handles : h.topic \in wanted \cup {t}) /\ \A w \in wanted : Held(w)
    BY <1>0, <1>2, <2>0, <2>4 DEF ItemsGo
  <2> QED
    BY <1>2, <2>3, <2>5 DEF Held
<1>9. CASE LastGone(m)
  <2>1. Goes(m, "endSub") /\ handles' = {} /\ UNCHANGED <<request, own, ending>>
    BY <1>9 DEF ClientItemEnded, LastGone
  <2>2. /\ pc' \in [Coroutines -> Stages] /\ pc'[m] = "endSub"
        /\ \A d \in Coroutines \ {m} : pc'[d] = pc[d]
    BY <1>1, <2>1, GoesTo DEF Stages
  <2>3. Shape'
    BY <1>1, <1>2, <2>1, <2>2, Reshaped DEF Shape, Browse
  <2>4. ClientItems'
    <3>1. Quiet'
      BY <1>2, <2>2 DEF Quiet
    <3>2. \A c \in Coroutines : pc'[c] = "endItems" =>
            ending'[c] # {} /\ \A e \in ending'[c] : e.topic = request'[c].topic
      BY <2>1, <2>2 DEF ClientItems
    <3> QED
      BY <1>2, <1>5, <3>1, <3>2 DEF ClientItems
  <2>5. ASSUME Good' PROVE SubGoes(m)'
    <3>1. wanted' = {}
      BY <1>8, <2>1, <2>5 DEF Held
    <3>2. OthersIdle(m)'
      BY <1>7, <2>2, <2>5 DEF ItemsGo, OthersIdle, Idles
    <3> QED
      BY <1>1, <1>2, <1>6, <1>7, <1>8, <2>1, <2>2, <2>5, <3>1, <3>2 DEF SubGoes, ItemsGo
  <2> QED
    BY <1>1, <1>3, <2>3, <2>4, <2>5 DEF Situation
<1>10. CASE ~LastGone(m)
  <2>1. Ends(m)
    BY <1>10 DEF ClientItemEnded
  <2>2. /\ pc' \in [Coroutines -> Stages] /\ pc'[m] = "idle"
        /\ DOMAIN request' = Coroutines /\ DOMAIN own' = Coroutines /\ DOMAIN ending' = Coroutines
        /\ \A d \in Coroutines \ {m} : /\ pc'[d] = pc[d] /\ request'[d] = request[d]
                                        /\ own'[d] = own[d] /\ ending'[d] = ending[d]
    BY <1>1, <2>1, EndsThere
  <2>3. Shape'
    BY <1>1, <1>2, <2>2, Reshaped DEF Shape, Browse
  <2>4. ClientItems'
    <3>1. Quiet'
      BY <1>2, <2>2 DEF Quiet
    <3>2. \A c \in Coroutines : pc'[c] = "endItems" =>
            ending'[c] # {} /\ \A e \in ending'[c] : e.topic = request'[c].topic
      BY <2>2 DEF ClientItems
    <3> QED
      BY <1>2, <1>5, <3>1, <3>2 DEF ClientItems
  <2>5. ASSUME Good' PROVE Resting'
    <3>1. \A d \in Coroutines : Idles(d)'
      BY <1>7, <2>2, <2>5 DEF ItemsGo, OthersIdle, Idles
    <3>2. handles' # {}
      BY <1>2, <1>7, <1>10, <2>5 DEF LastGone, ItemsGo
    <3> QED
      BY <1>2, <1>7, <1>8, <2>5, <3>1, <3>2 DEF Resting, ItemsGo, Browse
  <2> QED
    BY <1>3, <2>3, <2>4, <2>5 DEF Situation
<1> QED
  BY <1>9, <1>10

LEMMA ClientItemFails ==
  ASSUME IInv, NEW m \in Messages, kind = "client", ClientItemLost(m)
  PROVE  IInv'
<1> USE DEF IInv
<1>1. m \in Coroutines /\ m # "replay" /\ m # "setup" /\ m # "close"
  BY NamesOfCoroutines
<1>2. /\ Quiet /\ pc[m] = "endItems" /\ items' \subseteq items /\ failed'
      /\ UNCHANGED <<kind, node, wanted, handles, sub, visited, up, ever, subs, clash>>
  BY DEF ClientItemLost, ItemsLost
<1>3. Unopened'
  BY <1>1, <1>2, StillOpened
<1>4. /\ pc' \in [Coroutines -> Stages] /\ pc'[m] \in {"idle", "connecting"}
      /\ DOMAIN request' = Coroutines /\ DOMAIN own' = Coroutines /\ DOMAIN ending' = Coroutines
      /\ \A d \in Coroutines \ {m} : pc'[d] = pc[d] /\ request'[d] = request[d] /\ ending'[d] = ending[d]
  <2>1. CASE Ends(m)
    BY <1>1, <2>1, EndsThere
  <2>2. CASE /\ Goes(m, "connecting") /\ ending' = [ending EXCEPT ![m] = {}]
             /\ own' = [own EXCEPT ![m] = None] /\ UNCHANGED request
    <3>1. /\ pc' \in [Coroutines -> Stages] /\ pc'[m] = "connecting"
          /\ \A d \in Coroutines \ {m} : pc'[d] = pc[d]
      BY <1>1, <2>2, GoesTo DEF Stages
    <3>2. DOMAIN request = Coroutines /\ DOMAIN own = Coroutines /\ DOMAIN ending = Coroutines
      BY DEF Shape
    <3> QED
      BY <1>1, <2>2, <3>1, <3>2
  <2> QED
    BY <2>1, <2>2 DEF ClientItemLost
<1>5. failed' \in BOOLEAN
  BY DEF ClientItemLost, ItemsLost
<1>6. Shape'
  BY <1>1, <1>2, <1>4, <1>5, Reshaped DEF Shape, Browse
<1>7. ClientItems'
  <2>1. Quiet'
    BY <1>2, <1>4 DEF Quiet
  <2>2. \A c \in Coroutines : pc'[c] = "endItems" =>
          ending'[c] # {} /\ \A e \in ending'[c] : e.topic = request'[c].topic
    BY <1>4 DEF ClientItems
  <2> QED
    BY <1>2, <2>1, <2>2 DEF ClientItems
<1> QED
  BY <1>2, <1>3, <1>6, <1>7 DEF Good

LEMMA ClientSubEnds ==
  ASSUME IInv, NEW m \in Messages, kind = "client", ClientSubEnded(m)
  PROVE  IInv'
<1> USE DEF IInv
<1>1. m \in Coroutines /\ m # "replay" /\ m # "setup" /\ m # "close" /\ "replay" \in Coroutines
  BY NamesOfCoroutines
<1>2. /\ Quiet /\ pc[m] = "endSub" /\ Ends(m) /\ sub' = None
      /\ UNCHANGED <<kind, node, wanted, handles, visited, up, ever, clash>>
  BY DEF ClientSubEnded, SubEnded, SubLost
<1>3. \/ subs' = subs \ {own[m]} /\ items' = items \ On(own[m]) /\ failed' = failed
      \/ failed' = TRUE /\ subs' = subs /\ items' = items
  BY DEF ClientSubEnded, SubEnded, SubLost
<1>4. Unopened'
  BY <1>1, <1>2, StillOpened
<1>5. /\ pc' \in [Coroutines -> Stages] /\ pc'[m] = "idle"
      /\ DOMAIN request' = Coroutines /\ DOMAIN own' = Coroutines /\ DOMAIN ending' = Coroutines
      /\ \A d \in Coroutines \ {m} : /\ pc'[d] = pc[d] /\ request'[d] = request[d]
                                      /\ own'[d] = own[d] /\ ending'[d] = ending[d]
  BY <1>1, <1>2, EndsThere
<1>6. Shape'
  BY <1>1, <1>2, <1>3, <1>5, Reshaped DEF Shape, Browse
<1>7. ClientItems'
  <2>1. Quiet'
    BY <1>2, <1>5 DEF Quiet
  <2>2. \A c \in Coroutines : pc'[c] = "endItems" =>
          ending'[c] # {} /\ \A e \in ending'[c] : e.topic = request'[c].topic
    BY <1>5 DEF ClientItems
  <2>3. items' \subseteq items
    BY <1>3
  <2> QED
    BY <1>2, <2>1, <2>2, <2>3 DEF ClientItems
<1>8. ASSUME Good' PROVE Resting'
  <2>1. Good /\ subs' = subs \ {own[m]} /\ items' \subseteq items
    BY <1>2, <1>3, <1>8 DEF Good
  <2>2. SubGoes(m) \/ Dropped(m)
    BY <1>1, <1>2, <2>1, SubAwaited
  <2>3. /\ node = "running" /\ OthersIdle(m) /\ handles = {} /\ items = {} /\ subs' = {} /\ wanted = {}
    BY <1>1, <1>2, <2>1, <2>2, DroppedQuiet DEF SubGoes, Steady, Dropped, Empty
  <2>4. \A d \in Coroutines : Idles(d)'
    BY <1>5, <2>3 DEF OthersIdle, Idles
  <2>5. Steady'
    BY <1>2, <2>1, <2>3 DEF Steady
  <2> QED
    BY <1>2, <2>3, <2>4, <2>5 DEF Resting, Browse
<1> QED
  BY <1>4, <1>6, <1>7, <1>8 DEF Situation

LEMMA ReplaysTopic ==
  ASSUME IInv, NEW t \in Topics, kind = "client", ReplayTopic(t)
  PROVE  IInv'
<1> USE DEF IInv
<1>1. "replay" \in Coroutines /\ "replay" # "setup" /\ "replay" # "close"
  BY NamesOfCoroutines
<1>2. /\ pc["replay"] = "ready" /\ t \in wanted /\ visited' = visited \cup {t}
      /\ UNCHANGED <<kind, node, wanted, sub, ending, up, ever, failed>>
      /\ DOMAIN request = Coroutines /\ DOMAIN own = Coroutines /\ DOMAIN ending = Coroutines
  BY DEF ReplayTopic, Shape
<1>3. Unopened'
  BY <1>1, <1>2, StillOpened
<1>4. items \subseteq handles /\ \A i, j \in items : i.topic = j.topic => i = j
  BY <1>1, <1>2 DEF ClientItems, Quiet
<1>5. CASE ~Has(t) /\ sub = None
  <2>1. /\ Creates("replay") /\ request' = [request EXCEPT !["replay"] = [topic |-> t]]
        /\ UNCHANGED <<handles, items>>
    BY <1>5 DEF ReplayTopic
  <2>2. PICK s : s # None /\ own'["replay"] = s /\ subs' = subs \cup {s}
    BY <1>1, <2>1, CreatesOne
  <2>3. /\ DOMAIN own' = Coroutines /\ \A d \in Coroutines \ {"replay"} : own'[d] = own[d]
        /\ pc' \in [Coroutines -> Stages] /\ pc'["replay"] = "creating"
        /\ \A d \in Coroutines \ {"replay"} : pc'[d] = pc[d]
        /\ clash' = (clash \/ Clashes("replay"))
    BY <1>1, <2>1, CreatesOne
  <2>4. /\ DOMAIN request' = Coroutines /\ request'["replay"].topic = t
        /\ \A d \in Coroutines \ {"replay"} : request'[d] = request[d]
    BY <1>1, <1>2, <2>1
  <2>5. Shape'
    BY <1>1, <1>2, <2>3, <2>4, Reshaped DEF Shape, Browse
  <2>6. ClientItems'
    BY <1>1, <1>2, <1>4, <2>1, <2>3, <2>4 DEF ClientItems
  <2>7. ASSUME Good' PROVE SetUp("replay")'
    <3>1. Good /\ ~Clashes("replay")
      BY <1>2, <2>3, <2>7 DEF Good, Shape
    <3>2. Resting /\ node = "running"
      BY <1>1, <1>2, <3>1, ReadyRests
    <3>3. Empty' /\ subs' = {own["replay"]}'
      BY <1>2, <1>5, <2>1, <2>2, <3>2 DEF Resting, Steady, Empty
    <3>4. OthersIdle("replay")'
      BY <2>3, <3>2 DEF OthersIdle, Resting, Idles
    <3>5. \A w \in wanted : w \notin visited
      BY <1>5, <3>2 DEF Resting, Steady, Held, ToCome
    <3>6. \A w \in wanted' : w = t \/ ToCome(w)'
      BY <1>2, <2>3, <3>5 DEF ToCome
    <3> QED
      BY <1>1, <1>2, <2>2, <2>3, <2>4, <3>2, <3>3, <3>4, <3>6 DEF SetUp
  <2> QED
    BY <1>1, <1>3, <2>5, <2>6, <2>7 DEF Situation
<1>6. CASE Has(t) \/ sub # None
  <2>1. Add(sub, t) /\ UNCHANGED <<pc, request, own, subs, clash>>
    BY <1>6 DEF ReplayTopic
  <2>2. \/ Held(t) /\ handles' = handles /\ items' = items
        \/ ~Held(t) /\ \E i : /\ i.topic = t /\ handles' = handles \cup {i}
                              /\ items' = IF sub \in subs THEN items \cup {i} ELSE items
    BY <2>1, AddsOne
  <2>3. Held(t)' /\ handles \subseteq handles' /\ \A h \in handles' : h \in handles \/ h.topic = t
    BY <2>2 DEF Held
  <2>4. Shape'
    BY <1>2, <2>1 DEF Shape, Browse
  <2>5. ClientItems'
    <3>1. items' \subseteq handles' /\ \A i, j \in items' : i.topic = j.topic => i = j
      BY <1>4, <2>2 DEF Held
    <3> QED
      BY <1>2, <2>1, <3>1 DEF ClientItems
  <2>6. ASSUME Steady PROVE Steady' /\ sub # None
    <3>1. sub # None /\ subs = {sub} /\ items = handles /\ \A h, g \in handles : h.topic = g.topic => h = g
      BY <1>6, <2>6 DEF Steady, Has
    <3>2. CASE Held(t)
      BY <1>2, <2>1, <2>2, <3>1, <3>2 DEF Steady, Held
    <3>3. CASE ~Held(t)
      <4>1. PICK i : i.topic = t /\ handles' = handles \cup {i} /\ items' = items \cup {i}
        BY <2>2, <3>1, <3>3
      <4>2. \A h, g \in handles' : h.topic = g.topic => h = g
        BY <3>1, <3>3, <4>1 DEF Held
      <4> QED
        BY <1>2, <2>1, <3>1, <4>1, <4>2 DEF Steady
    <3> QED
      BY <3>2, <3>3
  <2>7. \A w \in wanted : Held(w) \/ ToCome(w) => Held(w)' \/ ToCome(w)'
    <3> TAKE w \in wanted
    <3>1. CASE w = t
      BY <2>3, <3>1
    <3>2. CASE w # t
      BY <1>2, <2>1, <2>3, <3>2 DEF Held, ToCome
    <3> QED
      BY <3>1, <3>2
  <2>8. \A d \in Coroutines : Idles(d) => Idles(d)'
    BY <2>1 DEF Idles
  <2>9. ASSUME Resting PROVE Resting'
    <3>0. node = "running"
      BY <1>1, <1>2, <2>9 DEF Resting, Settled
    <3>1. \A h \in handles' : h.topic \in wanted'
      BY <1>2, <2>3, <2>9 DEF Resting
    <3>2. \A w \in wanted' : Held(w)' \/ ToCome(w)'
      BY <1>2, <2>7, <2>9, <3>0 DEF Resting
    <3>3. handles' # {}
      BY <2>3 DEF Held
    <3>4. Steady' /\ \A d \in Coroutines : Idles(d)'
      BY <2>6, <2>8, <2>9 DEF Resting
    <3> QED
      BY <1>2, <3>0, <3>1, <3>2, <3>3, <3>4 DEF Resting, Browse
  <2>10. ASSUME NEW c \in Coroutines, ItemsGo(c) PROVE ItemsGo(c)'
    <3>1. Steady' /\ sub # None
      BY <2>6, <2>10 DEF ItemsGo
    <3>2. OthersIdle(c)'
      BY <2>8, <2>10 DEF ItemsGo, OthersIdle
    <3>3. PICK r : r = request[c].topic
      OBVIOUS
    <3>4. request'[c].topic = r /\ r # t /\ r \notin wanted
      BY <1>2, <2>1, <2>10, <3>3 DEF ItemsGo
    <3>5. ending[c] = {h \in handles : h.topic = r} /\ \A h \in handles : h.topic \in wanted \cup {r}
      BY <1>2, <2>10, <3>3 DEF ItemsGo
    <3>6. ending'[c] = {h \in handles' : h.topic = r}
      BY <1>2, <2>3, <3>4, <3>5
    <3>7. \A h \in handles' : h.topic \in wanted' \cup {r}
      BY <1>2, <2>3, <3>5
    <3>8. \A w \in wanted' : Held(w)' \/ ToCome(w)'
      BY <1>2, <2>7, <2>10 DEF ItemsGo
    <3> QED
      BY <1>2, <2>1, <2>10, <3>1, <3>2, <3>4, <3>6, <3>7, <3>8 DEF ItemsGo
  <2>11. Good' => Situation'
    <3>1. SUFFICES ASSUME Good' PROVE Situation'
      OBVIOUS
    <3>2. Situation
      BY <1>2, <2>1, <3>1 DEF Good
    <3>3. \A c \in Coroutines : ~SetUp(c)
      BY <1>2, <1>6 DEF SetUp, Empty, Has
    <3>4. \A c \in Coroutines : ~SubGoes(c)
      BY <1>2 DEF SubGoes
    <3>5. \A c \in Coroutines : ~Dropped(c)
      BY <1>6 DEF Dropped, Empty, Has
    <3> QED
      BY <2>9, <2>10, <3>2, <3>3, <3>4, <3>5 DEF Situation
  <2> QED
    BY <1>3, <2>4, <2>5, <2>11
<1> QED
  BY <1>5, <1>6

LEMMA ReplayCreates ==
  ASSUME IInv, kind = "client", ReplayCreated
  PROVE  IInv'
<1> USE DEF IInv
<1>0. PICK t : t = request["replay"].topic
  OBVIOUS
<1>1. "replay" \in Coroutines /\ "replay" # "setup" /\ "replay" # "close"
  BY NamesOfCoroutines
<1>2. /\ pc["replay"] = "creating" /\ sub' = own["replay"] /\ Add(own["replay"], t) /\ Goes("replay", "ready")
      /\ own' = [own EXCEPT !["replay"] = None] /\ request' = [request EXCEPT !["replay"] = None]
      /\ UNCHANGED <<kind, node, wanted, ending, visited, up, ever, subs, clash, failed>>
  BY <1>0 DEF ReplayCreated
<1>3. /\ pc' \in [Coroutines -> Stages] /\ pc'["replay"] = "ready"
      /\ DOMAIN request' = Coroutines /\ DOMAIN own' = Coroutines /\ DOMAIN ending' = Coroutines
      /\ \A d \in Coroutines \ {"replay"} : pc'[d] = pc[d] /\ request'[d] = request[d]
  <2>1. "ready" \in Stages
    BY DEF Stages
  <2>2. /\ pc' \in [Coroutines -> Stages] /\ pc'["replay"] = "ready"
        /\ \A d \in Coroutines \ {"replay"} : pc'[d] = pc[d]
    BY <1>1, <1>2, <2>1, GoesTo
  <2>3. DOMAIN request = Coroutines /\ DOMAIN own = Coroutines /\ DOMAIN ending = Coroutines
    BY DEF Shape
  <2> QED
    BY <1>1, <1>2, <2>2, <2>3
<1>4. \/ Held(t) /\ handles' = handles /\ items' = items
      \/ ~Held(t) /\ \E i : /\ i.topic = t /\ handles' = handles \cup {i}
                            /\ items' = IF own["replay"] \in subs THEN items \cup {i} ELSE items
  BY <1>2, AddsOne
<1>5. Shape'
  BY <1>1, <1>2, <1>3, Reshaped DEF Shape, Browse
<1>6. Unopened'
  BY <1>1, <1>2, StillOpened
<1>7. ClientItems'
  <2>1. ~Quiet
    BY <1>1, <1>2 DEF Quiet
  <2>2. items \subseteq handles /\ \A i, j \in items : i.topic = j.topic => i = j
    BY <2>1 DEF ClientItems
  <2>3. items' \subseteq handles' /\ \A i, j \in items' : i.topic = j.topic => i = j
    BY <1>4, <2>2 DEF Held
  <2>4. \A c \in Coroutines : pc'[c] = "endItems" =>
          ending'[c] # {} /\ \A e \in ending'[c] : e.topic = request'[c].topic
    BY <1>2, <1>3 DEF ClientItems
  <2> QED
    BY <2>3, <2>4 DEF ClientItems
<1>8. ASSUME Good' PROVE Resting'
  <2>1. Good
    BY <1>2, <1>8 DEF Good
  <2>2. SetUp("replay")
    BY <1>1, <1>2, <2>1, CreatingSetsUp DEF Browse
  <2>3. \A d \in Coroutines : Idles(d)'
    BY <1>3, <2>2 DEF SetUp, OthersIdle, Idles
  <2>4. Steady' /\ Held(t)' /\ \A h \in handles' : h.topic = t
    <3>1. subs = {own["replay"]} /\ own["replay"] # None /\ handles = {} /\ items = {}
      BY <2>2 DEF SetUp, Empty
    <3>2. PICK i : i.topic = t /\ handles' = {i} /\ items' = {i}
      BY <1>4, <3>1 DEF Held
    <3>3. Steady'
      BY <1>2, <3>1, <3>2 DEF Steady
    <3> QED
      BY <3>2, <3>3 DEF Held
  <2>5. t \in wanted /\ \A w \in wanted : w = t \/ ToCome(w)
    BY <1>0, <1>2, <2>2 DEF SetUp
  <2>6. \A w \in wanted : ToCome(w) => ToCome(w)'
    BY <1>1, <1>2, <1>3 DEF ToCome
  <2> QED
    BY <1>2, <2>2, <2>3, <2>4, <2>5, <2>6 DEF SetUp, Resting, Browse, Held
<1> QED
  BY <1>5, <1>6, <1>7, <1>8 DEF Situation

-----------------------------------------------------------------------------
(* Steps that leave what a situation speaks of alone.                       *)

LEMMA SituationStays ==
  ASSUME Situation, UNCHANGED <<kind, mine, ever, subs, items>>, up' => up \/ ~SetsUpFirst
  PROVE  Situation'
<1>1. \A d \in Coroutines : Idles(d)' <=> Idles(d)
  BY DEF Idles, mine
<1>2. \A d \in Coroutines : OthersIdle(d)' <=> OthersIdle(d)
  BY <1>1 DEF OthersIdle
<1>3. (Steady' <=> Steady) /\ (Empty' <=> Empty) /\ (Settled' <=> Settled)
  BY DEF Steady, Empty, Settled, mine
<1>4. \A t : (Held(t)' <=> Held(t)) /\ (node = "running" /\ ToCome(t) => ToCome(t)')
  BY DEF Held, ToCome, SetsUpFirst, Passive, mine
<1>5. Resting => Resting'
  BY <1>1, <1>3, <1>4 DEF Resting, Browse, mine
<1>6. \A c \in Coroutines : SetUp(c) => SetUp(c)'
  BY <1>2, <1>3, <1>4 DEF SetUp, mine
<1>7. \A c \in Coroutines : ItemsGo(c) => ItemsGo(c)'
  BY <1>2, <1>3, <1>4 DEF ItemsGo, mine
<1>8. \A c \in Coroutines : SubGoes(c) => SubGoes(c)'
  BY <1>2, <1>3 DEF SubGoes, mine
<1>9. \A c \in Coroutines : Dropped(c) => Dropped(c)'
  BY <1>2, <1>3 DEF Dropped, mine
<1> QED
  BY <1>5, <1>6, <1>7, <1>8, <1>9 DEF Situation

(* A coroutine x that only comes, goes or waits for its turn.               *)
LEMMA Elsewhere ==
  ASSUME Situation, NEW x \in Coroutines, Idles(x), Idles(x)', x # "close",
         UNCHANGED <<kind, node, wanted, handles, sub, visited, ever, subs, items>>,
         \A d \in Coroutines \ {x} : /\ pc'[d] = pc[d] /\ request'[d] = request[d]
                                     /\ own'[d] = own[d] /\ ending'[d] = ending[d],
         \A t \in wanted : ToCome(t) => ToCome(t)',
         x = "replay" => pc'[x] = "idle",
         node = "running" \/ pc'[x] = "idle"
  PROVE  Situation'
<1>0. "replay" \in Coroutines /\ "close" \in Coroutines
  BY NamesOfCoroutines
<1>1. \A d \in Coroutines : Idles(d) => Idles(d)'
  BY DEF Idles
<1>2. \A d \in Coroutines : OthersIdle(d) => OthersIdle(d)'
  BY <1>1 DEF OthersIdle
<1>3. (Steady' <=> Steady) /\ (Empty' <=> Empty)
  BY DEF Steady, Empty
<1>4. \A t : Held(t)' <=> Held(t)
  BY DEF Held
<1>5. Resting => Resting'
  <2>1. node # "running" /\ Settled => Settled'
    BY DEF Settled
  <2> QED
    BY <1>0, <1>1, <1>3, <1>4, <2>1 DEF Resting, Browse
<1>6. \A c \in Coroutines : SetUp(c) => SetUp(c)'
  <2> SUFFICES ASSUME NEW c \in Coroutines, SetUp(c) PROVE SetUp(c)'
    OBVIOUS
  <2>1. c # x
    BY DEF SetUp, Idles
  <2> QED
    BY <1>2, <1>3, <2>1 DEF SetUp
<1>7. \A c \in Coroutines : ItemsGo(c) => ItemsGo(c)'
  <2> SUFFICES ASSUME NEW c \in Coroutines, ItemsGo(c) PROVE ItemsGo(c)'
    OBVIOUS
  <2>1. c # x
    BY DEF ItemsGo, Idles
  <2> QED
    BY <1>2, <1>3, <1>4, <2>1 DEF ItemsGo
<1>8. \A c \in Coroutines : SubGoes(c) => SubGoes(c)'
  <2> SUFFICES ASSUME NEW c \in Coroutines, SubGoes(c) PROVE SubGoes(c)'
    OBVIOUS
  <2>1. c # x
    BY DEF SubGoes, Idles
  <2> QED
    BY <1>0, <1>2, <1>3, <2>1 DEF SubGoes
<1>9. \A c \in Coroutines : Dropped(c) => Dropped(c)'
  <2> SUFFICES ASSUME NEW c \in Coroutines, Dropped(c) PROVE Dropped(c)'
    OBVIOUS
  <2>1. c # x
    BY DEF Dropped, Idles
  <2>2. ASSUME NEW d \in Coroutines \ {c}, pc[d] = "creating" PROVE pc'[d] = "creating"
    <3>1. d # x
      BY <2>2 DEF Idles
    <3> QED
      BY <2>2, <3>1
  <2> QED
    BY <1>2, <1>3, <2>1, <2>2 DEF Dropped
<1> QED
  BY <1>5, <1>6, <1>7, <1>8, <1>9 DEF Situation

LEMMA ReplayIsOver ==
  ASSUME IInv, kind = "client", ReplayEnds
  PROVE  IInv'
<1> USE DEF IInv
<1>1. "replay" \in Coroutines /\ "replay" # "setup" /\ "replay" # "close"
  BY NamesOfCoroutines
<1>2. /\ pc["replay"] = "ready" /\ wanted \subseteq visited /\ Ends("replay")
      /\ UNCHANGED <<kind, node, wanted, handles, sub, visited, up, ever, subs, items, clash, failed>>
  BY DEF ReplayEnds, server
<1>3. /\ pc' \in [Coroutines -> Stages] /\ pc'["replay"] = "idle"
      /\ DOMAIN request' = Coroutines /\ DOMAIN own' = Coroutines /\ DOMAIN ending' = Coroutines
      /\ \A d \in Coroutines \ {"replay"} : /\ pc'[d] = pc[d] /\ request'[d] = request[d]
                                            /\ own'[d] = own[d] /\ ending'[d] = ending[d]
  BY <1>1, <1>2, EndsThere
<1>4. Shape'
  BY <1>1, <1>2, <1>3, Reshaped DEF Shape, Browse
<1>5. Unopened'
  BY <1>1, <1>2, StillOpened
<1>6. ClientItems'
  BY <1>1, <1>2, <1>3 DEF ClientItems, Quiet
<1>7. ASSUME Good' PROVE Situation'
  <2>1. Situation
    BY <1>2, <1>7 DEF Good
  <2>2. \A t \in wanted : ~ToCome(t)
    BY <1>2 DEF ToCome
  <2>3. Idles("replay") /\ Idles("replay")'
    BY <1>2, <1>3 DEF Idles
  <2> QED
    BY <1>1, <1>2, <1>3, <2>1, <2>2, <2>3, Elsewhere
<1> QED
  BY <1>4, <1>5, <1>6, <1>7

LEMMA Receives ==
  ASSUME IInv, NEW m \in Messages, NEW op, NEW t, Receive(m, op, t)
  PROVE  IInv'
<1> USE DEF IInv
<1>1. m \in Coroutines /\ m # "replay" /\ m # "setup" /\ m # "close" /\ "replay" \in Coroutines
  BY NamesOfCoroutines
<1>2. /\ Quiet /\ pc[m] = "idle" /\ node = "running"
      /\ UNCHANGED <<kind, node, wanted, handles, sub, own, ending, visited, up, ever, subs, items, clash, failed>>
  BY DEF Receive, server
<1>3. /\ DOMAIN request' = Coroutines /\ \A d \in Coroutines \ {m} : request'[d] = request[d]
  BY <1>1 DEF Receive, Shape
<1>4. /\ pc' \in [Coroutines -> Stages] /\ pc'[m] = IF up THEN "ready" ELSE "connecting"
      /\ \A d \in Coroutines \ {m} : pc'[d] = pc[d]
  <2>1. (IF up THEN "ready" ELSE "connecting") \in Stages
    BY DEF Stages
  <2>2. Goes(m, IF up THEN "ready" ELSE "connecting")
    BY DEF Receive
  <2> QED
    BY <1>1, <2>1, <2>2, GoesTo
<1>5. Shape'
  BY <1>1, <1>2, <1>3, <1>4, Reshaped DEF Shape, Browse
<1>6. Unopened'
  BY <1>1, <1>2, <1>4 DEF Unopened, Shape
<1>7. ClientItems'
  BY <1>1, <1>2, <1>3, <1>4 DEF ClientItems, Quiet
<1>8. ASSUME Good' PROVE Situation'
  <2>1. Situation
    BY <1>2, <1>8 DEF Good
  <2>2. \A w \in wanted : ToCome(w) => ToCome(w)'
    BY <1>1, <1>2, <1>4 DEF ToCome
  <2>3. Idles(m) /\ Idles(m)'
    BY <1>2, <1>4 DEF Idles
  <2> QED
    BY <1>1, <1>2, <1>3, <1>4, <2>1, <2>2, <2>3, Elsewhere
<1> QED
  BY <1>5, <1>6, <1>7, <1>8

LEMMA FailsToConnect ==
  ASSUME IInv, NEW m \in Messages, ConnectFails(m)
  PROVE  IInv'
<1> USE DEF IInv
<1>1. m \in Coroutines /\ m # "replay" /\ m # "setup" /\ m # "close" /\ "replay" \in Coroutines
  BY NamesOfCoroutines
<1>2. /\ Quiet /\ pc[m] = "connecting" /\ Ends(m)
      /\ UNCHANGED <<kind, node, wanted, handles, sub, visited, up, ever, subs, items, clash, failed>>
  BY DEF ConnectFails, server
<1>3. /\ pc' \in [Coroutines -> Stages] /\ pc'[m] = "idle"
      /\ DOMAIN request' = Coroutines /\ DOMAIN own' = Coroutines /\ DOMAIN ending' = Coroutines
      /\ \A d \in Coroutines \ {m} : /\ pc'[d] = pc[d] /\ request'[d] = request[d]
                                      /\ own'[d] = own[d] /\ ending'[d] = ending[d]
  BY <1>1, <1>2, EndsThere
<1>4. Shape'
  BY <1>1, <1>2, <1>3, Reshaped DEF Shape, Browse
<1>5. Unopened'
  BY <1>1, <1>2, <1>3 DEF Unopened, Shape
<1>6. ClientItems'
  <2>1. Quiet'
    BY <1>2, <1>3 DEF Quiet
  <2> QED
    BY <1>2, <1>3, <2>1 DEF ClientItems
<1>7. ASSUME Good' PROVE Situation'
  <2>1. Situation
    BY <1>2, <1>7 DEF Good
  <2>2. \A w \in wanted : ToCome(w) => ToCome(w)'
    BY <1>1, <1>2, <1>3 DEF ToCome
  <2>3. Idles(m) /\ Idles(m)'
    BY <1>2, <1>3 DEF Idles
  <2> QED
    BY <1>1, <1>2, <1>3, <2>1, <2>2, <2>3, Elsewhere
<1> QED
  BY <1>4, <1>5, <1>6, <1>7

LEMMA LosesChannel ==
  ASSUME IInv, LoseChannel
  PROVE  IInv'
<1> USE DEF IInv
<1>1. UNCHANGED <<kind, mine, ever, subs, items, clash, failed>> /\ up /\ up' = FALSE
  BY DEF LoseChannel
<1>2. Shape'
  BY <1>1, ZenonT(30) DEF Shape, Browse, mine
<1>3. Unopened' /\ ClientItems'
  BY <1>1 DEF Unopened, ClientItems, Quiet, mine
<1>4. Good' => Situation'
  BY <1>1, SituationStays DEF Good
<1> QED
  BY <1>2, <1>3, <1>4

LEMMA Restores ==
  ASSUME IInv, Restore
  PROVE  IInv'
<1> USE DEF IInv
<1>1. "replay" \in Coroutines /\ "setup" \in Coroutines /\ "close" \in Coroutines
  BY NamesOfCoroutines
<1>2. /\ Quiet /\ ever /\ up' = TRUE
      /\ UNCHANGED <<kind, node, wanted, handles, sub, request, ending, visited, ever, items, failed>>
  BY DEF Restore
<1>3. Unopened'
  BY <1>2 DEF Unopened
<1>4. CASE Browse /\ SetsUpFirst
  <2>1. Creates("setup") /\ kind = "browseSubscribe" /\ node # "closed" /\ sub = None
    BY <1>4 DEF Restore, Browse, BrowseRestored, SetsUpFirst, Passive
  <2>2. PICK s : s # None /\ own'["setup"] = s /\ subs' = subs \cup {s}
    BY <1>1, <2>1, CreatesOne
  <2>3. /\ DOMAIN own' = Coroutines /\ \A d \in Coroutines \ {"setup"} : own'[d] = own[d]
        /\ pc' \in [Coroutines -> Stages] /\ pc'["setup"] = "creating"
        /\ \A d \in Coroutines \ {"setup"} : pc'[d] = pc[d]
        /\ clash' = (clash \/ Clashes("setup"))
    BY <1>1, <2>1, CreatesOne
  <2>4. Shape'
    BY <1>1, <1>2, <2>1, <2>3 DEF Shape, Browse
  <2>5. ClientItems'
    BY <1>2, <2>1 DEF ClientItems
  <2>6. ASSUME Good' PROVE SetUp("setup")'
    <3>1. Good /\ ~Clashes("setup")
      BY <1>2, <2>3, <2>6 DEF Good, Shape
    <3>2. \A d \in Coroutines : pc[d] \notin {"creating", "endItems", "endSub"}
      BY <1>1, <1>2, <3>1 DEF Clashes, Quiet, Shape
    <3>3. Resting
      BY <3>1, <3>2 DEF Situation, SetUp, ItemsGo, SubGoes, Dropped
    <3>4. node = "running"
      BY <2>1, <3>1 DEF Clashes, Shape
    <3>5. OthersIdle("setup")'
      BY <2>3, <3>3 DEF OthersIdle, Resting, Idles
    <3>6. Empty' /\ subs' = {own["setup"]}'
      BY <1>2, <2>1, <2>2, <3>3 DEF Resting, Steady, Empty
    <3> QED
      BY <1>2, <2>1, <2>2, <2>3, <3>4, <3>5, <3>6 DEF SetUp
  <2> QED
    BY <1>1, <1>3, <2>4, <2>5, <2>6 DEF Situation
<1>5. CASE ~(Browse /\ SetsUpFirst)
  <2>1. UNCHANGED <<own, subs, clash, pc>>
    BY <1>5 DEF Restore, Browse, BrowseRestored
  <2>2. UNCHANGED <<kind, mine, ever, subs, items, clash, failed>>
    BY <1>2, <2>1 DEF mine
  <2>3. Shape'
    BY <1>2, <2>1 DEF Shape, Browse
  <2>4. ClientItems'
    BY <1>2, <2>1 DEF ClientItems, Quiet
  <2>5. ~SetsUpFirst
    BY <1>5 DEF SetsUpFirst, Passive, Browse
  <2>6. Good' => Situation'
    BY <2>2, <2>5, SituationStays DEF Good
  <2> QED
    BY <1>3, <2>3, <2>4, <2>6
<1> QED
  BY <1>4, <1>5

LEMMA StartsToClose ==
  ASSUME IInv, StartClose
  PROVE  IInv'
<1> USE DEF IInv
<1>1. "replay" \in Coroutines /\ "setup" \in Coroutines /\ "close" \in Coroutines
  BY NamesOfCoroutines
<1>2. /\ Quiet /\ node = "running" /\ node' = "closing" /\ clash' = (clash \/ ~Settled)
      /\ UNCHANGED <<kind, wanted, handles, sub, pc, request, visited, up, ever, subs, items, failed>>
  BY DEF StartClose, server
<1>3. /\ DOMAIN ending' = Coroutines /\ ending'["close"] = handles
      /\ \A d \in Coroutines \ {"close"} : ending'[d] = ending[d]
      /\ DOMAIN own' = Coroutines /\ own'["close"] = sub
  BY <1>1 DEF StartClose, Shape
<1>4. Shape'
  BY <1>2, <1>3 DEF Shape, Browse
<1>5. Unopened'
  BY <1>2 DEF Unopened
<1>6. ClientItems'
  BY <1>2, <1>3 DEF ClientItems, Shape
<1>7. ASSUME Good' PROVE Resting'
  <2>1. Good /\ Settled
    BY <1>2, <1>7 DEF Good, Shape, Settled
  <2>2. Resting
    BY <2>1 DEF Situation, Settled, SetUp, ItemsGo, SubGoes, Dropped
  <2>3. (\A d \in Coroutines : Idles(d)') /\ Settled'
    BY <1>2, <2>1 DEF Settled, Idles
  <2>4. Steady'
    BY <1>2, <2>2 DEF Resting, Steady
  <2> QED
    BY <1>2, <1>3, <2>2, <2>3, <2>4 DEF Resting, Browse, Held
<1> QED
  BY <1>4, <1>5, <1>6, <1>7 DEF Situation

LEMMA Closes ==
  ASSUME IInv, Closed
  PROVE  IInv'
<1> USE DEF IInv
<1>1. "replay" \in Coroutines /\ "setup" \in Coroutines /\ "close" \in Coroutines
  BY NamesOfCoroutines
<1>2. /\ Quiet /\ node = "closing" /\ node' = "closed" /\ handles' = {} /\ sub' = None
      /\ UNCHANGED <<kind, wanted, pc, request, visited, up, ever, clash>>
  BY DEF Closed
<1>3. \/ /\ subs' = subs \ {own["close"]} /\ items' = items \ (ending["close"] \cup On(own["close"]))
         /\ failed' = failed
      \/ failed' = TRUE /\ subs' = subs /\ items' = items
  BY DEF Closed
<1>4. /\ DOMAIN ending' = Coroutines /\ DOMAIN own' = Coroutines
      /\ \A d \in Coroutines \ {"close"} : ending'[d] = ending[d]
  BY <1>1 DEF Closed, Shape
<1>5. Shape'
  BY <1>2, <1>3, <1>4, ZenonT(30) DEF Shape, Browse
<1>6. Unopened'
  BY <1>2, <1>3 DEF Unopened
<1>7. ClientItems'
  <2>1. Quiet' /\ items' \subseteq items
    BY <1>2, <1>3 DEF Quiet
  <2> QED
    BY <1>2, <1>4, <2>1 DEF ClientItems, Shape
<1>8. ASSUME Good' PROVE Resting'
  <2>1. Good /\ subs' = subs \ {own["close"]} /\ items' = items \ (ending["close"] \cup On(own["close"]))
    BY <1>2, <1>3, <1>8 DEF Good
  <2>2. Resting
    BY <1>2, <2>1 DEF Situation, SetUp, ItemsGo, SubGoes, Dropped
  <2>3. Settled' /\ \A d \in Coroutines : Idles(d)'
    BY <1>2, <2>2 DEF Resting, Settled, Idles
  <2>4. subs' = {} /\ items' = {}
    BY <1>2, <2>1, <2>2 DEF Resting, Steady
  <2> QED
    BY <1>2, <2>3, <2>4 DEF Resting, Steady, Browse
<1> QED
  BY <1>5, <1>6, <1>7, <1>8 DEF Situation

-----------------------------------------------------------------------------
(* A connection is made, the first one or another one.                      *)

Wakes(c) == IF pc[c] = "connecting" THEN "ready" ELSE pc[c]

LEMMA WokenUp ==
  ASSUME Shape
  PROVE  Woken \in [Coroutines -> Stages] /\ \A c \in Coroutines : Woken[c] = Wakes(c)
<1>1. \A c \in Coroutines : Wakes(c) \in Stages
  BY DEF Shape, Stages, Wakes
<1>2. Woken = [c \in Coroutines |-> Wakes(c)]
  BY DEF Woken, Wakes
<1> QED
  BY <1>1, <1>2

LEMMA ConnectsAtAll ==
  ASSUME Shape, Connect
  PROVE  /\ Quiet /\ up' = TRUE /\ ever' = TRUE /\ items' = {}
         /\ UNCHANGED <<kind, node, wanted, request, ending>>
         /\ clash' = (SetsUpTwice \/ (~StartsAnew /\ (clash \/ node = "closing")))
         /\ failed' = (failed /\ ~StartsAnew)
         /\ IF ever /\ node # "closed" THEN handles' = {} /\ sub' = None ELSE UNCHANGED <<handles, sub>>
         /\ pc["setup"] = "idle" /\ pc["replay"] \in {"idle", "endItems"}
         /\ pc["replay"] = "endItems" => kind = "event"
<1>1. "replay" \in Coroutines /\ "setup" \in Coroutines
  BY NamesOfCoroutines
<1>2. /\ Quiet /\ up' = TRUE /\ ever' = TRUE
      /\ UNCHANGED <<kind, node, wanted, request, ending>>
      /\ clash' = (SetsUpTwice \/ (~StartsAnew /\ (clash \/ node = "closing")))
      /\ failed' = (failed /\ ~StartsAnew)
  BY DEF Connect, ClientConnects, EventConnects, BrowseConnects
<1>3. items' = {}
  BY DEF Connect, ClientConnects, EventConnects, BrowseConnects
<1>4. IF ever /\ node # "closed" THEN handles' = {} /\ sub' = None ELSE UNCHANGED <<handles, sub>>
  BY DEF Connect, ClientConnects, EventConnects, BrowseConnects, LeftOnReplacement
<1>5. /\ pc["setup"] = "idle" /\ pc["replay"] \in {"idle", "endItems"}
      /\ pc["replay"] = "endItems" => kind = "event"
  BY <1>1, <1>2 DEF Shape, Quiet
<1> QED
  BY <1>2, <1>3, <1>4, <1>5

LEMMA ClientConnectsSo ==
  ASSUME Shape, Connect, kind = "client"
  PROVE  /\ pc' \in [Coroutines -> Stages] /\ DOMAIN own' = Coroutines /\ own' = own /\ subs' = {}
         /\ \A d \in Coroutines \ {"replay"} : pc'[d] = Wakes(d)
         /\ pc'["replay"] = IF ever /\ node # "closed" /\ wanted # {} THEN "ready" ELSE "idle"
         /\ ever /\ node # "closed" => visited' = {}
<1>1. "replay" \in Coroutines /\ "ready" \in Stages /\ "idle" \in Stages
  BY NamesOfCoroutines DEF Stages
<1>2. pc["replay"] = "idle"
  BY ConnectsAtAll
<1>3. ClientConnects
  BY DEF Connect
<1>4. Woken \in [Coroutines -> Stages] /\ Woken["replay"] = "idle"
  BY <1>1, <1>2, WokenUp DEF Wakes
<1>5. pc' = [Woken EXCEPT !["replay"] =
               IF ever /\ node # "closed" /\ wanted # {} THEN "ready" ELSE "idle"]
  BY <1>2, <1>3, <1>4 DEF ClientConnects
<1>6. /\ pc' \in [Coroutines -> Stages]
      /\ \A d \in Coroutines \ {"replay"} : pc'[d] = Wakes(d)
      /\ pc'["replay"] = IF ever /\ node # "closed" /\ wanted # {} THEN "ready" ELSE "idle"
  BY <1>1, <1>4, <1>5, WokenUp
<1> QED
  BY <1>3, <1>6 DEF ClientConnects, Shape

LEMMA EventConnectsSo ==
  ASSUME Shape, Connect, kind = "event"
  PROVE  /\ pc' \in [Coroutines -> Stages] /\ DOMAIN own' = Coroutines /\ own' = own /\ subs' = {}
         /\ \A d \in Coroutines \ {"replay"} : pc'[d] = Wakes(d)
         /\ pc'["replay"] = IF ever /\ node # "closed" /\ wanted # {} /\ pc["replay"] = "idle"
                            THEN "ready" ELSE pc["replay"]
<1>1. "replay" \in Coroutines /\ "ready" \in Stages
  BY NamesOfCoroutines DEF Stages
<1>2. pc["replay"] \in {"idle", "endItems"} /\ pc["replay"] \in Stages
  BY <1>1, ConnectsAtAll DEF Shape
<1>3. EventConnects
  BY DEF Connect
<1>4. Woken \in [Coroutines -> Stages] /\ Woken["replay"] = pc["replay"]
  BY <1>1, <1>2, WokenUp DEF Wakes
<1>5. CASE ever /\ node # "closed"
  <2>1. pc' = [Woken EXCEPT !["replay"] =
                 IF wanted # {} /\ pc["replay"] = "idle" THEN "ready" ELSE pc["replay"]]
    BY <1>3, <1>4, <1>5 DEF EventConnects
  <2>2. /\ pc' \in [Coroutines -> Stages]
        /\ \A d \in Coroutines \ {"replay"} : pc'[d] = Wakes(d)
        /\ pc'["replay"] = IF wanted # {} /\ pc["replay"] = "idle" THEN "ready" ELSE pc["replay"]
    BY <1>1, <1>2, <1>4, <2>1, WokenUp
  <2> QED
    BY <1>3, <1>5, <2>2 DEF EventConnects, Shape
<1>6. CASE ~(ever /\ node # "closed")
  <2>1. pc' = Woken
    BY <1>3, <1>6 DEF EventConnects
  <2> QED
    BY <1>1, <1>3, <1>4, <1>6, <2>1, WokenUp DEF EventConnects, Shape
<1> QED
  BY <1>5, <1>6

LEMMA BrowseConnectsSo ==
  ASSUME Shape, Connect, Browse
  PROVE  /\ pc' \in [Coroutines -> Stages] /\ DOMAIN own' = Coroutines
         /\ \A d \in Coroutines \ {"replay", "setup"} : pc'[d] = Wakes(d) /\ own'[d] = own[d]
         /\ pc'["setup"] = IF SetsUpFirst THEN "creating" ELSE "idle"
         /\ pc'["replay"] = IF SetsUpAgain THEN "creating" ELSE "idle"
         /\ SetsUpFirst => own'["setup"] = 1
         /\ SetsUpAgain => own'["replay"] = 2
         /\ subs' = (IF SetsUpFirst THEN {1} ELSE {}) \cup (IF SetsUpAgain THEN {2} ELSE {})
<1>1. "replay" \in Coroutines /\ "setup" \in Coroutines /\ "creating" \in Stages /\ "idle" \in Stages
  BY NamesOfCoroutines DEF Stages
<1>2. pc["replay"] = "idle" /\ pc["setup"] = "idle"
  BY ConnectsAtAll DEF Browse
<1>3. BrowseConnects
  BY DEF Connect, Browse
<1>4. Woken \in [Coroutines -> Stages] /\ Woken["replay"] = "idle" /\ Woken["setup"] = "idle"
  BY <1>1, <1>2, WokenUp DEF Wakes
<1>5. pc' = [Woken EXCEPT !["setup"] = IF SetsUpFirst THEN "creating" ELSE "idle",
                          !["replay"] = IF SetsUpAgain THEN "creating" ELSE "idle"]
  BY <1>1, <1>3, <1>4 DEF BrowseConnects
<1>6. /\ pc' \in [Coroutines -> Stages]
      /\ \A d \in Coroutines \ {"replay", "setup"} : pc'[d] = Wakes(d)
      /\ pc'["setup"] = IF SetsUpFirst THEN "creating" ELSE "idle"
      /\ pc'["replay"] = IF SetsUpAgain THEN "creating" ELSE "idle"
  BY <1>1, <1>4, <1>5, WokenUp
<1>7. DOMAIN own = Coroutines
  BY DEF Shape
<1>8. own' = [own EXCEPT !["setup"] = IF SetsUpFirst THEN 1 ELSE own["setup"],
                         !["replay"] = IF SetsUpAgain THEN 2 ELSE own["replay"]]
  BY <1>1, <1>3, <1>7 DEF BrowseConnects
<1>9. /\ DOMAIN own' = Coroutines
      /\ \A d \in Coroutines \ {"replay", "setup"} : own'[d] = own[d]
      /\ SetsUpFirst => own'["setup"] = 1
      /\ SetsUpAgain => own'["replay"] = 2
  BY <1>1, <1>7, <1>8
<1> QED
  BY <1>3, <1>6, <1>9 DEF BrowseConnects

(* Another session, with nothing under way: all that was on the old one is  *)
(* dropped, and what was asked for is to come.                              *)
LEMMA ReplacesAtRest ==
  ASSUME Shape, Connect, Good', ever, node = "running", \A c \in Coroutines : Idles(c)
  PROVE  Situation'
<1>1. "replay" \in Coroutines /\ "setup" \in Coroutines /\ "close" \in Coroutines
  BY NamesOfCoroutines
<1>2. /\ ever' = TRUE /\ items' = {} /\ handles' = {} /\ sub' = None
      /\ UNCHANGED <<kind, node, wanted>> /\ ~SetsUpTwice /\ pc["setup"] = "idle"
  BY ConnectsAtAll DEF Good
<1>3. pc["replay"] = "idle"
  BY <1>1, ConnectsAtAll DEF Idles
<1>4. \A c \in Coroutines : Wakes(c) \in {"idle", "ready"}
  BY DEF Idles, Wakes
<1>5. CASE kind = "client"
  <2>1. /\ subs' = {} /\ visited' = {} /\ \A d \in Coroutines \ {"replay"} : pc'[d] = Wakes(d)
        /\ pc'["replay"] = IF wanted # {} THEN "ready" ELSE "idle"
    BY <1>5, ClientConnectsSo
  <2>2. \A d \in Coroutines : Idles(d)'
    BY <1>4, <2>1 DEF Idles
  <2>3. \A t \in wanted' : ToCome(t)'
    BY <1>2, <1>5, <2>1 DEF ToCome
  <2>4. Resting'
    BY <1>2, <1>5, <2>1, <2>2, <2>3 DEF Resting, Steady, Browse
  <2> QED
    BY <2>4 DEF Situation
<1>6. CASE kind = "event"
  <2>1. /\ subs' = {} /\ \A d \in Coroutines \ {"replay"} : pc'[d] = Wakes(d)
        /\ pc'["replay"] = IF wanted # {} THEN "ready" ELSE "idle"
    BY <1>3, <1>6, EventConnectsSo
  <2>2. \A d \in Coroutines : Idles(d)'
    BY <1>4, <2>1 DEF Idles
  <2>3. \A t \in wanted' : ToCome(t)'
    BY <1>2, <1>6, <2>1 DEF ToCome
  <2>4. Resting'
    BY <1>2, <1>6, <2>1, <2>2, <2>3 DEF Resting, Steady, Browse
  <2> QED
    BY <2>4 DEF Situation
<1>7. CASE kind = "browseRead"
  <2>1. ~SetsUpFirst /\ ~SetsUpAgain
    BY <1>7 DEF SetsUpFirst, SetsUpAgain, Passive
  <2>2. /\ subs' = {} /\ \A d \in Coroutines \ {"replay", "setup"} : pc'[d] = Wakes(d)
        /\ pc'["replay"] = "idle" /\ pc'["setup"] = "idle"
    BY <1>7, <2>1, BrowseConnectsSo DEF Browse
  <2>3. \A d \in Coroutines : Idles(d)'
    BY <1>4, <2>2 DEF Idles
  <2>4. \A t \in wanted' : ToCome(t)'
    BY <1>2, <1>7 DEF ToCome
  <2>5. Resting'
    BY <1>2, <1>7, <2>2, <2>3, <2>4 DEF Resting, Steady, Browse
  <2> QED
    BY <2>5 DEF Situation
<1>8. CASE kind = "browseSubscribe"
  <2>1. ~SetsUpFirst /\ SetsUpAgain
    BY <1>2, <1>8 DEF SetsUpTwice, SetsUpAgain, Passive
  <2>2. /\ subs' = {2} /\ \A d \in Coroutines \ {"replay", "setup"} : pc'[d] = Wakes(d)
        /\ pc'["replay"] = "creating" /\ pc'["setup"] = "idle" /\ own'["replay"] = 2
    BY <1>8, <2>1, BrowseConnectsSo DEF Browse
  <2>3. OthersIdle("replay")'
    BY <1>4, <2>2 DEF OthersIdle, Idles
  <2>4. 2 # None
    BY SubsAssumption
  <2>5. SetUp("replay")'
    BY <1>2, <1>8, <2>2, <2>3, <2>4 DEF SetUp, Empty
  <2> QED
    BY <1>1, <2>5 DEF Situation
<1> QED
  BY <1>5, <1>6, <1>7, <1>8 DEF Shape

(* Another session, while something is awaited of the old one.              *)
LEMMA ReplacesUnderWay ==
  ASSUME Shape, Connect, Good', ever, node = "running", Situation,
         NEW c \in Coroutines, pc[c] \in {"endItems", "endSub"}
  PROVE  Situation'
<1>1. "replay" \in Coroutines /\ "setup" \in Coroutines
  BY NamesOfCoroutines
<1>2. /\ Quiet /\ ever' = TRUE /\ items' = {} /\ handles' = {} /\ sub' = None
      /\ UNCHANGED <<kind, node, wanted, request, ending>> /\ ~SetsUpTwice /\ pc["setup"] = "idle"
  BY ConnectsAtAll DEF Good
<1>3. \/ ItemsGo(c) \/ SubGoes(c) \/ Dropped(c)
  BY <1>2, ItemsAwaited, SubAwaited
<1>4. OthersIdle(c) /\ (pc[c] = "endItems" => ending[c] # {}) /\ (pc[c] = "endSub" => wanted = {})
  BY <1>2, <1>3, DroppedQuiet DEF ItemsGo, SubGoes, Dropped
<1>5. \A d \in Coroutines \ {c} : Wakes(d) \in {"idle", "ready"}
  BY <1>4 DEF OthersIdle, Idles, Wakes
<1>6. Wakes(c) = pc[c]
  BY DEF Wakes
<1>7. pc["replay"] \in {"idle", "endItems"} /\ (pc["replay"] = "endItems" => kind = "event")
  BY ConnectsAtAll
<1>8. CASE kind \in {"client", "event"}
  <2>1. subs' = {} /\ \A d \in Coroutines \ {"replay"} : pc'[d] = Wakes(d)
    BY <1>8, ClientConnectsSo, EventConnectsSo
  <2>2. c = "replay" => pc'[c] = pc[c]
    <3>1. SUFFICES ASSUME c = "replay" PROVE pc'[c] = pc[c]
      OBVIOUS
    <3>2. pc["replay"] = "endItems" /\ kind = "event"
      BY <1>7, <3>1
    <3> QED
      BY <3>1, <3>2, EventConnectsSo
  <2>3. pc'[c] = pc[c]
    BY <1>6, <2>1, <2>2
  <2>4. c # "replay" => pc'["replay"] \in {"idle", "ready"}
    <3>1. SUFFICES ASSUME c # "replay" PROVE pc'["replay"] \in {"idle", "ready"}
      OBVIOUS
    <3>2. pc["replay"] = "idle"
      BY <1>1, <1>4, <1>7, <3>1 DEF OthersIdle, Idles
    <3> QED
      BY <1>8, <3>2, ClientConnectsSo, EventConnectsSo
  <2>5. OthersIdle(c)'
    BY <1>5, <2>1, <2>4 DEF OthersIdle, Idles
  <2>6. Dropped(c)'
    BY <1>2, <1>4, <2>1, <2>3, <2>5 DEF Dropped, Empty
  <2> QED
    BY <2>6 DEF Situation
<1>9. CASE Browse
  <2>0. c # "replay" /\ c # "setup"
    BY <1>2, <1>7, <1>9 DEF Browse
  <2>1. \A d \in Coroutines \ {"replay", "setup"} : pc'[d] = Wakes(d)
    BY <1>9, BrowseConnectsSo
  <2>2. pc'[c] = pc[c]
    BY <1>6, <2>0, <2>1
  <2>3. CASE kind = "browseRead"
    <3>1. ~SetsUpFirst /\ ~SetsUpAgain
      BY <2>3 DEF SetsUpFirst, SetsUpAgain, Passive
    <3>2. subs' = {} /\ pc'["replay"] = "idle" /\ pc'["setup"] = "idle"
      BY <1>9, <3>1, BrowseConnectsSo
    <3>3. OthersIdle(c)'
      BY <1>5, <2>1, <3>2 DEF OthersIdle, Idles
    <3>4. Dropped(c)'
      BY <1>2, <1>4, <2>2, <3>2, <3>3 DEF Dropped, Empty
    <3> QED
      BY <3>4 DEF Situation
  <2>4. CASE kind = "browseSubscribe"
    <3>1. SetsUpAgain
      BY <2>4 DEF SetsUpAgain, Passive
    <3>2. pc'["replay"] = "creating"
      BY <1>9, <3>1, BrowseConnectsSo
    <3>3. Dropped(c)'
      BY <1>1, <1>2, <1>4, <2>0, <2>2, <2>4, <3>2 DEF Dropped, Empty
    <3> QED
      BY <3>3 DEF Situation
  <2> QED
    BY <1>9, <2>3, <2>4 DEF Browse
<1> QED
  BY <1>8, <1>9 DEF Shape, Browse

(* The first session, or one for a node that is closed.                     *)
LEMMA ConnectsForNothing ==
  ASSUME Shape, Unopened, Connect, Good', Resting, ~ever \/ node = "closed", node # "closing"
  PROVE  Situation'
<1>1. "replay" \in Coroutines /\ "setup" \in Coroutines /\ "close" \in Coroutines
  BY NamesOfCoroutines
<1>2. /\ ever' = TRUE /\ items' = {} /\ handles' = handles /\ sub' = sub
      /\ UNCHANGED <<kind, node, wanted, request, ending>> /\ pc["setup"] = "idle"
  BY ConnectsAtAll
<1>3. handles = {} /\ sub = None
  BY DEF Unopened, Resting, Steady
<1>4. \A c \in Coroutines : Wakes(c) \in {"idle", "ready"}
  BY DEF Resting, Idles, Wakes
<1>5. node # "running" => \A c \in Coroutines : Wakes(c) = "idle"
  BY DEF Resting, Settled, Wakes
<1>6. pc["replay"] = "idle"
  BY <1>1, ConnectsAtAll DEF Resting, Idles
<1>7. kind # "browseSubscribe" /\ node = "running" => wanted = {}
  BY DEF Unopened, Shape
<1>8. ~SetsUpAgain
  BY DEF SetsUpAgain, Shape
<1>9. CASE Browse /\ SetsUpFirst
  <2>1. node = "running" /\ kind = "browseSubscribe"
    BY <1>9 DEF SetsUpFirst, Passive, Shape
  <2>2. /\ subs' = {1} /\ \A d \in Coroutines \ {"replay", "setup"} : pc'[d] = Wakes(d)
        /\ pc'["setup"] = "creating" /\ pc'["replay"] = "idle" /\ own'["setup"] = 1
    BY <1>8, <1>9, BrowseConnectsSo
  <2>3. OthersIdle("setup")'
    BY <1>4, <2>2 DEF OthersIdle, Idles
  <2>4. 1 # None
    BY SubsAssumption
  <2>5. SetUp("setup")'
    BY <1>2, <1>3, <2>1, <2>2, <2>3, <2>4 DEF SetUp, Empty
  <2> QED
    BY <1>1, <2>5 DEF Situation
<1>10. CASE ~(Browse /\ SetsUpFirst)
  <2>1. subs' = {} /\ \A d \in Coroutines : pc'[d] = Wakes(d)
    <3>1. CASE kind = "client"
      BY <1>1, <1>6, <3>1, ClientConnectsSo DEF Wakes, Shape
    <3>2. CASE kind = "event"
      BY <1>1, <1>6, <3>2, EventConnectsSo DEF Wakes, Shape
    <3>3. CASE Browse
      BY <1>1, <1>2, <1>6, <1>8, <1>10, <3>3, BrowseConnectsSo DEF Wakes
    <3> QED
      BY <3>1, <3>2, <3>3 DEF Shape, Browse
  <2>2. \A c \in Coroutines : Idles(c)'
    BY <1>4, <2>1 DEF Idles
  <2>3. node' # "running" => Settled'
    BY <1>2, <1>5, <2>1 DEF Settled
  <2>4. node = "running" => wanted = {}
    BY <1>3, <1>7, <1>10 DEF Browse, SetsUpFirst, Passive
  <2>5. Resting'
    BY <1>2, <1>3, <2>1, <2>2, <2>3, <2>4 DEF Resting, Steady, Browse
  <2> QED
    BY <2>5 DEF Situation
<1> QED
  BY <1>9, <1>10

LEMMA Connects ==
  ASSUME IInv, Connect
  PROVE  IInv'
<1> USE DEF IInv
<1>1. "replay" \in Coroutines /\ "setup" \in Coroutines /\ "close" \in Coroutines
      /\ "replay" # "setup" /\ "replay" # "close" /\ "setup" # "close"
  BY NamesOfCoroutines
<1>2. /\ Quiet /\ up' = TRUE /\ ever' = TRUE /\ items' = {}
      /\ UNCHANGED <<kind, node, wanted, request, ending>>
      /\ clash' = (SetsUpTwice \/ (~StartsAnew /\ (clash \/ node = "closing")))
      /\ failed' = (failed /\ ~StartsAnew)
      /\ pc["setup"] = "idle" /\ pc["replay"] \in {"idle", "endItems"}
      /\ pc["replay"] = "endItems" => kind = "event"
  BY ConnectsAtAll
<1>3. /\ pc' \in [Coroutines -> Stages] /\ DOMAIN own' = Coroutines
      /\ \A d \in Coroutines \ {"replay", "setup"} : pc'[d] = Wakes(d)
      /\ pc'["setup"] \in {"idle", "creating"}
      /\ pc'["replay"] \in {"idle", "ready", "creating"} \/ pc'["replay"] = pc["replay"]
  <2>1. CASE kind = "client"
    BY <1>1, <1>2, <2>1, ClientConnectsSo DEF Wakes
  <2>2. CASE kind = "event"
    BY <1>1, <1>2, <2>2, EventConnectsSo DEF Wakes
  <2>3. CASE Browse
    BY <1>1, <1>2, <2>3, BrowseConnectsSo DEF Wakes
  <2> QED
    BY <2>1, <2>2, <2>3 DEF Shape, Browse
<1>4. clash' \in BOOLEAN /\ failed' \in BOOLEAN
  BY <1>2 DEF Shape
<1>5. pc'["close"] = "idle"
  BY <1>1, <1>3 DEF Shape, Wakes
<1>6. Shape'
  BY <1>2, <1>3, <1>4, <1>5 DEF Shape, Browse
<1>7. Unopened'
  BY <1>2 DEF Unopened
<1>8. ClientItems'
  <2>1. \A c \in Coroutines : pc'[c] = "endItems" => pc[c] = "endItems"
    BY <1>1, <1>2, <1>3 DEF Wakes
  <2> QED
    BY <1>2, <2>1 DEF ClientItems
<1>9. ASSUME Good' PROVE Situation'
  <2>1. CASE ever /\ node = "running" /\ \A c \in Coroutines : Idles(c)
    BY <1>9, <2>1, ReplacesAtRest
  <2>2. CASE ever /\ node = "running" /\ ~(\A c \in Coroutines : Idles(c))
    <3>1. PICK c \in Coroutines : pc[c] \in {"endItems", "endSub"}
      BY <1>2, <2>2 DEF Idles, Quiet, Shape, Stages
    <3>2. ~StartsAnew
      BY <3>1 DEF StartsAnew, Settled
    <3>3. Situation
      BY <1>2, <1>9, <3>2 DEF Good
    <3> QED
      BY <1>9, <2>2, <3>1, <3>3, ReplacesUnderWay
  <2>3. CASE ~ever \/ node # "running"
    <3>1. ~StartsAnew
      BY <2>3 DEF StartsAnew
    <3>2. Good /\ node # "closing"
      BY <1>2, <1>9, <3>1 DEF Good
    <3>3. Resting
      BY <2>3, <3>2 DEF Situation, SetUp, ItemsGo, SubGoes, Dropped, Unopened
    <3> QED
      BY <1>9, <2>3, <3>2, <3>3, ConnectsForNothing DEF Shape
  <2> QED
    BY <2>1, <2>2, <2>3
<1> QED
  BY <1>6, <1>7, <1>8, <1>9

-----------------------------------------------------------------------------
(* The event node.                                                          *)

(* subscribeEvents() of c, when nothing else is under way.                  *)
LEMMA EventSubscribesTo ==
  ASSUME IInv, NEW c \in Coroutines, NEW t, kind = "event", c \in Messages \/ c = "replay",
         pc[c] = "ready", Subscribes(c, t), wanted' = {t},
         UNCHANGED <<kind, node, sub, visited, up, ever, failed>>
  PROVE  IInv'
<1> USE DEF IInv
<1>1. c # "setup" /\ c # "close" /\ DOMAIN request = Coroutines /\ DOMAIN own = Coroutines /\ DOMAIN ending = Coroutines
  BY NamesOfCoroutines DEF Shape
<1>2. Unopened'
  BY StillOpened
<1>3. ClientItems'
  BY DEF ClientItems
<1>4. clash' = (clash \/ Clashes(c))
  BY DEF Subscribes, Creates
<1>5. ASSUME Good' PROVE Resting /\ node = "running"
  <2>1. Good /\ ~Clashes(c)
    BY <1>4, <1>5 DEF Good, Shape
  <2> QED
    BY <2>1, ReadyRests
<1>6. ASSUME Good', \A d \in Coroutines \ {c} : pc'[d] = pc[d] PROVE OthersIdle(c)'
  BY <1>5, <1>6 DEF OthersIdle, Resting, Idles
<1>7. CASE sub = None
  <2>1. /\ Creates(c) /\ request' = [request EXCEPT ![c] = [op |-> "subscribe", topic |-> t]]
        /\ UNCHANGED <<handles, items, ending>>
    BY <1>7 DEF Subscribes
  <2>2. PICK s : s # None /\ own'[c] = s /\ subs' = subs \cup {s}
    BY <2>1, CreatesOne
  <2>3. /\ DOMAIN own' = Coroutines /\ \A d \in Coroutines \ {c} : own'[d] = own[d]
        /\ pc' \in [Coroutines -> Stages] /\ pc'[c] = "creating"
        /\ \A d \in Coroutines \ {c} : pc'[d] = pc[d]
    BY <2>1, CreatesOne
  <2>4. /\ DOMAIN request' = Coroutines /\ request'[c].topic = t
        /\ \A d \in Coroutines \ {c} : request'[d] = request[d]
    BY <1>1, <2>1
  <2>5. Shape'
    BY <1>1, <1>4, <2>1, <2>3, <2>4, Reshaped DEF Shape, Browse
  <2>6. ASSUME Good' PROVE SetUp(c)'
    <3>1. Empty' /\ subs' = {own[c]}'
      BY <1>5, <1>7, <2>1, <2>2, <2>6 DEF Resting, Steady, Empty
    <3>2. OthersIdle(c)'
      BY <1>6, <2>3, <2>6
    <3> QED
      BY <1>5, <2>2, <2>3, <2>4, <2>6, <3>1, <3>2 DEF SetUp
  <2> QED
    BY <1>2, <1>3, <2>5, <2>6 DEF Situation
<1>8. CASE sub # None /\ handles # {}
  <2>1. /\ Goes(c, "endItems") /\ ending' = [ending EXCEPT ![c] = handles]
        /\ own' = [own EXCEPT ![c] = None] /\ UNCHANGED <<handles, items, subs>>
        /\ request' = [request EXCEPT ![c] = [op |-> "subscribe", topic |-> t]]
    BY <1>8 DEF Subscribes, ReplaceItem
  <2>2. /\ pc' \in [Coroutines -> Stages] /\ pc'[c] = "endItems"
        /\ \A d \in Coroutines \ {c} : pc'[d] = pc[d]
    BY <2>1, GoesTo DEF Stages
  <2>3. /\ DOMAIN request' = Coroutines /\ request'[c].topic = t /\ request'[c].op = "subscribe"
        /\ \A d \in Coroutines \ {c} : request'[d] = request[d]
        /\ DOMAIN own' = Coroutines /\ DOMAIN ending' = Coroutines /\ ending'[c] = handles
    BY <1>1, <2>1
  <2>4. Shape'
    BY <1>1, <1>4, <2>1, <2>2, <2>3, Reshaped DEF Shape, Browse
  <2>5. ASSUME Good' PROVE ItemsGo(c)'
    <3>1. Steady'
      BY <1>5, <2>1, <2>5 DEF Resting, Steady
    <3>2. OthersIdle(c)'
      BY <1>6, <2>2, <2>5
    <3> QED
      BY <1>5, <1>8, <2>1, <2>2, <2>3, <2>5, <3>1, <3>2 DEF ItemsGo
  <2> QED
    BY <1>2, <1>3, <2>4, <2>5 DEF Situation
<1>9. CASE sub # None /\ handles = {}
  <2>1. CreateItem(sub, t) /\ Ends(c) /\ UNCHANGED subs
    BY <1>9 DEF Subscribes, ReplaceItem
  <2>2. /\ pc' \in [Coroutines -> Stages] /\ pc'[c] = "idle"
        /\ DOMAIN request' = Coroutines /\ DOMAIN own' = Coroutines /\ DOMAIN ending' = Coroutines
        /\ \A d \in Coroutines \ {c} : /\ pc'[d] = pc[d] /\ request'[d] = request[d]
    BY <2>1, EndsThere
  <2>3. PICK i : /\ i.topic = t /\ handles' = {i}
                 /\ items' = IF sub \in subs THEN items \cup {i} ELSE items
    BY <1>9, <2>1, CreatesItem
  <2>4. Shape'
    BY <1>1, <1>4, <2>2, Reshaped DEF Shape, Browse
  <2>5. ASSUME Good' PROVE Resting'
    <3>1. \A d \in Coroutines : Idles(d)'
      BY <1>5, <2>2, <2>5 DEF Resting, Idles
    <3>2. Steady'
      BY <1>5, <1>9, <2>1, <2>3, <2>5 DEF Resting, Steady
    <3>3. Held(t)'
      BY <2>3 DEF Held
    <3> QED
      BY <1>5, <2>3, <2>5, <3>1, <3>2, <3>3 DEF Resting, Browse
  <2> QED
    BY <1>2, <1>3, <2>4, <2>5 DEF Situation
<1> QED
  BY <1>7, <1>8, <1>9

LEMMA EventSubscribes ==
  ASSUME IInv, NEW c \in Messages \cup {"replay"}, kind = "event", EventSubscribe(c)
  PROVE  IInv'
<1>1. PICK t : t = request[c].topic
  OBVIOUS
<1>2. /\ c \in Messages /\ pc[c] = "ready" /\ wanted' = {t} /\ Subscribes(c, t)
      /\ UNCHANGED <<kind, node, sub, visited, up, ever, failed>>
  BY <1>1 DEF EventSubscribe
<1>3. c \in Coroutines
  BY NamesOfCoroutines
<1> QED
  BY <1>2, <1>3, EventSubscribesTo

LEMMA EventReplaysIt ==
  ASSUME IInv, kind = "event", EventReplays
  PROVE  IInv'
<1> USE DEF IInv
<1>1. "replay" \in Coroutines /\ "replay" # "setup" /\ "replay" # "close"
  BY NamesOfCoroutines
<1>2. /\ pc["replay"] = "ready"
      /\ UNCHANGED <<kind, node, wanted, sub, visited, up, ever, failed>>
  BY DEF EventReplays
<1>3. CASE wanted # {}
  <2>1. PICK t \in wanted : Subscribes("replay", t)
    BY <1>3 DEF EventReplays
  <2>2. wanted' = {t}
    BY <1>2, <2>1 DEF Shape
  <2> QED
    BY <1>1, <1>2, <2>1, <2>2, EventSubscribesTo
<1>4. CASE wanted = {}
  <2>1. Ends("replay") /\ UNCHANGED <<handles, subs, items, clash>>
    BY <1>4 DEF EventReplays
  <2>2. /\ pc' \in [Coroutines -> Stages] /\ pc'["replay"] = "idle"
        /\ DOMAIN request' = Coroutines /\ DOMAIN own' = Coroutines /\ DOMAIN ending' = Coroutines
        /\ \A d \in Coroutines \ {"replay"} : /\ pc'[d] = pc[d] /\ request'[d] = request[d]
                                              /\ own'[d] = own[d] /\ ending'[d] = ending[d]
    BY <1>1, <2>1, EndsThere
  <2>3. Shape'
    BY <1>1, <1>2, <2>1, <2>2, Reshaped DEF Shape, Browse
  <2>4. Unopened'
    BY <1>1, <1>2, StillOpened
  <2>5. ASSUME Good' PROVE Situation'
    <3>1. Situation
      BY <1>2, <2>1, <2>5 DEF Good
    <3>2. Idles("replay") /\ Idles("replay")'
      BY <1>2, <2>2 DEF Idles
    <3> QED
      BY <1>1, <1>2, <1>4, <2>1, <2>2, <3>1, <3>2, Elsewhere
  <2> QED
    BY <1>2, <2>3, <2>4, <2>5 DEF ClientItems
<1> QED
  BY <1>3, <1>4

LEMMA EventCreates ==
  ASSUME IInv, NEW c \in Messages \cup {"replay"}, kind = "event", EventCreated(c)
  PROVE  IInv'
<1> USE DEF IInv
<1>0. PICK t : t = request[c].topic
  OBVIOUS
<1>1. c \in Coroutines /\ c # "setup" /\ c # "close"
  BY NamesOfCoroutines
<1>2. /\ pc[c] = "creating" /\ sub' = own[c] /\ ReplaceItem(c, own[c], t) /\ clash' = (clash \/ Clashes(c))
      /\ UNCHANGED <<kind, node, wanted, visited, up, ever, subs, failed>>
      /\ DOMAIN request = Coroutines /\ DOMAIN own = Coroutines /\ DOMAIN ending = Coroutines
  BY <1>0 DEF EventCreated, Shape
<1>3. Unopened'
  BY <1>1, <1>2, StillOpened
<1>4. ClientItems'
  BY <1>2 DEF ClientItems
<1>5. ASSUME Good' PROVE SetUp(c)
  <2>1. Good /\ ~Clashes(c)
    BY <1>2, <1>5 DEF Good, Shape
  <2> QED
    BY <1>1, <1>2, <2>1, CreatingSetsUp
<1>6. CASE handles # {}
  <2>1. /\ Goes(c, "endItems") /\ ending' = [ending EXCEPT ![c] = handles]
        /\ own' = [own EXCEPT ![c] = None]
        /\ request' = [request EXCEPT ![c] = [op |-> "subscribe", topic |-> t]]
    BY <1>2, <1>6 DEF ReplaceItem
  <2>2. /\ pc' \in [Coroutines -> Stages] /\ pc'[c] = "endItems"
        /\ \A d \in Coroutines \ {c} : pc'[d] = pc[d]
    BY <1>1, <2>1, GoesTo DEF Stages
  <2>3. /\ DOMAIN request' = Coroutines /\ request'[c].op = "subscribe"
        /\ \A d \in Coroutines \ {c} : request'[d] = request[d]
        /\ DOMAIN own' = Coroutines /\ DOMAIN ending' = Coroutines
    BY <1>1, <1>2, <2>1
  <2>4. Shape'
    BY <1>1, <1>2, <2>2, <2>3, Reshaped DEF Shape, Browse
  <2>5. ~Good'
    BY <1>5, <1>6 DEF SetUp, Empty
  <2> QED
    BY <1>3, <1>4, <2>4, <2>5
<1>7. CASE handles = {}
  <2>1. CreateItem(own[c], t) /\ Ends(c)
    BY <1>2, <1>7 DEF ReplaceItem
  <2>2. /\ pc' \in [Coroutines -> Stages] /\ pc'[c] = "idle"
        /\ DOMAIN request' = Coroutines /\ DOMAIN own' = Coroutines /\ DOMAIN ending' = Coroutines
        /\ \A d \in Coroutines \ {c} : /\ pc'[d] = pc[d] /\ request'[d] = request[d]
    BY <1>1, <2>1, EndsThere
  <2>3. Shape'
    BY <1>1, <1>2, <2>2, Reshaped DEF Shape, Browse
  <2>4. ASSUME Good' PROVE Resting'
    <3>1. /\ node = "running" /\ OthersIdle(c) /\ subs = {own[c]} /\ own[c] # None /\ items = {}
          /\ wanted = {t}
      BY <1>0, <1>2, <1>5, <2>4 DEF SetUp, Empty
    <3>2. PICK i : i.topic = t /\ handles' = {i} /\ items' = {i}
      BY <2>1, <3>1, CreatesItem
    <3>3. \A d \in Coroutines : Idles(d)'
      BY <2>2, <3>1 DEF OthersIdle, Idles
    <3>4. Steady' /\ Held(t)'
      BY <1>2, <3>1, <3>2 DEF Steady, Held
    <3> QED
      BY <1>2, <3>1, <3>2, <3>3, <3>4 DEF Resting, Browse
  <2> QED
    BY <1>3, <1>4, <2>3, <2>4 DEF Situation
<1> QED
  BY <1>6, <1>7

LEMMA EventItemIsReplaced ==
  ASSUME IInv, NEW c \in Messages \cup {"replay"}, kind = "event", EventItemReplaced(c)
  PROVE  IInv'
<1> USE DEF IInv
<1>0. PICK t : t = request[c].topic
  OBVIOUS
<1>1. c \in Coroutines /\ c # "setup" /\ c # "close"
  BY NamesOfCoroutines
<1>2. /\ Quiet /\ pc[c] = "endItems" /\ request[c].op = "subscribe" /\ Ends(c)
      /\ UNCHANGED <<kind, node, wanted, sub, visited, up, ever, subs, clash>>
  BY DEF EventItemReplaced
<1>3. PICK left \in {items \ ending[c], items}, lost \in BOOLEAN :
        /\ ~lost => ending[c] \subseteq items /\ left = items \ ending[c]
        /\ failed' = (failed \/ lost)
        /\ IF sub = None THEN handles' = {} /\ items' = left
           ELSE /\ Bounded(sub, {t})
                /\ handles' = {NewItem(sub, t)} /\ items' = left \cup Created(sub, {t})
  BY <1>0 DEF EventItemReplaced
<1>4. Unopened'
  BY <1>1, <1>2, StillOpened
<1>5. ClientItems'
  BY <1>2 DEF ClientItems
<1>6. /\ pc' \in [Coroutines -> Stages] /\ pc'[c] = "idle"
      /\ DOMAIN request' = Coroutines /\ DOMAIN own' = Coroutines /\ DOMAIN ending' = Coroutines
      /\ \A d \in Coroutines \ {c} : /\ pc'[d] = pc[d] /\ request'[d] = request[d]
  BY <1>1, <1>2, EndsThere
<1>7. failed' \in BOOLEAN
  BY <1>3 DEF Shape
<1>8. Shape'
  BY <1>1, <1>2, <1>6, <1>7, Reshaped DEF Shape, Browse
<1>9. ASSUME Good' PROVE Resting'
  <2>1. Good /\ ~lost /\ ending[c] \subseteq items
    BY <1>2, <1>3, <1>9 DEF Good, Shape
  <2>2. ~Dropped(c)
    BY <1>2, <2>1 DEF Dropped, Empty
  <2>3. ItemsGo(c)
    BY <1>1, <1>2, <2>1, <2>2, ItemsAwaited
  <2>4. /\ node = "running" /\ OthersIdle(c) /\ subs = {sub} /\ sub # None
        /\ ending[c] = items /\ wanted = {t}
    BY <1>0, <1>2, <2>3 DEF ItemsGo, Steady
  <2>5. left = {}
    BY <1>3, <2>1, <2>4
  <2>6. PICK i : i.topic = t /\ handles' = {i} /\ items' = {i}
    <3> DEFINE i == NewItem(sub, t)
    <3>1. i.topic = t /\ Created(sub, {t}) = {i} /\ handles' = {i}
      BY <1>3, <2>4 DEF NewItem, Created
    <3>2. items' = {i}
      BY <1>3, <2>4, <2>5, <3>1
    <3> QED
      BY <3>1, <3>2
  <2>7. \A d \in Coroutines : Idles(d)'
    BY <1>6, <2>4 DEF OthersIdle, Idles
  <2>8. Steady' /\ Held(t)'
    BY <1>2, <2>4, <2>6 DEF Steady, Held
  <2> QED
    BY <1>2, <2>4, <2>6, <2>7, <2>8 DEF Resting, Browse
<1> QED
  BY <1>4, <1>5, <1>8, <1>9 DEF Situation

(* What an event node and a browse node do to end all they have.            *)
LEMMA UnsubscribesFromAll ==
  ASSUME IInv, NEW m \in Messages, kind # "client",
         pc[m] = "ready", request[m].op = "unsubscribe", wanted' = {}, clash' = (clash \/ Clashes(m)),
         IF handles # {}
         THEN Goes(m, "endItems") /\ ending' = [ending EXCEPT ![m] = handles] /\ UNCHANGED <<own, request>>
         ELSE IF sub # None
         THEN Goes(m, "endSub") /\ own' = [own EXCEPT ![m] = sub] /\ UNCHANGED <<ending, request>>
         ELSE Ends(m),
         UNCHANGED <<kind, node, handles, sub, visited, up, ever, subs, items, failed>>
  PROVE  IInv'
<1> USE DEF IInv
<1>1. m \in Coroutines /\ m # "replay" /\ m # "setup" /\ m # "close"
      /\ DOMAIN request = Coroutines /\ DOMAIN own = Coroutines /\ DOMAIN ending = Coroutines
  BY NamesOfCoroutines DEF Shape
<1>2. Unopened'
  BY <1>1, StillOpened
<1>3. ClientItems'
  BY DEF ClientItems
<1>4. ASSUME Good' PROVE Resting /\ node = "running" /\ Steady'
  <2>1. Good /\ ~Clashes(m)
    BY <1>4 DEF Good, Shape
  <2>2. Resting /\ node = "running"
    BY <1>1, <2>1, ReadyRests
  <2> QED
    BY <2>2 DEF Resting, Steady
<1>5. ASSUME Good', \A d \in Coroutines \ {m} : pc'[d] = pc[d] PROVE OthersIdle(m)'
  BY <1>4, <1>5 DEF OthersIdle, Resting, Idles
<1>6. CASE handles # {}
  <2>1. Goes(m, "endItems") /\ ending' = [ending EXCEPT ![m] = handles] /\ UNCHANGED <<own, request>>
    BY <1>6
  <2>2. /\ pc' \in [Coroutines -> Stages] /\ pc'[m] = "endItems"
        /\ \A d \in Coroutines \ {m} : pc'[d] = pc[d]
    BY <1>1, <2>1, GoesTo DEF Stages
  <2>3. DOMAIN ending' = Coroutines /\ ending'[m] = handles
    BY <1>1, <2>1
  <2>4. Shape'
    BY <1>1, <2>1, <2>2, <2>3, Reshaped DEF Shape, Browse
  <2>5. ASSUME Good' PROVE ItemsGo(m)'
    <3>1. sub # None
      BY <1>4, <1>6, <2>5 DEF Resting, Steady
    <3>2. request'[m].op # "subscribe"
      BY <2>1
    <3> QED
      BY <1>4, <1>5, <1>6, <2>2, <2>3, <2>5, <3>1, <3>2 DEF ItemsGo
  <2> QED
    BY <1>1, <1>2, <1>3, <2>4, <2>5 DEF Situation
<1>7. CASE handles = {} /\ sub # None
  <2>1. Goes(m, "endSub") /\ own' = [own EXCEPT ![m] = sub] /\ UNCHANGED <<ending, request>>
    BY <1>7
  <2>2. /\ pc' \in [Coroutines -> Stages] /\ pc'[m] = "endSub"
        /\ \A d \in Coroutines \ {m} : pc'[d] = pc[d]
    BY <1>1, <2>1, GoesTo DEF Stages
  <2>3. DOMAIN own' = Coroutines /\ own'[m] = sub
    BY <1>1, <2>1
  <2>4. Shape'
    BY <1>1, <2>1, <2>2, <2>3, Reshaped DEF Shape, Browse
  <2>5. ASSUME Good' PROVE SubGoes(m)'
    BY <1>4, <1>5, <1>7, <2>2, <2>3, <2>5 DEF SubGoes
  <2> QED
    BY <1>1, <1>2, <1>3, <2>4, <2>5 DEF Situation
<1>8. CASE handles = {} /\ sub = None
  <2>1. Ends(m)
    BY <1>8
  <2>2. /\ pc' \in [Coroutines -> Stages] /\ pc'[m] = "idle"
        /\ DOMAIN request' = Coroutines /\ DOMAIN own' = Coroutines /\ DOMAIN ending' = Coroutines
        /\ \A d \in Coroutines \ {m} : /\ pc'[d] = pc[d] /\ request'[d] = request[d]
    BY <1>1, <2>1, EndsThere
  <2>3. Shape'
    BY <1>1, <2>1, <2>2, Reshaped DEF Shape, Browse
  <2>4. ASSUME Good' PROVE Resting'
    <3>1. \A d \in Coroutines : Idles(d)'
      BY <1>4, <2>2, <2>4 DEF Resting, Idles
    <3> QED
      BY <1>4, <1>8, <2>4, <3>1 DEF Resting, Browse
  <2> QED
    BY <1>2, <1>3, <2>3, <2>4 DEF Situation
<1> QED
  BY <1>6, <1>7, <1>8

(* Their items have gone: the subscription goes next.                       *)
LEMMA AllItemsEnd ==
  ASSUME IInv, NEW m \in Messages, kind # "client", kind = "event" => request[m].op = "unsubscribe",
         ItemsEnded(m), handles' = {},
         IF sub = None THEN Ends(m)
         ELSE /\ Goes(m, "endSub") /\ own' = [own EXCEPT ![m] = sub]
              /\ ending' = [ending EXCEPT ![m] = {}] /\ UNCHANGED request,
         UNCHANGED <<kind, node, wanted, sub, visited, up, ever, clash>>
  PROVE  IInv'
<1> USE DEF IInv
<1>1. m \in Coroutines /\ m # "replay" /\ m # "setup" /\ m # "close"
      /\ DOMAIN request = Coroutines /\ DOMAIN own = Coroutines /\ DOMAIN ending = Coroutines
  BY NamesOfCoroutines DEF Shape
<1>2. /\ Quiet /\ pc[m] = "endItems" /\ ending[m] \subseteq items
      /\ items' = items \ ending[m] /\ UNCHANGED <<subs, failed>>
  BY DEF ItemsEnded
<1>3. Unopened'
  BY <1>1, <1>2, StillOpened
<1>4. ClientItems'
  BY DEF ClientItems
<1>5. ASSUME Good' PROVE ItemsGo(m)
  <2>1. Good
    BY <1>2, <1>5 DEF Good
  <2>2. ~Dropped(m)
    BY <1>2 DEF Dropped, Empty
  <2> QED
    BY <1>1, <1>2, <2>1, <2>2, ItemsAwaited
<1>6. CASE sub = None
  <2>1. /\ pc' \in [Coroutines -> Stages] /\ pc'[m] = "idle"
        /\ DOMAIN request' = Coroutines /\ DOMAIN own' = Coroutines /\ DOMAIN ending' = Coroutines
        /\ \A d \in Coroutines \ {m} : /\ pc'[d] = pc[d] /\ request'[d] = request[d]
    BY <1>1, <1>6, EndsThere
  <2>2. Shape'
    BY <1>1, <1>2, <2>1, Reshaped DEF Shape, Browse
  <2>3. ~Good'
    BY <1>5, <1>6 DEF ItemsGo
  <2> QED
    BY <1>3, <1>4, <2>2, <2>3
<1>7. CASE sub # None
  <2>1. /\ Goes(m, "endSub") /\ own' = [own EXCEPT ![m] = sub]
        /\ ending' = [ending EXCEPT ![m] = {}] /\ UNCHANGED request
    BY <1>7
  <2>2. /\ pc' \in [Coroutines -> Stages] /\ pc'[m] = "endSub"
        /\ \A d \in Coroutines \ {m} : pc'[d] = pc[d]
    BY <1>1, <2>1, GoesTo DEF Stages
  <2>3. DOMAIN own' = Coroutines /\ DOMAIN ending' = Coroutines /\ own'[m] = sub
    BY <1>1, <2>1
  <2>4. Shape'
    BY <1>1, <1>2, <2>1, <2>2, <2>3, Reshaped DEF Shape, Browse
  <2>5. ASSUME Good' PROVE SubGoes(m)'
    <3>1. /\ node = "running" /\ OthersIdle(m) /\ items = ending[m] /\ wanted = {} /\ subs = {sub}
      BY <1>5, <1>7, <2>5 DEF ItemsGo, Steady
    <3>2. OthersIdle(m)'
      BY <2>2, <3>1 DEF OthersIdle, Idles
    <3>3. Steady'
      BY <1>2, <1>7, <3>1 DEF Steady
    <3> QED
      BY <1>7, <2>2, <2>3, <3>1, <3>2, <3>3 DEF SubGoes
  <2> QED
    BY <1>1, <1>3, <1>4, <2>4, <2>5 DEF Situation
<1> QED
  BY <1>6, <1>7

(* A step that fails, of a message that waits for items or a subscription.  *)
LEMMA FailsToEnd ==
  ASSUME IInv, NEW m \in Messages, kind # "client", pc[m] \in {"endItems", "endSub"}, failed' = TRUE,
         \/ Ends(m)
         \/ /\ Goes(m, "endSub") /\ own' = [own EXCEPT ![m] = sub]
            /\ ending' = [ending EXCEPT ![m] = {}] /\ UNCHANGED request,
         UNCHANGED <<kind, node, wanted, up, ever, clash>>
  PROVE  IInv'
<1> USE DEF IInv
<1>1. m \in Coroutines /\ m # "replay" /\ m # "setup" /\ m # "close"
      /\ DOMAIN request = Coroutines /\ DOMAIN own = Coroutines /\ DOMAIN ending = Coroutines
  BY NamesOfCoroutines DEF Shape
<1>2. /\ pc' \in [Coroutines -> Stages]
      /\ DOMAIN request' = Coroutines /\ DOMAIN own' = Coroutines /\ DOMAIN ending' = Coroutines
      /\ \A d \in Coroutines \ {m} : /\ pc'[d] = pc[d] /\ request'[d] = request[d]
  <2>1. CASE Ends(m)
    BY <1>1, <2>1, EndsThere
  <2>2. CASE /\ Goes(m, "endSub") /\ own' = [own EXCEPT ![m] = sub]
             /\ ending' = [ending EXCEPT ![m] = {}] /\ UNCHANGED request
    <3>1. pc' \in [Coroutines -> Stages] /\ \A d \in Coroutines \ {m} : pc'[d] = pc[d]
      BY <1>1, <2>2, GoesTo DEF Stages
    <3> QED
      BY <1>1, <2>2, <3>1
  <2> QED
    BY <2>1, <2>2
<1>3. Shape'
  BY <1>1, <1>2, Reshaped DEF Shape, Browse
<1>4. Unopened'
  BY <1>1, StillOpened
<1> QED
  BY <1>3, <1>4 DEF ClientItems, Good

(* And their subscription.                                                  *)
LEMMA LastSubEnds ==
  ASSUME IInv, NEW m \in Messages, kind # "client", SubEnded(m), sub' = None, Ends(m),
         UNCHANGED <<kind, node, wanted, handles, visited, up, ever, clash>>
  PROVE  IInv'
<1> USE DEF IInv
<1>1. m \in Coroutines /\ m # "replay" /\ m # "setup" /\ m # "close"
  BY NamesOfCoroutines
<1>2. /\ Quiet /\ pc[m] = "endSub" /\ failed' = failed
      /\ subs' = subs \ {own[m]} /\ items' = items \ On(own[m])
  BY DEF SubEnded
<1>3. /\ pc' \in [Coroutines -> Stages] /\ pc'[m] = "idle"
      /\ DOMAIN request' = Coroutines /\ DOMAIN own' = Coroutines /\ DOMAIN ending' = Coroutines
      /\ \A d \in Coroutines \ {m} : /\ pc'[d] = pc[d] /\ request'[d] = request[d]
  BY <1>1, EndsThere
<1>4. Shape'
  BY <1>1, <1>2, <1>3, Reshaped DEF Shape, Browse
<1>5. Unopened'
  BY <1>1, <1>2, StillOpened
<1>6. ASSUME Good' PROVE Resting'
  <2>1. SubGoes(m) \/ Dropped(m)
    BY <1>1, <1>2, <1>6, SubAwaited DEF Good
  <2>2. /\ node = "running" /\ OthersIdle(m) /\ handles = {} /\ items = {} /\ subs' = {} /\ wanted = {}
    BY <1>1, <1>2, <2>1, DroppedQuiet DEF SubGoes, Steady, Dropped, Empty
  <2>3. \A d \in Coroutines : Idles(d)'
    BY <1>3, <2>2 DEF OthersIdle, Idles
  <2>4. Steady'
    BY <1>2, <2>2 DEF Steady
  <2> QED
    BY <2>2, <2>3, <2>4 DEF Resting, Browse
<1> QED
  BY <1>4, <1>5, <1>6 DEF Situation, ClientItems

LEMMA EventUnsubscribes ==
  ASSUME IInv, NEW m \in Messages, kind = "event", EventUnsubscribe(m)
  PROVE  IInv'
BY UnsubscribesFromAll DEF EventUnsubscribe, server

LEMMA EventItemEnds ==
  ASSUME IInv, NEW m \in Messages, kind = "event", EventItemEnded(m)
  PROVE  IInv'
<1>1. /\ pc[m] = "endItems" /\ request[m].op = "unsubscribe"
      /\ UNCHANGED <<kind, node, wanted, sub, visited, up, ever, clash>>
  BY DEF EventItemEnded
<1>2. CASE /\ ItemsEnded(m) /\ handles' = {}
            /\ IF sub = None THEN Ends(m)
               ELSE /\ Goes(m, "endSub") /\ own' = [own EXCEPT ![m] = sub]
                    /\ ending' = [ending EXCEPT ![m] = {}] /\ UNCHANGED request
  BY <1>1, <1>2, AllItemsEnd
<1>3. CASE ItemsLost(m) /\ Ends(m)
  BY <1>1, <1>3, FailsToEnd DEF ItemsLost
<1> QED
  BY <1>2, <1>3 DEF EventItemEnded

LEMMA EventSubEnds ==
  ASSUME IInv, NEW m \in Messages, kind = "event", EventSubEnded(m)
  PROVE  IInv'
<1>1. Ends(m) /\ UNCHANGED <<kind, node, wanted, handles, visited, up, ever, clash>>
  BY DEF EventSubEnded
<1>2. CASE SubEnded(m) /\ sub' = None
  BY <1>1, <1>2, LastSubEnds
<1>3. CASE SubLost(m)
  BY <1>1, <1>3, FailsToEnd DEF SubLost
<1> QED
  BY <1>2, <1>3 DEF EventSubEnded

-----------------------------------------------------------------------------
(* The browse node.                                                         *)

LEMMA BrowseSubscribes ==
  ASSUME IInv, NEW m \in Messages, Browse, BrowseSubscribe(m)
  PROVE  IInv'
<1> USE DEF IInv
<1>1. m \in Coroutines /\ m # "replay" /\ m # "setup" /\ m # "close"
      /\ DOMAIN request = Coroutines /\ DOMAIN own = Coroutines /\ DOMAIN ending = Coroutines
  BY NamesOfCoroutines DEF Shape
<1>2. /\ pc[m] = "ready" /\ wanted' = Topics /\ clash' = (clash \/ Clashes(m))
      /\ UNCHANGED <<kind, node, handles, sub, visited, up, ever, items, failed>>
  BY DEF BrowseSubscribe, Setup, Creates
<1>3. Unopened'
  BY <1>1, <1>2, StillOpened
<1>4. ClientItems'
  BY <1>2 DEF ClientItems, Browse
<1>5. ASSUME Good' PROVE Resting /\ node = "running"
  <2>1. Good /\ ~Clashes(m)
    BY <1>2, <1>5 DEF Good, Shape
  <2> QED
    BY <1>1, <1>2, <2>1, ReadyRests
<1>6. CASE sub # None
  <2>1. Ends(m) /\ UNCHANGED subs
    BY <1>6 DEF BrowseSubscribe, Setup
  <2>2. /\ pc' \in [Coroutines -> Stages] /\ pc'[m] = "idle"
        /\ DOMAIN request' = Coroutines /\ DOMAIN own' = Coroutines /\ DOMAIN ending' = Coroutines
        /\ \A d \in Coroutines \ {m} : /\ pc'[d] = pc[d] /\ request'[d] = request[d]
    BY <1>1, <2>1, EndsThere
  <2>3. Shape'
    BY <1>1, <1>2, <2>2, Reshaped DEF Shape, Browse
  <2>4. ASSUME Good' PROVE Resting'
    <3>1. \A d \in Coroutines : Idles(d)'
      BY <1>5, <2>2, <2>4 DEF Resting, Idles
    <3>2. Steady'
      BY <1>2, <1>5, <2>1, <2>4 DEF Resting, Steady
    <3>3. \A t \in Topics : Held(t)'
      BY <1>2, <1>5, <1>6, <2>4 DEF Resting, Held
    <3>4. kind # "browseSubscribe" => \A h \in handles' : h.topic \in wanted'
      <4>1. wanted \subseteq Topics
        BY DEF Shape
      <4> QED
        BY <1>2, <1>5, <2>4, <4>1 DEF Resting
    <3> QED
      BY <1>2, <1>5, <2>4, <3>1, <3>2, <3>3, <3>4 DEF Resting, Browse
  <2> QED
    BY <1>3, <1>4, <2>3, <2>4 DEF Situation
<1>7. CASE sub = None
  <2>1. Creates(m) /\ UNCHANGED <<request, ending>>
    BY <1>7 DEF BrowseSubscribe, Setup
  <2>2. PICK s : s # None /\ own'[m] = s /\ subs' = subs \cup {s}
    BY <1>1, <2>1, CreatesOne
  <2>3. /\ DOMAIN own' = Coroutines /\ \A d \in Coroutines \ {m} : own'[d] = own[d]
        /\ pc' \in [Coroutines -> Stages] /\ pc'[m] = "creating"
        /\ \A d \in Coroutines \ {m} : pc'[d] = pc[d]
    BY <1>1, <2>1, CreatesOne
  <2>4. Shape'
    BY <1>1, <1>2, <2>1, <2>3, Reshaped DEF Shape, Browse
  <2>5. ASSUME Good' PROVE SetUp(m)'
    <3>1. Empty' /\ subs' = {own[m]}'
      BY <1>2, <1>5, <1>7, <2>1, <2>2, <2>5 DEF Resting, Steady, Empty
    <3>2. OthersIdle(m)'
      BY <1>5, <2>3, <2>5 DEF OthersIdle, Resting, Idles
    <3> QED
      BY <1>2, <1>5, <2>2, <2>3, <2>5, <3>1, <3>2 DEF SetUp, Browse
  <2> QED
    BY <1>1, <1>3, <1>4, <2>4, <2>5 DEF Situation
<1> QED
  BY <1>6, <1>7

LEMMA BrowseCreates ==
  ASSUME IInv, NEW c \in Coroutines, Browse, BrowseCreated(c)
  PROVE  IInv'
<1> USE DEF IInv
<1>1. /\ pc[c] = "creating" /\ sub' = own[c] /\ Ends(c) /\ clash' = (clash \/ Clashes(c))
      /\ handles' = {NewItem(own[c], t) : t \in Topics}
      /\ items' = items \cup Created(own[c], Topics)
      /\ UNCHANGED <<kind, node, wanted, visited, up, ever, subs, failed>>
  BY DEF BrowseCreated
<1>2. Unopened'
  BY <1>1, StillOpened
<1>3. ClientItems'
  BY <1>1 DEF ClientItems, Browse
<1>4. /\ pc' \in [Coroutines -> Stages] /\ pc'[c] = "idle"
      /\ DOMAIN request' = Coroutines /\ DOMAIN own' = Coroutines /\ DOMAIN ending' = Coroutines
      /\ \A d \in Coroutines \ {c} : /\ pc'[d] = pc[d] /\ request'[d] = request[d]
  BY <1>1, EndsThere
<1>5. Shape'
  BY <1>1, <1>4, Reshaped DEF Shape, Browse
<1>6. ASSUME Good' PROVE Resting'
  <2>1. Good /\ ~Clashes(c)
    BY <1>1, <1>6 DEF Good, Shape
  <2>2. SetUp(c)
    BY <1>1, <2>1, CreatingSetsUp
  <2>3. node = "running" /\ OthersIdle(c) /\ subs = {own[c]} /\ own[c] # None /\ items = {}
    BY <2>2 DEF SetUp, Empty
  <2>4. PICK s : s = own[c]
    OBVIOUS
  <2>5. handles' = {NewItem(s, t) : t \in Topics} /\ items' = handles'
    BY <1>1, <2>3, <2>4 DEF Created
  <2>6. \A t : NewItem(s, t).topic = t
    BY DEF NewItem
  <2>7. \A h, g \in handles' : h.topic = g.topic => h = g
    BY <2>5, <2>6
  <2>8. (\A t \in Topics : \E h \in handles' : h.topic = t) /\ \A h \in handles' : h.topic \in Topics
    BY <2>5, <2>6
  <2>9. \A d \in Coroutines : Idles(d)'
    BY <1>4, <2>3 DEF OthersIdle, Idles
  <2>10. Steady'
    BY <1>1, <2>3, <2>5, <2>7 DEF Steady
  <2>11. \A t \in Topics : Held(t)'
    BY <2>8 DEF Held
  <2>12. wanted \subseteq Topics /\ (kind = "browseRead" => wanted = Topics)
    BY <2>2 DEF SetUp, Shape
  <2> QED
    BY <1>1, <2>3, <2>8, <2>9, <2>10, <2>11, <2>12 DEF Resting, Browse
<1> QED
  BY <1>2, <1>3, <1>5, <1>6 DEF Situation

LEMMA BrowseUnsubscribes ==
  ASSUME IInv, NEW m \in Messages, Browse, BrowseUnsubscribe(m)
  PROVE  IInv'
BY UnsubscribesFromAll DEF BrowseUnsubscribe, Browse, server

LEMMA BrowseItemsEnd ==
  ASSUME IInv, NEW m \in Messages, Browse, BrowseItemsEnded(m)
  PROVE  IInv'
<1>1. /\ handles' = {} /\ UNCHANGED <<kind, node, wanted, sub, visited, up, ever, clash>>
      /\ IF sub = None THEN Ends(m)
         ELSE /\ Goes(m, "endSub") /\ own' = [own EXCEPT ![m] = sub]
              /\ ending' = [ending EXCEPT ![m] = {}] /\ UNCHANGED request
  BY DEF BrowseItemsEnded
<1>2. kind # "client" /\ kind # "event"
  BY DEF Browse
<1>3. CASE ItemsEnded(m)
  BY <1>1, <1>2, <1>3, AllItemsEnd
<1>4. CASE ItemsLost(m)
  BY <1>1, <1>2, <1>4, FailsToEnd DEF ItemsLost
<1> QED
  BY <1>3, <1>4 DEF BrowseItemsEnded

LEMMA BrowseSubEnds ==
  ASSUME IInv, NEW m \in Messages, Browse, BrowseSubEnded(m)
  PROVE  IInv'
<1>1. sub' = None /\ Ends(m) /\ UNCHANGED <<kind, node, wanted, handles, visited, up, ever, clash>>
  BY DEF BrowseSubEnded
<1>2. kind # "client"
  BY DEF Browse
<1>3. CASE SubEnded(m)
  BY <1>1, <1>2, <1>3, LastSubEnds
<1>4. CASE SubLost(m)
  BY <1>1, <1>2, <1>4, FailsToEnd DEF SubLost
<1> QED
  BY <1>3, <1>4 DEF BrowseSubEnded

-----------------------------------------------------------------------------
(* The invariant, and what follows from it.                                 *)

LEMMA InitSound == Init => IInv
<1> SUFFICES ASSUME Init PROVE IInv
  OBVIOUS
<1>1. "replay" \in Coroutines /\ "setup" \in Coroutines /\ "close" \in Coroutines
  BY NamesOfCoroutines
<1>2. /\ kind \in {"client", "event", "browseRead", "browseSubscribe"}
      /\ node = "running" /\ handles = {} /\ sub = None /\ items = {}
      /\ up \in BOOLEAN /\ ever \in BOOLEAN /\ (up => ever) /\ clash = FALSE /\ failed = FALSE
      /\ wanted = IF Passive THEN Topics ELSE {}
      /\ DOMAIN request = Coroutines /\ DOMAIN ending = Coroutines
  BY KindsAssumption DEF Init, SubsInit
<1> DEFINE now == Passive /\ up
<1>3. /\ pc \in [Coroutines -> Stages] /\ DOMAIN own = Coroutines
      /\ \A c \in Coroutines : pc[c] = IF now /\ c = "setup" THEN "creating" ELSE "idle"
      /\ now => own["setup"] = 1
      /\ subs = IF now THEN {1} ELSE {}
  BY <1>1 DEF Init, BrowseInit, Stages
<1> HIDE DEF now
<1>4. now => Passive /\ up
  BY DEF now
<1>5. Shape
  BY <1>1, <1>2, <1>3 DEF Shape, Browse, Passive
<1>6. Unopened
  BY <1>2, <1>3, <1>4 DEF Unopened, Passive
<1>7. ClientItems
  BY <1>2, <1>3 DEF ClientItems
<1>8. CASE now
  <2>1. OthersIdle("setup") /\ Empty
    BY <1>2, <1>3 DEF OthersIdle, Idles, Empty
  <2>2. own["setup"] # None
    BY <1>3, <1>8, SubsAssumption
  <2>3. SetUp("setup")
    BY <1>1, <1>2, <1>3, <1>4, <1>8, <2>1, <2>2 DEF SetUp, Passive
  <2> QED
    BY <1>1, <1>5, <1>6, <1>7, <2>3 DEF IInv, Situation
<1>9. CASE ~now
  <2>1. \A c \in Coroutines : pc[c] = "idle"
    BY <1>3, <1>9
  <2>2. \A t \in wanted : ToCome(t)
    BY <1>2, <1>9 DEF ToCome, Passive, now
  <2>3. Resting
    BY <1>2, <1>3, <1>9, <2>1, <2>2 DEF Resting, Idles, Steady
  <2> QED
    BY <1>5, <1>6, <1>7, <2>3 DEF IInv, Situation
<1> QED
  BY <1>8, <1>9

(* What the server refuses is nothing the node or the situation knows of.   *)
LEMMA Unnoticed ==
  ASSUME IInv, UNCHANGED <<kind, mine, server, clash, failed>>
  PROVE  IInv'
<1>1. Shape' /\ Unopened' /\ ClientItems'
  BY DEF IInv, Shape, Unopened, ClientItems, Quiet, Browse, mine, server
<1>2. Good' => Situation'
  BY SituationStays DEF IInv, Good, server
<1> QED
  BY <1>1, <1>2 DEF IInv

LEMMA NextSound == IInv /\ [Next]_vars => IInv'
<1> SUFFICES ASSUME IInv, [Next]_vars PROVE IInv'
  OBVIOUS
<1>1. ASSUME NEW m \in Messages, NEW op, NEW t, Receive(m, op, t) PROVE IInv'
  BY <1>1, Receives
<1>2. ASSUME NEW m \in Messages, ConnectFails(m) PROVE IInv'
  BY <1>2, FailsToConnect
<1>3. CASE LoseChannel \/ Connect \/ Restore \/ StartClose \/ Closed
  BY <1>3, LosesChannel, Connects, Restores, StartsToClose, Closes
<1>4. CASE kind = "client" /\ ClientNext
  BY <1>4, ClientSubscribes, ClientCreates, ClientUnsubscribes, ClientItemEnds, ClientItemFails,
     ClientSubEnds, ReplaysTopic, ReplayCreates, ReplayIsOver DEF ClientNext
<1>5. CASE kind = "event" /\ EventNext
  BY <1>5, EventSubscribes, EventCreates, EventItemIsReplaced, EventUnsubscribes, EventItemEnds,
     EventSubEnds, EventReplaysIt DEF EventNext
<1>6. CASE Browse /\ BrowseNext
  BY <1>6, BrowseSubscribes, BrowseCreates, BrowseUnsubscribes, BrowseItemsEnd, BrowseSubEnds
  DEF BrowseNext
<1>7. CASE Refuse \/ UNCHANGED vars
  BY <1>7, Unnoticed DEF Refuse, vars
<1> QED
  BY <1>1, <1>2, <1>3, <1>4, <1>5, <1>6, <1>7 DEF Next, Step, Browse

(* The node, its coroutines and the session are in one of the situations at *)
(* all times, unless messages overlapped or something was lost.             *)
THEOREM AlwaysInASituation == Spec => []IInv
BY InitSound, NextSound, PTL DEF Spec

(* Nothing is under way when all coroutines are idle.                       *)
LEMMA SettledRests ==
  ASSUME IInv, Settled, Good
  PROVE  Resting
BY DEF IInv, Situation, Settled, SetUp, ItemsGo, SubGoes, Dropped

(* DataFlows: through every loss, repair and replacement of the session,    *)
(* resubscribeAll(), resubscribe() and setupSubscriptions() leave a node    *)
(* that is connected and settled with an item that delivers for every topic *)
(* asked for, or one that this very session was asked for and denied -      *)
(* however many topics, messages, subscriptions and refusals there are, and *)
(* whatever the manager's connection was like on deploy.                    *)
THEOREM DataAlwaysFlows == Spec => []DataFlows
<1>1. IInv => DataFlows
  <2> SUFFICES ASSUME IInv, Settled, up, node = "running", ~clash, ~failed,
                      ~(kind = "browseRead" /\ sub = None),
                      NEW t \in wanted
               PROVE  Live(t) \cap handles # {}
    BY DEF DataFlows, Flows, Denied
  <2>1. Resting
    BY SettledRests DEF Good
  <2>2. ever
    BY DEF IInv, Unopened, Shape
  <2>3. ~ToCome(t)
    BY <2>2, NamesOfCoroutines DEF ToCome, Settled
  <2>4. Held(t) /\ items = handles
    BY <2>1, <2>3 DEF Resting, Steady
  <2> QED
    BY <2>4 DEF Held, Live
<1> QED
  BY <1>1, AlwaysInASituation, PTL

(* OncePerTopic: handleSubscribe() and the replays never leave two items of *)
(* a topic alive - the client node not even when messages overlap.          *)
THEOREM DeliveredOnce == Spec => []OncePerTopic
<1>1. IInv => OncePerTopic
  <2> SUFFICES ASSUME IInv, kind = "client" \/ ~(clash \/ failed), NEW t \in Topics
               PROVE  Cardinality(Live(t)) <= 1
    BY DEF OncePerTopic
  <2>1. \A i, j \in items : i.topic = j.topic => i = j
    <3>1. CASE kind = "client"
      BY <3>1 DEF IInv, ClientItems
    <3>2. CASE ~(clash \/ failed)
      BY <3>2 DEF IInv, Good, Situation, Resting, SetUp, ItemsGo, SubGoes, Dropped, Steady, Empty
    <3> QED
      BY <3>1, <3>2
  <2>2. CASE Live(t) = {}
    BY <2>2, FS_EmptySet
  <2>3. CASE Live(t) # {}
    <3>1. PICK i : i \in Live(t)
      BY <2>3
    <3>2. Live(t) = {i}
      BY <2>1, <3>1 DEF Live
    <3> QED
      BY <3>2, FS_Singleton
  <2> QED
    BY <2>2, <2>3
<1> QED
  BY <1>1, AlwaysInASituation, PTL

(* NothingLeft: what a settled node has not terminated itself, it can still *)
(* terminate, and somebody asked for it.                                    *)
THEOREM NothingIsLeft == Spec => []NothingLeft
<1>1. IInv => NothingLeft
  <2> SUFFICES ASSUME IInv, Settled, up, ~clash, ~failed
               PROVE  /\ subs \subseteq {sub} /\ items \subseteq handles
                      /\ node = "running" /\ kind # "browseSubscribe" => \A i \in items : i.topic \in wanted
                      /\ kind = "client" /\ items = {} => subs = {}
    BY DEF NothingLeft
  <2>1. Resting
    BY SettledRests DEF Good
  <2> QED
    BY <2>1 DEF Resting, Steady
<1> QED
  BY <1>1, AlwaysInASituation, PTL

=============================================================================

--------------------------- MODULE Subscriptions ---------------------------
(***************************************************************************)
(* What the subscribing nodes have in common: the session of the manager   *)
(* they share, the subscriptions and monitored items that live on it, the  *)
(* handles a node keeps of them, and the coroutines of the node: its input *)
(* handler, once for every message under way, and the replay it starts on  *)
(* "session_recreated".                                                    *)
(*                                                                         *)
(* createSubscription() awaits nothing but a microtask: while a coroutine  *)
(* is "ready" or "creating" only other such coroutines run, and no event   *)
(* of the network comes between (Quiet).                                   *)
(***************************************************************************)
EXTENDS FiniteSetsExt, Integers

CONSTANTS Topics, Messages, None,
          MaxSubs,        \* bound on the subscriptions known at a time
          MaxCopies,      \* bound on the items of one topic and subscription
          MaxRefused      \* bound on the requests refused at a time

ASSUME SubsAssumption ==
  /\ MaxSubs \in Nat /\ MaxCopies \in Nat /\ MaxRefused \in Nat /\ None \notin Nat
  /\ Messages \cap {"replay", "setup", "close"} = {}

VARIABLES kind,           \* which node it is
          node,           \* "running", "closing", "closed"
          wanted,         \* subscribedTopics; the request of activeRequest
          handles,        \* monitorItems; monitoredItem
          sub,            \* subscription
          pc, request,    \* where every coroutine is, and its message
          own, ending,    \* locals: a subscription, and items to terminate
          visited,        \* topics the replay has come to
          up, ever,       \* isConnected and _everConnected of the manager
          subs, items,    \* asked for on this session, and not terminated
          refused,        \* those of them the server has refused or lost
          clash,          \* history: two coroutines of the node have overlapped
          failed          \* history: something could not be terminated

mine == <<node, wanted, handles, sub, pc, request, own, ending, visited>>
server == <<up, ever, subs, items>>
vars == <<kind, mine, server, refused, clash, failed>>

Coroutines == Messages \cup {"replay", "setup", "close"}
Known == items \cup handles \cup UNION {ending[c] : c \in Coroutines}

NoneRefused == [subs |-> {}, items |-> {}]

(* A node is deployed on a manager in whatever state another node left it.  *)
SubsInit(asked) ==
  /\ node = "running" /\ wanted = asked /\ handles = {} /\ sub = None /\ visited = {}
  /\ request = [c \in Coroutines |-> None] /\ ending = [c \in Coroutines |-> {}]
  /\ up \in BOOLEAN /\ ever \in BOOLEAN /\ (up => ever) /\ items = {}
  /\ refused = NoneRefused /\ clash = FALSE /\ failed = FALSE

Quiet == \A c \in Coroutines : pc[c] \notin {"ready", "creating"}
Settled == \A c \in Coroutines : pc[c] = "idle"

(* A coroutine finds another one at an await that it does not know of.      *)
Clashes(c) ==
  \/ \E d \in Coroutines \ {c} : pc[d] \in {"creating", "endItems", "endSub"}
  \/ node = "closing"

Goes(c, p) == pc' = [pc EXCEPT ![c] = p]
Ends(c) ==
  /\ Goes(c, "idle") /\ request' = [request EXCEPT ![c] = None]
  /\ own' = [own EXCEPT ![c] = None] /\ ending' = [ending EXCEPT ![c] = {}]

(* Objects of node-opcua that nobody knows of yet.                          *)
FreeSubs ==
  (1 .. MaxSubs) \ (subs \cup {i.sub : i \in Known} \cup {own[c] : c \in Coroutines} \cup {sub})
NewSub == Min(FreeSubs)
NewItem(s, t) ==
  [topic |-> t, sub |-> s,
   copy |-> Min({n \in 1 .. MaxCopies + 1 :
                  \A i \in Known : i.topic = t /\ i.sub = s => i.copy # n})]
Bounded(s, T) == \A t \in T : NewItem(s, t).copy <= MaxCopies

(* ClientMonitoredItem.create(): nothing comes of it on a dead subscription. *)
(* It is a request nobody awaits, like ClientSubscription.create(): the      *)
(* handle is there whether the server grants it or not (Refuse).            *)
Created(s, T) == IF s \in subs THEN {NewItem(s, t) : t \in T} ELSE {}

(* createSubscription(): the handle is there after a microtask.             *)
Creates(c) ==
  /\ FreeSubs # {}
  /\ own' = [own EXCEPT ![c] = NewSub] /\ subs' = subs \cup {NewSub}
  /\ clash' = (clash \/ Clashes(c))
  /\ Goes(c, "creating")


-----------------------------------------------------------------------------
(* Messages wait for the connection; a node that closes gets no more.  A browse node takes all its topics,   *)
(* and an event node ends the one it has.                                   *)

Names(op, t) == (t = None) <=> (kind # "client" /\ (kind # "event" \/ op # "subscribe"))

Receive(m, op, t) ==
  /\ Quiet /\ pc[m] = "idle" /\ node = "running" /\ Names(op, t)
  /\ request' = [request EXCEPT ![m] = [op |-> op, topic |-> t]]
  /\ Goes(m, IF up THEN "ready" ELSE "connecting")
  /\ UNCHANGED <<kind, node, wanted, handles, sub, own, ending, visited, server, clash, failed>>

ConnectFails(m) ==
  /\ Quiet /\ pc[m] = "connecting" /\ Ends(m)
  /\ UNCHANGED <<kind, node, wanted, handles, sub, visited, server, clash, failed>>

Woken == [c \in Coroutines |-> IF pc[c] = "connecting" THEN "ready" ELSE pc[c]]

LoseChannel ==
  /\ Quiet /\ up /\ up' = FALSE
  /\ UNCHANGED <<kind, mine, ever, subs, items, clash, failed>>

(* The server refuses what it was asked for, or loses it, or the request is *)
(* lost with the channel.  Whoever asked is not told: the handle stays, and *)
(* so does the topic.  Nothing is refused twice.                            *)
Refuse ==
  /\ Quiet /\ Cardinality(refused.subs) + Cardinality(refused.items) < MaxRefused
  /\ \/ \E s \in subs \ refused.subs : refused' = [refused EXCEPT !.subs = @ \cup {s}]
     \/ \E i \in items \ refused.items : refused' = [refused EXCEPT !.items = @ \cup {i}]
  /\ UNCHANGED <<kind, mine, server, clash, failed>>

(* What is not asked for any more is not refused any more either.           *)
RefusedStays ==
  refused' = [subs |-> refused.subs \cap subs', items |-> refused.items \cap items']

-----------------------------------------------------------------------------
(* Terminating, which the server answers, or not.                           *)

(* What the server has granted and not lost.                                *)
Delivers(i) == i \notin refused.items /\ i.sub \notin refused.subs

(* Terminating the items T is answered with an error, or not at all.        *)
MayFail(T) == ~up \/ ~(T \subseteq items) \/ \E i \in T : ~Delivers(i)

(* The request is served.                                                   *)
ItemsEnded(c) == /\ Quiet /\ pc[c] = "endItems" /\ up /\ ending[c] \subseteq items
                 /\ items' = items \ ending[c] /\ UNCHANGED <<subs, failed>>

(* It is lost, or its items died with the session, or were never granted.   *)
ItemsLost(c) == /\ Quiet /\ pc[c] = "endItems" /\ MayFail(ending[c])
                /\ \E lost \in {{}, ending[c]} : items' = items \ lost
                /\ failed' = TRUE /\ UNCHANGED subs

On(s) == {i \in items : i.sub = s}
SubEnded(c) == /\ Quiet /\ pc[c] = "endSub" /\ up
               /\ subs' = subs \ {own[c]} /\ items' = items \ On(own[c])
               /\ UNCHANGED failed
SubLost(c) == /\ Quiet /\ pc[c] = "endSub" /\ (~up \/ own[c] \notin subs \ refused.subs)
              /\ failed' = TRUE /\ UNCHANGED <<subs, items>>

(* The close handler waits for both, two seconds at most; what it finds at  *)
(* the end is forgotten, and the callback unregistered.                     *)
StartClose ==
  /\ Quiet /\ node = "running" /\ node' = "closing"
  /\ ending' = [ending EXCEPT !["close"] = handles] /\ own' = [own EXCEPT !["close"] = sub]
  /\ clash' = (clash \/ ~Settled)
  /\ UNCHANGED <<kind, wanted, handles, sub, pc, request, visited, server, failed>>

Closed ==
  /\ Quiet /\ node = "closing" /\ node' = "closed"
  /\ \/ /\ up /\ subs' = subs \ {own["close"]}
        /\ items' = items \ (ending["close"] \cup On(own["close"])) /\ UNCHANGED failed
     \/ /\ MayFail(ending["close"]) \/ own["close"] \in refused.subs
        /\ failed' = TRUE /\ UNCHANGED <<subs, items>>
  /\ handles' = {} /\ sub' = None
  /\ own' = [own EXCEPT !["close"] = None] /\ ending' = [ending EXCEPT !["close"] = {}]
  /\ UNCHANGED <<kind, wanted, pc, request, visited, up, ever, clash>>

=============================================================================

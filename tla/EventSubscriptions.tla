------------------------- MODULE EventSubscriptions -------------------------
(***************************************************************************)
(* The subscription of nodes/opcua-event.js: one monitored item for the    *)
(* source asked for last.                                                  *)
(***************************************************************************)
EXTENDS Subscriptions

(* What subscribeEvents() does once there is no item: it creates one on     *)
(* the subscription of that moment, and fails when there is none.           *)
CreateItem(s, t) ==
  IF s = None THEN handles' = {} /\ UNCHANGED items
  ELSE /\ Bounded(s, {t})
       /\ handles' = {NewItem(s, t)} /\ items' = items \cup Created(s, {t})

(* The item that is there is terminated before the next is created.         *)
ReplaceItem(c, s, t) ==
  IF handles # {}
  THEN /\ Goes(c, "endItems") /\ ending' = [ending EXCEPT ![c] = handles]
       /\ own' = [own EXCEPT ![c] = None] /\ UNCHANGED <<handles, items>>
       /\ request' = [request EXCEPT ![c] = [op |-> "subscribe", topic |-> t]]
  ELSE CreateItem(s, t) /\ Ends(c)

(* subscribeEvents(), up to its first await.                                *)
Subscribes(c, t) ==
  IF sub = None
  THEN /\ Creates(c) /\ request' = [request EXCEPT ![c] = [op |-> "subscribe", topic |-> t]]
       /\ UNCHANGED <<handles, items, ending>>
  ELSE ReplaceItem(c, sub, t) /\ clash' = (clash \/ Clashes(c)) /\ UNCHANGED subs

EventSubscribe(m) ==
  /\ m \in Messages /\ pc[m] = "ready" /\ request[m].op = "subscribe"
  /\ wanted' = {request[m].topic} /\ Subscribes(m, request[m].topic)
  /\ UNCHANGED <<kind, node, sub, visited, up, ever, failed>>

EventCreated(c) ==
  /\ pc[c] = "creating" /\ sub' = own[c]
  /\ ReplaceItem(c, own[c], request[c].topic)
  /\ clash' = (clash \/ Clashes(c))
  /\ UNCHANGED <<kind, node, wanted, visited, up, ever, subs, failed>>

(* A failing terminate() is ignored.                                        *)
EventItemReplaced(c) ==
  /\ c # "close" /\ pc[c] = "endItems" /\ request[c].op = "subscribe" /\ Quiet
  /\ LET t == request[c].topic IN
     \E left \in {items \ ending[c], items}, lost \in BOOLEAN :
       /\ IF lost THEN MayFail(ending[c])
          ELSE up /\ ending[c] \subseteq items /\ left = items \ ending[c]
       /\ failed' = (failed \/ lost)
       /\ IF sub = None THEN handles' = {} /\ items' = left
          ELSE /\ Bounded(sub, {t})
               /\ handles' = {NewItem(sub, t)} /\ items' = left \cup Created(sub, {t})
  /\ Ends(c)
  /\ UNCHANGED <<kind, node, wanted, sub, visited, up, ever, subs, clash>>

(* It terminates the item, and then the subscription; what it cannot        *)
(* terminate keeps its handle, and the message fails.                       *)
EventUnsubscribe(m) ==
  /\ pc[m] = "ready" /\ request[m].op = "unsubscribe" /\ wanted' = {}
  /\ clash' = (clash \/ Clashes(m))
  /\ IF handles # {}
     THEN Goes(m, "endItems") /\ ending' = [ending EXCEPT ![m] = handles] /\ UNCHANGED <<own, request>>
     ELSE IF sub # None
     THEN Goes(m, "endSub") /\ own' = [own EXCEPT ![m] = sub] /\ UNCHANGED <<ending, request>>
     ELSE Ends(m)
  /\ UNCHANGED <<kind, node, handles, sub, visited, server, failed>>

EventItemEnded(m) ==
  /\ pc[m] = "endItems" /\ request[m].op = "unsubscribe"
  /\ \/ /\ ItemsEnded(m) /\ handles' = {}
        /\ IF sub = None THEN Ends(m)
           ELSE /\ Goes(m, "endSub") /\ own' = [own EXCEPT ![m] = sub]
                /\ ending' = [ending EXCEPT ![m] = {}] /\ UNCHANGED request
     \/ ItemsLost(m) /\ Ends(m) /\ UNCHANGED handles
  /\ UNCHANGED <<kind, node, wanted, sub, visited, up, ever, clash>>

EventSubEnded(m) ==
  /\ m \in Messages
  /\ \/ SubEnded(m) /\ sub' = None
     \/ SubLost(m) /\ UNCHANGED sub
  /\ Ends(m)
  /\ UNCHANGED <<kind, node, wanted, handles, visited, up, ever, clash>>

(* resubscribe(), on "session_recreated".                                   *)
EventConnects ==
  /\ subs' = {} /\ items' = {}
  /\ IF ever /\ node # "closed"
     THEN /\ handles' = {} /\ sub' = None
          /\ pc' = [Woken EXCEPT !["replay"] = IF wanted # {} /\ @ = "idle" THEN "ready" ELSE @]
     ELSE pc' = Woken /\ UNCHANGED <<handles, sub>>
  /\ UNCHANGED <<wanted, visited, own>>

(* The request it replays is that of the moment.                            *)
EventReplays ==
  /\ pc["replay"] = "ready"
  /\ IF wanted = {} THEN Ends("replay") /\ UNCHANGED <<handles, subs, items, clash>>
     ELSE \E t \in wanted : Subscribes("replay", t)
  /\ UNCHANGED <<kind, node, wanted, sub, visited, up, ever, failed>>

EventNext ==
  \/ \E m \in Messages : EventUnsubscribe(m) \/ EventItemEnded(m) \/ EventSubEnded(m)
  \/ \E c \in Messages \cup {"replay"} : EventSubscribe(c) \/ EventCreated(c) \/ EventItemReplaced(c)
  \/ EventReplays

=============================================================================

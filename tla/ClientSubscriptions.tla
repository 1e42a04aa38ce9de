------------------------ MODULE ClientSubscriptions ------------------------
(***************************************************************************)
(* The subscriptions of nodes/opcua-client.js: one monitored item for each *)
(* topic, all of them on one subscription, which goes with the last item.  *)
(* Operators after "Mutant:" are not used by any specification: they are   *)
(* plausible mistakes the properties must notice.                          *)
(***************************************************************************)
EXTENDS Subscriptions

Has(t) == \E h \in handles : h.topic = t

(* Mutant: whether the topic has an item is not asked again after the await. *)
AddAgain(s, t) ==
  /\ Bounded(s, {t})
  /\ handles' = {h \in handles : h.topic # t} \cup {NewItem(s, t)}
  /\ items' = items \cup Created(s, {t})

(* The item of the topic is created on s, unless there is one.              *)
Add(s, t) ==
  IF Has(t) THEN UNCHANGED <<handles, items>>
  ELSE /\ Bounded(s, {t})
       /\ handles' = handles \cup {NewItem(s, t)}
       /\ items' = items \cup Created(s, {t})

(* handleSubscribe(): with the subscription that is there, or a new one.    *)
ClientSubscribe(m) ==
  /\ pc[m] = "ready" /\ request[m].op = "subscribe"
  /\ wanted' = wanted \cup {request[m].topic}
  /\ IF sub = None
     THEN /\ Creates(m) /\ UNCHANGED <<handles, items, request, ending>>
     ELSE /\ Add(sub, request[m].topic) /\ Ends(m)
          /\ clash' = (clash \/ Clashes(m)) /\ UNCHANGED subs
  /\ UNCHANGED <<kind, node, sub, visited, up, ever, failed>>

ClientCreated(m) ==
  /\ pc[m] = "creating" /\ m \in Messages /\ sub' = own[m]
  /\ Add(own[m], request[m].topic) /\ Ends(m)
  /\ clash' = (clash \/ Clashes(m))
  /\ UNCHANGED <<kind, node, wanted, visited, up, ever, subs, failed>>

(* handleUnsubscribe().                                                     *)
ClientUnsubscribe(m) ==
  /\ pc[m] = "ready" /\ request[m].op = "unsubscribe"
  /\ wanted' = wanted \ {request[m].topic}
  /\ clash' = (clash \/ Clashes(m))
  /\ IF ~Has(request[m].topic) THEN Ends(m)
     ELSE /\ Goes(m, "endItems") /\ own' = [own EXCEPT ![m] = sub]
          /\ ending' = [ending EXCEPT ![m] = {h \in handles : h.topic = request[m].topic}]
          /\ UNCHANGED request
  /\ UNCHANGED <<kind, node, handles, sub, visited, server, failed>>

(* Mutant: the subscription is kept when its last item goes.                *)
LastKept(m) == FALSE

(* Without items the subscription goes, too.                                *)
LastGone(m) == handles' = {} /\ own[m] # None

ClientItemEnded(m) ==
  /\ m \in Messages /\ ItemsEnded(m)
  /\ handles' = {h \in handles : h.topic # request[m].topic}
  /\ IF LastGone(m)
     THEN Goes(m, "endSub") /\ UNCHANGED <<request, own, ending>>
     ELSE Ends(m)
  /\ UNCHANGED <<kind, node, wanted, sub, visited, up, ever, clash>>

(* terminate() throws, and the handle stays: the operation is tried again   *)
(* on a new connection, or fails.                                           *)
ClientItemLost(m) ==
  /\ m \in Messages /\ ItemsLost(m)
  /\ \/ Ends(m)
     \/ /\ Goes(m, "connecting") /\ ending' = [ending EXCEPT ![m] = {}]
        /\ own' = [own EXCEPT ![m] = None] /\ UNCHANGED request
  /\ UNCHANGED <<kind, node, wanted, handles, sub, visited, up, ever, clash>>

ClientSubEnded(m) ==
  /\ m \in Messages /\ (SubEnded(m) \/ SubLost(m))
  /\ sub' = None /\ Ends(m)
  /\ UNCHANGED <<kind, node, wanted, handles, visited, up, ever, clash>>

-----------------------------------------------------------------------------
(* resubscribeAll(), on "session_recreated": topic by topic.                *)

(* Mutant: the handles of the old session are kept.                         *)
KeptOnReplacement(held) == held

LeftOnReplacement(held) == {}

ClientConnects ==
  /\ subs' = {} /\ items' = {}
  /\ LET replay == ever /\ node # "closed" /\ wanted # {} /\ pc["replay"] = "idle" IN
     pc' = [Woken EXCEPT !["replay"] = IF replay THEN "ready" ELSE @]
  /\ IF ever /\ node # "closed"
     THEN handles' = LeftOnReplacement(handles) /\ sub' = None /\ visited' = {}
     ELSE UNCHANGED <<handles, sub, visited>>
  /\ UNCHANGED <<wanted, own>>

ReplayTopic(t) ==
  /\ pc["replay"] = "ready" /\ t \in wanted \ visited /\ visited' = visited \cup {t}
  /\ IF ~Has(t) /\ sub = None
     THEN /\ Creates("replay") /\ request' = [request EXCEPT !["replay"] = [topic |-> t]]
          /\ UNCHANGED <<handles, items>>
     ELSE /\ Add(sub, t) /\ UNCHANGED <<pc, request, own, subs, clash>>
  /\ UNCHANGED <<kind, node, wanted, sub, ending, up, ever, failed>>

ReplayCreated ==
  /\ pc["replay"] = "creating" /\ sub' = own["replay"]
  /\ Add(own["replay"], request["replay"].topic) /\ Goes("replay", "ready")
  /\ own' = [own EXCEPT !["replay"] = None] /\ request' = [request EXCEPT !["replay"] = None]
  /\ UNCHANGED <<kind, node, wanted, ending, visited, up, ever, subs, clash, failed>>

ReplayEnds ==
  /\ pc["replay"] = "ready" /\ wanted \subseteq visited /\ Ends("replay")
  /\ UNCHANGED <<kind, node, wanted, handles, sub, visited, server, clash, failed>>

ClientNext ==
  \/ \E m \in Messages :
       \/ ClientSubscribe(m) \/ ClientCreated(m) \/ ClientUnsubscribe(m)
       \/ ClientItemEnded(m) \/ ClientItemLost(m) \/ ClientSubEnded(m)
  \/ \E t \in Topics : ReplayTopic(t)
  \/ ReplayCreated \/ ReplayEnds

=============================================================================

------------------------ MODULE BrowseSubscriptions ------------------------
(***************************************************************************)
(* The subscription of a running nodes/opcua-browse-client.js: all items   *)
(* selected in the editor at once - on deploy and whenever the manager is  *)
(* connected if the mode is "subscribe", or when a message asks for them.  *)
(***************************************************************************)
EXTENDS Subscriptions

Passive == kind = "browseSubscribe"

(* setupSubscriptions(), up to its await.                                   *)
Setup(c) ==
  IF sub # None THEN Ends(c) /\ clash' = (clash \/ Clashes(c)) /\ UNCHANGED subs
  ELSE Creates(c) /\ UNCHANGED <<request, ending>>

BrowseSubscribe(m) ==
  /\ pc[m] = "ready" /\ request[m].op = "subscribe"
  /\ wanted' = Topics /\ Setup(m)
  /\ UNCHANGED <<kind, node, handles, sub, visited, up, ever, items, failed>>

(* All items are created, whichever handles there are.                      *)
BrowseCreated(c) ==
  /\ pc[c] = "creating" /\ sub' = own[c] /\ Bounded(own[c], Topics)
  /\ handles' = {NewItem(own[c], t) : t \in Topics}
  /\ items' = items \cup Created(own[c], Topics)
  /\ Ends(c) /\ clash' = (clash \/ Clashes(c))
  /\ UNCHANGED <<kind, node, wanted, visited, up, ever, subs, failed>>

(* One item after the other, and then the subscription.                     *)
BrowseUnsubscribe(m) ==
  /\ pc[m] = "ready" /\ request[m].op = "unsubscribe" /\ wanted' = {}
  /\ clash' = (clash \/ Clashes(m))
  /\ IF handles # {}
     THEN Goes(m, "endItems") /\ ending' = [ending EXCEPT ![m] = handles] /\ UNCHANGED <<own, request>>
     ELSE IF sub # None
     THEN Goes(m, "endSub") /\ own' = [own EXCEPT ![m] = sub] /\ UNCHANGED <<ending, request>>
     ELSE Ends(m)
  /\ UNCHANGED <<kind, node, handles, sub, visited, server, failed>>

(* What cannot be terminated is forgotten.                                  *)
BrowseItemsEnded(m) ==
  /\ m \in Messages /\ (ItemsEnded(m) \/ ItemsLost(m)) /\ handles' = {}
  /\ IF sub = None THEN Ends(m)
     ELSE /\ Goes(m, "endSub") /\ own' = [own EXCEPT ![m] = sub]
          /\ ending' = [ending EXCEPT ![m] = {}] /\ UNCHANGED request
  /\ UNCHANGED <<kind, node, wanted, sub, visited, up, ever, clash>>

BrowseSubEnded(m) ==
  /\ m \in Messages /\ (SubEnded(m) \/ SubLost(m)) /\ sub' = None /\ Ends(m)
  /\ UNCHANGED <<kind, node, wanted, handles, visited, up, ever, clash>>

(* "connected", and after it "session_recreated" on a new session: both set *)
(* up subscriptions, the first one only if there is none yet.               *)
SetsUpFirst == Passive /\ node # "closed" /\ sub = None
SetsUpAgain == Passive /\ node # "closed" /\ ever

BrowseConnects ==
  /\ subs' = (IF SetsUpFirst THEN {1} ELSE {}) \cup (IF SetsUpAgain THEN {2} ELSE {})
  /\ items' = {}
  /\ own' = [own EXCEPT !["setup"] = IF SetsUpFirst THEN 1 ELSE @, !["replay"] = IF SetsUpAgain THEN 2 ELSE @]
  /\ pc' = [Woken EXCEPT !["setup"] = IF SetsUpFirst THEN "creating" ELSE @,
                         !["replay"] = IF SetsUpAgain THEN "creating" ELSE @]
  /\ IF ever /\ node # "closed" THEN handles' = {} /\ sub' = None ELSE UNCHANGED <<handles, sub>>
  /\ UNCHANGED <<wanted, visited>>

(* Only "connected" when the connection has been repaired.                  *)
BrowseRestored ==
  IF SetsUpFirst
  THEN Creates("setup") ELSE UNCHANGED <<own, subs, clash, pc>>

(* On deploy: the node registers its callback, and sets up subscriptions at *)
(* once if the manager is connected already, or else asks it to connect.    *)
BrowseInit ==
  LET now == Passive /\ up IN
  /\ pc = [c \in Coroutines |-> IF now /\ c = "setup" THEN "creating" ELSE "idle"]
  /\ own = [c \in Coroutines |-> IF now /\ c = "setup" THEN 1 ELSE None]
  /\ subs = IF now THEN {1} ELSE {}

BrowseNext ==
  \/ \E m \in Messages :
       \/ BrowseSubscribe(m) \/ BrowseUnsubscribe(m) \/ BrowseItemsEnded(m) \/ BrowseSubEnded(m)
  \/ \E c \in Coroutines : BrowseCreated(c)

=============================================================================

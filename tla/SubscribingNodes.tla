-------------------------- MODULE SubscribingNodes --------------------------
(***************************************************************************)
(* A subscribing node of any kind on the session it shares: messages,      *)
(* connections made, lost, repaired and replaced, and the close.           *)
(***************************************************************************)
EXTENDS ClientSubscriptions, EventSubscriptions, BrowseSubscriptions

CONSTANT Kinds

ASSUME KindsAssumption == Kinds \subseteq {"client", "event", "browseRead", "browseSubscribe"}

Init ==
  /\ kind \in Kinds /\ SubsInit(IF Passive THEN Topics ELSE {})
  /\ BrowseInit

(* A browse node without a subscription sets up two of them.                *)
SetsUpTwice == SetsUpFirst /\ SetsUpAgain

(* The node drops what it holds of the old session, and nothing is under way. *)
StartsAnew == ever /\ Settled /\ node = "running"

(* An attempt succeeds.  The first one only opens a session, any other      *)
(* replaces it, and whatever was on it is gone.                             *)
Connect ==
  /\ Quiet /\ (~up \/ \E m \in Messages : pc[m] = "connecting")
  /\ up' = TRUE /\ ever' = TRUE
  /\ \/ kind = "client" /\ ClientConnects
     \/ kind = "event" /\ EventConnects
     \/ kind \in {"browseRead", "browseSubscribe"} /\ BrowseConnects
  /\ clash' = (SetsUpTwice \/ (~StartsAnew /\ (clash \/ node = "closing")))
  /\ failed' = (failed /\ ~StartsAnew)
  /\ UNCHANGED <<kind, node, request, ending>>

(* node-opcua has repaired the connection, the session and all that is on it. *)
Restore ==
  /\ Quiet /\ ~up /\ ever /\ up' = TRUE /\ \A m \in Messages : pc[m] # "connecting"
  /\ IF kind \in {"browseRead", "browseSubscribe"} THEN BrowseRestored
     ELSE UNCHANGED <<own, subs, clash, pc>>
  /\ UNCHANGED <<kind, node, wanted, handles, sub, request, ending, visited, ever, items, failed>>

Step ==
  \/ \E m \in Messages, op \in {"subscribe", "unsubscribe"}, t \in Topics \cup {None} : Receive(m, op, t)
  \/ \E m \in Messages : ConnectFails(m)
  \/ LoseChannel \/ Restore \/ StartClose \/ Closed
  \/ kind = "client" /\ ClientNext
  \/ kind = "event" /\ EventNext
  \/ kind \in {"browseRead", "browseSubscribe"} /\ BrowseNext

Next ==
  \/ Step /\ RefusedStays
  \/ Connect /\ refused' = NoneRefused
  \/ Refuse

Spec == Init /\ [][Next]_vars

-----------------------------------------------------------------------------
(* Properties.                                                              *)

Live(t) == {i \in items : i.topic = t}

(* The node holds an item of the topic that delivers, or the session there  *)
(* is was asked for one and did not grant it.                               *)
Flows(t) == \E i \in Live(t) \cap handles : Delivers(i)
Denied(t) == \E i \in Live(t) \cap handles : ~Delivers(i)

(* While the node is connected and nothing is under way, every topic asked  *)
(* for has an item that delivers, which the node can reach - through every  *)
(* loss, repair and replacement of the session, unless messages overlapped. *)
(* Nobody asks again for what this session has denied; the next one has     *)
(* been asked for everything.                                               *)
DataFlows ==
  Settled /\ up /\ node = "running" /\ ~clash /\ ~failed =>
    \/ \A t \in wanted : Flows(t) \/ Denied(t)
    \/ kind = "browseRead" /\ sub = None

(* The same without the exception for a browse node in mode "read".         *)
FlowsAgain ==
  Settled /\ up /\ node = "running" /\ ~clash /\ ~failed =>
    \A t \in wanted : Flows(t) \/ Denied(t)

(* A value is delivered once.                                               *)
OncePerTopic ==
  kind = "client" \/ ~(clash \/ failed) => \A t \in Topics : Cardinality(Live(t)) <= 1

(* Nothing is left on the session that the node cannot terminate, or that   *)
(* nobody asked for.                                                        *)
NothingLeft ==
  Settled /\ up /\ ~clash /\ ~failed =>
    /\ subs \subseteq {sub} /\ items \subseteq handles
    /\ node = "running" /\ kind # "browseSubscribe" => \A i \in items : i.topic \in wanted
    /\ kind = "client" /\ items = {} => subs = {}

=============================================================================

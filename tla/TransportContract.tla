------------------------- MODULE TransportContract --------------------------
(***************************************************************************)
(* What PubSubConnection counts on in a transport: that it says            *)
(* "connected" when, and only while, it can send and receive               *)
(* (lib/transports/base-transport.js).  From close() on nobody listens.    *)
(***************************************************************************)
CONSTANT Transports

VARIABLES transport,    \* "closed", "connecting" (or lost), "up", "closing"
          told          \* is the last thing it said "connected"?

Init ==
  /\ transport = [t \in Transports |-> "closed"]
  /\ told = [t \in Transports |-> FALSE]

Becomes(t, state, says) ==
  /\ transport' = [transport EXCEPT ![t] = state]
  /\ told' = [told EXCEPT ![t] = says]

Connect(t) == transport[t] = "closed" /\ ~told[t] /\ Becomes(t, "connecting", FALSE)
Connects(t) == transport[t] = "connecting" /\ Becomes(t, "up", TRUE)
Drops(t) == transport[t] = "up" /\ Becomes(t, "connecting", FALSE)
Close(t) == transport[t] \in {"connecting", "up"} /\ \E says \in BOOLEAN : Becomes(t, "closing", says)
Closes(t) ==
  /\ transport[t] = "closing"
  /\ \E state \in {"closing", "closed"}, says \in BOOLEAN : Becomes(t, state, says)

Next == \E t \in Transports : Connect(t) \/ Connects(t) \/ Drops(t) \/ Close(t) \/ Closes(t)
Spec == Init /\ [][Next]_<<transport, told>>
=============================================================================

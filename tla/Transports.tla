----------------------------- MODULE Transports -----------------------------
(***************************************************************************)
(* The transports below a pubsub connection: UDP multicast, and MQTT 5     *)
(* that falls back once to 3.1.1 (lib/transports).  The connection makes   *)
(* one for one connect() and one close().  Operators after "Mutant:" are   *)
(* not used by Spec: they are plausible mistakes the properties must       *)
(* notice.                                                                 *)
(***************************************************************************)
CONSTANTS Udp, Mqtt, None

Transports == Udp \cup Mqtt
Handles == {"socket", "v5", "v4"}     \* a dgram socket, and MQTT clients by version

ASSUME KindsAssumption == Udp \cap Mqtt = {} /\ None \notin Handles

VARIABLES asked,          \* "nothing", "connect" or "close"
          held,           \* _socket, or _client
          handle,         \* a handle: "none", "opening", "open", "failed", "lost", "aborting",
                        \* "ending", "ended"
          fallbackDone,   \* _protocolFallbackDone
          told,           \* is the last event "connected"?
          late            \* History: whose protocol was refused after close()

vars == <<asked, held, handle, fallbackDone, told, late>>

Init ==
  /\ asked = [t \in Transports |-> "nothing"] /\ held = [t \in Transports |-> None]
  /\ handle = [t \in Transports |-> [h \in Handles |-> "none"]]
  /\ fallbackDone = {} /\ told = [t \in Transports |-> FALSE] /\ late = {}

-----------------------------------------------------------------------------
Turns(t, h, state) == handle' = [handle EXCEPT ![t][h] = state]
Says(t, connected) == told' = [told EXCEPT ![t] = connected]

Opens(t) == IF t \in Udp THEN "socket" ELSE "v5"

Connect(t) ==
  /\ asked[t] = "nothing"
  /\ asked' = [asked EXCEPT ![t] = "connect"]
  /\ held' = [held EXCEPT ![t] = Opens(t)] /\ Turns(t, Opens(t), "opening")
  /\ UNCHANGED <<fallbackDone, told, late>>

(* close(): what is held is forgotten first, then ended - aborted, if it    *)
(* was still waiting to be accepted.                                        *)
Ending(t, h) == Turns(t, h, IF handle[t][h] = "opening" THEN "aborting" ELSE "ending")

Close(t) ==
  /\ asked[t] = "connect"
  /\ asked' = [asked EXCEPT ![t] = "close"]
  /\ held' = [held EXCEPT ![t] = None] /\ fallbackDone' = fallbackDone \ {t}
  /\ IF held[t] = None THEN UNCHANGED handle ELSE Ending(t, held[t])
  /\ UNCHANGED <<told, late>>

(* The socket is bound and has joined the group, or the broker has accepted *)
(* a client, for the first time or again.                                   *)
Opened(t, h) ==
  /\ handle[t][h] = "opening" /\ Turns(t, h, "open") /\ Says(t, TRUE)
  /\ fallbackDone' = IF t \in Mqtt THEN fallbackDone \cup {t} ELSE fallbackDone
  /\ UNCHANGED <<asked, held, late>>

(* Neither bind() nor addMembership() is tried again, and only an "error"   *)
(* is emitted: the socket is kept for close().                              *)
BindFails(t) ==
  /\ handle[t]["socket"] = "opening" /\ Turns(t, "socket", "failed")
  /\ UNCHANGED <<asked, held, fallbackDone, told, late>>

(* The stream of a client ends: the library will try again.                 *)
Lost(t, h) ==
  /\ t \in Mqtt /\ handle[t][h] \in {"opening", "open"}
  /\ Turns(t, h, "lost") /\ Says(t, FALSE)
  /\ UNCHANGED <<asked, held, fallbackDone, late>>

Reconnects(t, h) ==
  /\ handle[t][h] = "lost" /\ Turns(t, h, "opening") /\ Says(t, FALSE)
  /\ UNCHANGED <<asked, held, fallbackDone, late>>

(* Mutant: the client of version 5 is not ended.                            *)
FallenBackOnly(t) == [handle EXCEPT ![t]["v4"] = "opening"]

FallenBack(t) == [handle EXCEPT ![t]["v5"] = "ended", ![t]["v4"] = "opening"]

(* Mutant: _client is nulled after the second client has been made.         *)
HeldNone(t) == [held EXCEPT ![t] = None]

HeldNext(t) == [held EXCEPT ![t] = "v4"]

(* The broker refuses version 5: the client is ended at once and one of     *)
(* version 4 made - also when the answer to a client that is aborted        *)
(* comes late.  A second refusal is an "error", and the library's affair.   *)
Refused(t) ==
  /\ handle[t]["v5"] \in {"opening", "aborting"} /\ t \notin fallbackDone
  /\ fallbackDone' = fallbackDone \cup {t}
  /\ handle' = FallenBack(t) /\ held' = HeldNext(t) /\ Says(t, FALSE)
  /\ late' = IF asked[t] = "close" THEN late \cup {t} ELSE late
  /\ UNCHANGED asked

Ended(t, h) ==
  /\ handle[t][h] \in {"aborting", "ending"} /\ Turns(t, h, "ended") /\ Says(t, FALSE)
  /\ UNCHANGED <<asked, held, fallbackDone, late>>

Next == \E t \in Transports :
  \/ Connect(t) \/ Close(t) \/ BindFails(t) \/ Refused(t)
  \/ \E h \in Handles : Opened(t, h) \/ Lost(t, h) \/ Reconnects(t, h) \/ Ended(t, h)

(* What is being ended ends.                                                *)
Fairness == \A t \in Transports, h \in Handles : WF_vars(Ended(t, h))
Spec == Init /\ [][Next]_vars /\ Fairness

-----------------------------------------------------------------------------
(* Properties.                                                              *)

Running(t) == {h \in Handles : handle[t][h] \notin {"none", "ended"}}

transportNow == [t \in Transports |->
  CASE asked[t] = "nothing" -> "closed"
    [] asked[t] = "connect" ->
         IF \E h \in Handles : handle[t][h] = "open" THEN "up" ELSE "connecting"
    [] OTHER -> IF Running(t) = {} THEN "closed" ELSE "closing"]

Contract == INSTANCE TransportContract WITH transport <- transportNow

(* Either transport keeps the contract the connection node builds on: what  *)
(* it says of itself is true until it is told to close, also while a client *)
(* of one protocol version is replaced by one of the other.                 *)
KeepsContract == Contract!Spec

(* A transport that is told to close releases its socket or client, also if *)
(* it never connected - unless the broker's refusal arrives after close().  *)
ClosesForGood == \A t \in Transports : asked[t] = "close" ~> Running(t) = {} \/ t \in late

(* The same without the exception.                                          *)
ClosesAsDocumented == \A t \in Transports : asked[t] = "close" ~> Running(t) = {}

=============================================================================

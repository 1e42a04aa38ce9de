----------------------------- MODULE Publisher -----------------------------
(***************************************************************************)
(* opcua-publisher nodes on a PubSubConnection: key frames and keep-alives *)
(* on each message or each cycle, and the one network message that waits   *)
(* for the transport (nodes/opcua-publisher.js).  A frame is the values of *)
(* a key frame, or KeepAlive; a subscriber is a node that never publishes. *)
(***************************************************************************)
EXTENDS PubSubConnection

CONSTANTS Cyclic,         \* nodes with publishMode "cyclic"
          Values, Empty,  \* of a data set; no field set yet
          KeepAlive

ASSUME ValuesAssumption == Empty \in Values /\ {KeepAlive, None} \cap Values = {}

VARIABLES latest, snapshot, pending,
          newest, shown,           \* history: last key frame built, and sent
          hasty,                   \* history: who began with a keep-alive
          unsent                   \* history: why the newest key frame was not sent:
                                   \* "no" reason, "superseded" or "refused"

queue == <<latest, snapshot, pending>>
history == <<newest, shown, hasty, unsent>>
vars == <<connVars, queue, history>>

Init ==
  /\ ConnInit
  /\ latest = [n \in Nodes |-> Empty]
  /\ snapshot = [n \in Nodes |-> None] /\ pending = [n \in Nodes |-> None]
  /\ newest = [n \in Nodes |-> None] /\ shown = [n \in Nodes |-> None]
  /\ hasty = {} /\ unsent = [n \in Nodes |-> "no"]

-----------------------------------------------------------------------------
(* What reaches the transport: a key frame, or a keep-alive before any.     *)
ShownBy(was, frame) == IF frame = KeepAlive THEN was ELSE frame
IsHasty(was, frame) == frame = KeepAlive /\ was = None

(* Mutant: a message that is waiting is not superseded.                     *)
OldestQueued(n, frame) == IF pending[n] = None THEN frame ELSE pending[n]

Queued(n, frame) == frame

(* _emit(): send, or let the message wait in the place of an older one.     *)
(* The encoder or the transport may refuse a message by throwing: it is     *)
(* reported, and neither sent nor kept.  A new key frame starts afresh.     *)
LossOf(frame, was, instead) ==
  IF frame = KeepAlive THEN was ELSE instead

EmitSends(n, frame) ==
  /\ shown' = [shown EXCEPT ![n] = ShownBy(@, frame)]
  /\ hasty' = IF IsHasty(shown[n], frame) THEN hasty \cup {n} ELSE hasty
  /\ unsent' = [unsent EXCEPT ![n] = LossOf(frame, @, "no")]
  /\ UNCHANGED pending

EmitThrows(n, frame) ==
  /\ unsent' = [unsent EXCEPT ![n] = LossOf(frame, @, "refused")]
  /\ UNCHANGED <<pending, shown, hasty>>

EmitWaits(n, frame) ==
  /\ pending' = [pending EXCEPT ![n] = Queued(n, frame)]
  /\ unsent' = [unsent EXCEPT ![n] =
                   LossOf(frame, IF pending[n] \in Values THEN "superseded" ELSE @, "no")]
  /\ UNCHANGED <<shown, hasty>>

Emit(n, frame) ==
  \/ ready[n] /\ (EmitSends(n, frame) \/ EmitThrows(n, frame))
  \/ ~ready[n] /\ EmitWaits(n, frame)

Cycles(n) == n \in running \cap Cyclic

(* The input handler of an acyclic and of a cyclic publisher.               *)
Publish(n, values) ==
  /\ n \in running \ Cyclic
  /\ newest' = [newest EXCEPT ![n] = values]
  /\ Emit(n, values)
  /\ UNCHANGED <<connVars, latest, snapshot>>

Merge(n, values) ==
  /\ n \in running \cap Cyclic
  /\ latest' = [latest EXCEPT ![n] = values]
  /\ UNCHANGED <<connVars, snapshot, pending, history>>

(* The interval of a cyclic publisher: a key frame when the values have     *)
(* changed since the last one, a keep-alive otherwise.  The snapshot is     *)
(* taken before the frame is sent: nothing sends a refused one again.       *)
CycleChanged(n) ==
  /\ Cycles(n) /\ latest[n] # snapshot[n]
  /\ snapshot' = [snapshot EXCEPT ![n] = latest[n]]
  /\ newest' = [newest EXCEPT ![n] = latest[n]]
  /\ Emit(n, latest[n])
  /\ UNCHANGED <<connVars, latest>>

CycleUnchanged(n) ==
  /\ Cycles(n) /\ latest[n] = snapshot[n]
  /\ Emit(n, KeepAlive)
  /\ UNCHANGED <<connVars, latest, snapshot, newest>>

-----------------------------------------------------------------------------
(* The connection's steps, and what the publishers do in them.              *)

(* A publisher is told "connected" and has a message waiting: the queue is  *)
(* emptied first, so that a message that is refused is gone.                *)
Flushed == {n \in callbacks : ready'[n] /\ pending[n] # None}

(* Mutant: the message stays queued when it is sent.                        *)
KeptWaiting == pending

StillWaiting == [n \in Nodes |-> IF n \in Flushed THEN None ELSE pending[n]]

Hear ==
  /\ Events
  /\ pending' = StillWaiting
  /\ \E thrown \in SUBSET Flushed :
       LET sent == Flushed \ thrown IN
       /\ shown' = [n \in Nodes |-> IF n \in sent THEN ShownBy(shown[n], pending[n]) ELSE shown[n]]
       /\ hasty' = hasty \cup {n \in sent : IsHasty(shown[n], pending[n])}
       /\ unsent' = [n \in Nodes |->
                     IF n \in thrown THEN LossOf(pending[n], unsent[n], "refused") ELSE unsent[n]]
  /\ UNCHANGED <<latest, snapshot, newest>>

(* A closed publisher forgets everything, its queue included.               *)
Leave(n) ==
  /\ CloseNode(n)
  /\ latest' = [latest EXCEPT ![n] = Empty] /\ snapshot' = [snapshot EXCEPT ![n] = None]
  /\ pending' = [pending EXCEPT ![n] = None] /\ newest' = [newest EXCEPT ![n] = None]
  /\ shown' = [shown EXCEPT ![n] = None] /\ hasty' = hasty \ {n}
  /\ unsent' = [unsent EXCEPT ![n] = "no"]

Unheard ==
  /\ (\E n \in Nodes : Deploy(n) \/ SetupFails(n)) \/ GraceFires \/ CloseConnection
  /\ UNCHANGED <<queue, history>>

Publishes(n) ==
  \/ CycleChanged(n) \/ CycleUnchanged(n)
  \/ \E v \in Values : Publish(n, v)
  \/ \E v \in Values \ {Empty} : Merge(n, v)

Next == Hear \/ Unheard \/ \E n \in Nodes : Leave(n) \/ Publishes(n)
Spec == Init /\ [][Next]_vars

(* The network or broker lets a transport connect in the end.               *)
LiveSpec == Spec /\ \A t \in Transports : WF_vars(Hear /\ Connects(t))

-----------------------------------------------------------------------------
(* Properties.                                                              *)

Frames == Values \cup {KeepAlive, None}

(* Every variable of the connection and of the publishers has its type; an  *)
(* acyclic publisher sends no keep-alives.                                  *)
TypeOK ==
  /\ ConnTypeOK
  /\ latest \in [Nodes -> Values] /\ snapshot \in [Nodes -> Values \cup {None}]
  /\ pending \in [Nodes -> Frames]
  /\ \A n \in Nodes \ Cyclic : pending[n] # KeepAlive /\ n \notin hasty
  /\ newest \in [Nodes -> Values \cup {None}]
  /\ shown \in [Nodes -> Values \cup {None}] /\ hasty \subseteq Nodes
  /\ unsent \in [Nodes -> {"no", "superseded", "refused"}]

(* The values last published have been sent or are waiting: a burst before  *)
(* the connection collapses to the latest - unless a keep-alive took their  *)
(* place in the queue, or the encoder or the transport refused them with an *)
(* error.  What waits, waits for a transport that is not connected.         *)
LatestFrameKept ==
  \A n \in running :
    /\ newest[n] # None /\ unsent[n] = "no" => newest[n] \in {shown[n], pending[n]}
    /\ pending[n] # None => ~ready[n]

(* No exception: "_publishedSnapshot holds the field values of the LAST     *)
(* emitted keyframe", and unchanged values make a KeepAlive.                *)
SnapshotWasEmitted ==
  \A n \in running : snapshot[n] # None => snapshot[n] \in {shown[n], pending[n]}

(* No exception: "nothing published yet -> first frame must be a keyframe". *)
FirstFrameIsKeyFrame == hasty = {}

(* A message that waits is tried in the end, or its publisher is closed: it *)
(* does not wait for a transport that is connected, nor for its next event. *)
(* What became of it then is LatestFrameKept's.                             *)
WaitingIsTried == \A n \in Nodes : pending[n] # None ~> pending[n] = None

=============================================================================

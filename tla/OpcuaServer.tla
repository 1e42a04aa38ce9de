---------------------------- MODULE OpcuaServer -----------------------------
(***************************************************************************)
(* opcua-server nodes: startServer(), the close handler that may arrive    *)
(* while it runs, the commands, and the queue for the key pair that the    *)
(* servers share with the clients of the same process                      *)
(* (nodes/opcua-server.js, lib/pki-lock.js).  Operators after "Mutant:"    *)
(* are not used by Spec: they are plausible mistakes the properties must   *)
(* notice.                                                                 *)
(***************************************************************************)
EXTENDS PkiLock, ServerCommands

CONSTANTS Servers,      \* server nodes; a redeployed one is another
          Port,         \* the port of each
          Commands,     \* messages
          MaxCommands

ASSUME ServersAssumption == Servers \subseteq Tasks /\ DOMAIN Port = Servers
ASSUME CommandsAssumption == \A msg \in Commands : IsCommand(msg)

VARIABLES start,        \* startServer(): "none", "preparing", "starting", "withdrawing", "withdrawn",
                        \* "started", "failed"
          close,        \* the close handler: "none", "awaiting", "shutting" or "done"
          server, namespace,    \* which variables are set?
          space,        \* the address space of each server
          listening,    \* servers that hold their port
          stuck,        \* servers that could not be shut down
          commands      \* Bound: how many changed something

life == <<start, close, server, namespace, listening, stuck>>
vars == <<lockVars, life, space, commands>>

Init ==
  /\ LockInit
  /\ start = [s \in Servers |-> "none"] /\ close = [s \in Servers |-> "none"]
  /\ server = {} /\ namespace = {} /\ listening = {} /\ stuck = {}
  /\ space = [s \in Servers |-> StandardSpace] /\ commands = 0

-----------------------------------------------------------------------------
Gone(s) == start[s] = "none" \/ close[s] = "done"
Becomes(s, stage) == start' = [start EXCEPT ![s] = stage]
Shuts(s, stage) == close' = [close EXCEPT ![s] = stage]

(* Node-RED deploys a node once the one it replaces is closed.              *)
Deploy(s) ==
  /\ start[s] = "none" /\ \A r \in Servers : Port[r] = Port[s] => Gone(r)
  /\ \/ Becomes(s, "preparing") /\ server' = server \cup {s} /\ WithPkiLock(s)
     \/ Becomes(s, "failed") /\ UNCHANGED <<server, lockVars>>
  /\ UNCHANGED <<close, namespace, space, listening, stuck, commands>>

(* initialize() has settled.                                                *)
Prepared(s) ==
  /\ start[s] = "preparing" /\ task[s] \in {"done", "failed"}
  /\ IF task[s] = "failed" THEN Becomes(s, "failed") /\ UNCHANGED namespace
     ELSE Becomes(s, "starting") /\ namespace' = namespace \cup {s}
  /\ UNCHANGED <<close, server, space, listening, stuck, commands, lockVars>>

PortFree(s) == \A r \in listening : Port[r] # Port[s]

(* start() has settled; the node may be closing by now.                     *)
Starts(s) ==
  /\ start[s] = "starting" /\ PortFree(s) /\ listening' = listening \cup {s}
  /\ Becomes(s, IF close[s] = "none" THEN "started" ELSE IF s \in server THEN "withdrawing" ELSE "failed")
  /\ UNCHANGED <<close, server, namespace, space, stuck, commands, lockVars>>

StartFails(s) ==
  /\ start[s] = "starting" /\ Becomes(s, "failed")
  /\ UNCHANGED <<close, server, namespace, space, listening, stuck, commands, lockVars>>

(* shutdown() gives the port back, or fails.                                *)
ShutsDown(s) == listening' = listening \ {s} /\ UNCHANGED stuck
ShutdownFails(s) == stuck' = stuck \cup ({s} \cap listening) /\ UNCHANGED listening

(* A server that has started into a close is shut down at once; a failure   *)
(* leaves it to the close handler.                                          *)
Withdraw(s) ==
  /\ start[s] = "withdrawing"
  /\ \/ Becomes(s, "withdrawn") /\ ShutsDown(s) /\ server' = server \ {s}
     \/ Becomes(s, "failed") /\ ShutdownFails(s) /\ UNCHANGED server
  /\ UNCHANGED <<close, namespace, space, commands, lockVars>>

Close(s) ==
  /\ start[s] # "none" /\ close[s] = "none" /\ Shuts(s, "awaiting")
  /\ UNCHANGED <<start, server, namespace, space, listening, stuck, commands, lockVars>>

(* Mutant: a start under way is not waited for.                             *)
AtOnce(s) == TRUE

(* The close handler awaits startPromise.                                   *)
StartIsOver(s) == start[s] \in {"started", "withdrawn", "failed"}

CloseResumes(s) ==
  /\ close[s] = "awaiting" /\ StartIsOver(s)
  /\ Shuts(s, IF s \in server THEN "shutting" ELSE "done")
  /\ UNCHANGED <<start, server, namespace, space, listening, stuck, commands, lockVars>>

ShutDown(s) ==
  /\ close[s] = "shutting" /\ Shuts(s, "done")
  /\ ShutsDown(s) \/ ShutdownFails(s)
  /\ server' = server \ {s} /\ namespace' = namespace \ {s}
  /\ UNCHANGED <<start, space, commands, lockVars>>

(* Bound: commands are given while no other node or client is active.       *)
Alone(s) ==
  /\ close[s] = "none" /\ \A r \in Servers \ {s} : start[r] = "none"
  /\ \A t \in Tasks \ Servers : task[t] = "new"

(* A command is answered by the address space as soon as there is one.      *)
Input(s) ==
  /\ s \in server \cap namespace /\ Alone(s) /\ commands < MaxCommands
  /\ \E msg \in Commands : space' = [space EXCEPT ![s] = Handle(@, msg).space]
  /\ commands' = IF space' = space THEN commands ELSE commands + 1
  /\ UNCHANGED <<life, lockVars>>

(* Other tasks in the queue: the clients'.                                  *)
Queue ==
  /\ \/ \E t \in Tasks \ Servers : WithPkiLock(t)
     \/ \E t \in Tasks : Work(t)
  /\ UNCHANGED <<life, space, commands>>

Goes(s) == Prepared(s) \/ Starts(s) \/ StartFails(s) \/ Withdraw(s) \/ CloseResumes(s) \/ ShutDown(s)
Next == Queue \/ \E s \in Servers : Deploy(s) \/ Close(s) \/ Input(s) \/ Goes(s)

(* What was called settles: the queue's tasks, start() and shutdown().      *)
Fairness ==
  /\ \A t \in Tasks : WF_vars(Work(t) /\ UNCHANGED <<life, space, commands>>)
  /\ \A s \in Servers : WF_vars(Goes(s))
Spec == Init /\ [][Next]_vars /\ Fairness

-----------------------------------------------------------------------------
(* Properties.                                                              *)

(* When Node-RED is told that a node is closed, its server holds the port   *)
(* no more and is not about to take it, so that the next deploy finds it    *)
(* free - except where node-opcua could not shut it down.                   *)
PortReleased ==
  /\ \A s \in Servers : close[s] = "done" => s \notin listening \/ s \in stuck
  /\ \A s \in Servers : start[s] = "starting" => \A r \in listening \ stuck : Port[r] # Port[s]

(* A close completes, whatever the other servers and clients in the queue   *)
(* for the key pair do, and whether their tasks succeed.                    *)
CloseCompletes == \A s \in Servers : close[s] = "awaiting" ~> close[s] = "done"

Variables(sp) == {id \in DOMAIN sp : sp[id].class = "variable"}
Scalars(v, array) == IF array THEN v[2] ELSE <<v>>

(* A variable has a value of its declared type, which is what was last      *)
(* asked for, element by element: a value is converted or refused, never    *)
(* written as something else (README.md:333).                               *)
HasWhatWasAsked(node) ==
  LET asked == Scalars(Carried(node.asked), node.value.array)
      stored == Scalars(node.value.value, node.value.array)
  IN /\ node.value.type = node.type /\ Len(stored) = Len(asked)
     /\ \A i \in DOMAIN asked : StandsFor(node.type, asked[i], stored[i])

NeverSomethingElse ==
  \A s \in Servers : \A id \in Variables(space[s]) :
    space[s][id].asked # Missing => HasWhatWasAsked(space[s][id])

(* A value of no explicit type is set on every variable whose type it fits  *)
(* (before 0.2.0 only on a Double, CHANGELOG.md:343).                       *)
Fits(t, v) ==
  LET Stood(x) == StandsFor(t, x, CoerceScalar(t, x))
  IN Stood(v) \/ (IsArray(v) /\ All(v, Stood))

FittingValueIsSet ==
  \A s \in Servers : \A id \in Variables(space[s]) : \A msg \in Commands :
    msg.command = "setValue" /\ msg.datatype = AutoType /\ msg.nodeId = id /\ msg.value # Missing =>
      (Handle(space[s], msg).ok <=> Fits(space[s][id].type, msg.value))

(* A command that is refused changes nothing (docs/MSG-SCHEMA.md:372).      *)
RefusedChangesNothing ==
  \A s \in Servers : \A msg \in Commands :
    LET answer == Handle(space[s], msg) IN ~answer.ok => answer.space = space[s]

=============================================================================

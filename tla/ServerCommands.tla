--------------------------- MODULE ServerCommands ---------------------------
(***************************************************************************)
(* The commands of an opcua-server node on the address space of its        *)
(* server: each handler as a function from an address space and a message  *)
(* to an answer and the address space it leaves behind                     *)
(* (nodes/opcua-server.js).  A handler runs without giving way to another. *)
(* Operators after "Mutant:" are not used by Spec: they are plausible      *)
(* mistakes the properties must notice.                                    *)
(***************************************************************************)
EXTENDS Variants

CONSTANTS Ids,              \* identifiers in the server's own namespace
          ObjectsFolder,    \* the standard folder
          AllowMsgFunc      \* is msg.func allowed?

NoId == <<>>

ASSUME IdsAssumption ==
  ObjectsFolder \notin Ids /\ NoId \notin Ids /\ ObjectsFolder # NoId /\ AllowMsgFunc \in BOOLEAN

NoBody == "none"

(* Not modelled: a variable that is declared to take values of every type.  *)
Declarable == DataType \ {"Variant"}

(* Nor what node-opcua makes of a fraction for an integer type: a command   *)
(* with a fraction says what other type it wants.                           *)
WantsNoRounding(msg) ==
  HasFraction(Carried(msg.value)) => msg.datatype \in Declarable \ {"Byte", "Int32", "Int64"}

IsCommand(msg) ==
  /\ msg.nodeId \in Ids \cup {ObjectsFolder, NoId}
  /\ msg.value = Missing \/ IsMessageValue(msg.value)
  /\ msg.command = "addVariable" => msg.datatype # "Variant"
  /\ WantsNoRounding(msg)

(* An address space is a function from identifiers to nodes.                *)
Node(class, parent) ==
  [class |-> class, parent |-> parent, type |-> NullType, value |-> NoVariant,
   asked |-> Missing, writable |-> FALSE, bound |-> FALSE]

StandardSpace == [id \in {ObjectsFolder} |-> Node("folder", NoId)]

IsObject(node) == node.class \in {"folder", "object"}

(* namespace.findNode() knows the nodes of the own namespace only.          *)
InNamespace(space, id) == id \in DOMAIN space \ {ObjectsFolder}
InAddressSpace(space, id) == id \in DOMAIN space

Failed(space) == [ok |-> FALSE, space |-> space]
Good(space) == [ok |-> TRUE, space |-> space]

(* node-opcua refuses an identifier that is taken, and chooses one itself.  *)
ChosenId(space, msg) == IF msg.nodeId # NoId THEN msg.nodeId ELSE CHOOSE i \in Ids : i \notin DOMAIN space
IsFree(space, msg) == IF msg.nodeId # NoId THEN msg.nodeId \notin DOMAIN space ELSE ~(Ids \subseteq DOMAIN space)
Put(space, id, node) == [i \in DOMAIN space \cup {id} |-> IF i = id THEN node ELSE space[i]]

ParentOf(msg) == IF msg.parentNodeId = NoId THEN ObjectsFolder ELSE msg.parentNodeId

-----------------------------------------------------------------------------
(* The handlers.                                                            *)

HandleAddFolder(space, msg) ==
  LET parent == ParentOf(msg) IN
  IF /\ msg.named /\ InAddressSpace(space, parent) /\ space[parent].class = "folder"
     /\ IsFree(space, msg)
  THEN Good(Put(space, ChosenId(space, msg), Node("folder", parent))) ELSE Failed(space)

HandleAddObject(space, msg) ==
  LET parent == ParentOf(msg) IN
  IF msg.named /\ InAddressSpace(space, parent) /\ IsFree(space, msg)
  THEN Good(Put(space, ChosenId(space, msg), Node("object", parent))) ELSE Failed(space)

Type(datatype, default) == IF datatype = AutoType THEN default ELSE datatype

GetDefaultValue(t) ==
  CASE t = "Boolean" -> Bool(FALSE)
    [] t \in {"Byte", "Int32", "Int64", "Double"} -> Num(0)
    [] t = "String" -> Str("")
    [] OTHER -> Missing

InitialVariant(t, v) ==
  IF v = Missing THEN Variant(t, FALSE, GetDefaultValue(t)) ELSE BuildVariant(v, t)

(* Nothing is added before the type is known and the value fits it.         *)
HandleAddVariable(space, msg) ==
  LET parent == ParentOf(msg)
      t == Type(msg.datatype, "Double")
      variant == InitialVariant(t, msg.value)
      node == [Node("variable", parent) EXCEPT !.type = t, !.value = variant, !.asked = msg.value]
  IN IF msg.named /\ IsKnown(t) /\ variant.ok /\ InAddressSpace(space, parent) /\ IsFree(space, msg)
     THEN Good(Put(space, ChosenId(space, msg), node)) ELSE Failed(space)

(* Mutant: the type of a variable is looked up as if it were a name.        *)
InferredType(node, v) == InferDataType(v)

(* The variable's own type; a value's where there is none.                  *)
DeclaredType(node, v) == IF node.type # NullType THEN node.type ELSE InferDataType(v)

(* The explicit type wins.                                                  *)
ResolveSetValueDataType(node, msg) ==
  IF msg.datatype # AutoType THEN msg.datatype ELSE DeclaredType(node, msg.value)

(* setValueFromSource() takes a variant of the type of the variable.        *)
Takes(node, variant) == node.class = "variable" /\ variant.ok /\ variant.type = node.type

HandleSetValue(space, msg) ==
  LET id == msg.nodeId
      variant == BuildVariant(msg.value, ResolveSetValueDataType(space[id], msg))
  IN IF /\ id # NoId /\ msg.value # Missing /\ InNamespace(space, id)
        /\ Takes(space[id], variant)
     THEN Good([space EXCEPT ![id].value = variant, ![id].asked = msg.value]) ELSE Failed(space)

(* deleteNode() of node-opcua deletes what is below the node as well: what   *)
(* is in every set that has the node, and with a node all that it is the    *)
(* parent of.                                                               *)
Below(space, id) ==
  LET HasAllBelow(ids) == id \in ids /\ \A i \in DOMAIN space : space[i].parent \in ids => i \in ids
  IN {i \in DOMAIN space : \A ids \in SUBSET DOMAIN space : HasAllBelow(ids) => i \in ids}

Without(space, ids) == [i \in DOMAIN space \ ids |-> space[i]]

HandleDeleteNode(space, msg) ==
  IF msg.nodeId # NoId /\ InNamespace(space, msg.nodeId)
  THEN Good(Without(space, Below(space, msg.nodeId))) ELSE Failed(space)

(* A body that is given has to be allowed, and to be JavaScript; without    *)
(* one the default handler is bound.                                        *)
Binds(func) == func = NoBody \/ (AllowMsgFunc /\ func = "valid")

(* The method is in the address space before its handler is made.           *)
HandleAddMethod(space, msg) ==
  LET parent == msg.parentNodeId
      method == [Node("method", parent) EXCEPT !.bound = Binds(msg.func)]
      added == Put(space, ChosenId(space, msg), method)
  IN IF /\ msg.named /\ parent \notin {NoId, ObjectsFolder}
        /\ InAddressSpace(space, parent) /\ IsObject(space[parent]) /\ IsFree(space, msg)
     THEN IF Binds(msg.func) THEN Good(added) ELSE Failed(added)
     ELSE Failed(space)

HandleSetWritable(space, msg) ==
  IF msg.nodeId # NoId /\ InAddressSpace(space, msg.nodeId)
  THEN Good([space EXCEPT ![msg.nodeId].writable = TRUE]) ELSE Failed(space)

(* An event of a known type goes to the clients; only objects raise one.     *)
HandleRaiseEvent(space, msg) ==
  IF /\ msg.nodeId # NoId /\ InAddressSpace(space, msg.nodeId)
     /\ msg.named /\ IsObject(space[msg.nodeId])
  THEN Good(space) ELSE Failed(space)

(* getServerInfo and getNamespaceIndex only read; other commands are unknown. *)
Handle(space, msg) ==
  CASE msg.command = "addFolder" -> HandleAddFolder(space, msg)
    [] msg.command = "addVariable" -> HandleAddVariable(space, msg)
    [] msg.command = "setValue" -> HandleSetValue(space, msg)
    [] msg.command = "deleteNode" -> HandleDeleteNode(space, msg)
    [] msg.command = "addMethod" -> HandleAddMethod(space, msg)
    [] msg.command = "addObject" -> HandleAddObject(space, msg)
    [] msg.command = "setWritable" -> HandleSetWritable(space, msg)
    [] msg.command = "raiseEvent" -> HandleRaiseEvent(space, msg)
    [] msg.command \in {"getServerInfo", "getNamespaceIndex"} -> Good(space)
    [] OTHER -> Failed(space)

=============================================================================

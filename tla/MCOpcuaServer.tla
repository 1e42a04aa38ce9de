--------------------------- MODULE MCOpcuaServer ----------------------------
(* OpcuaServer for TLC: two generations of a server on one port, another    *)
(* server and a client, and commands with values of every kind.             *)
EXTENDS OpcuaServer, TLC

CONSTANTS s1, s2, s3, client, i1, i2

MCServers == {s1, s2, s3}
MCPort == [s \in MCServers |-> IF s = s3 THEN 2 ELSE 1]

Command(name) ==
  [command |-> name, nodeId |-> NoId, parentNodeId |-> NoId, named |-> TRUE,
   datatype |-> AutoType, value |-> Missing, func |-> NoBody]

With(cs, field, values) == {[c EXCEPT ![field] = v] : c \in cs, v \in values}

Values == {Bool(TRUE), Num(0), Num(1), Num(300), <<"big", 1>>,
           Str("1"), Str("300"), Str("true"), Str("iso"), Str("id"), Str("uri"), Str("b64"), Str("plain"),
           Date("iso"), Buf("b64"), <<"serial", "b64">>, <<"nodeid", "id">>, <<"parsed", "id">>,
           Arr(<<Num(0), Num(1)>>), Arr(<<Bool(TRUE), Num(300)>>), Arr(<<Buf("b64")>>),
           Arr(<<Str("1"), Num(300)>>)}
Carrier == <<"carrier", [type |-> "Int32", value |-> Num(1)]>>
Declared == DataType \ {"Variant"}
OwnIds == {i1, i2}

AddVariables ==
  With(With(With({Command("addVariable")}, "nodeId", {i1}), "datatype", Declared \cup {"Dubble"}), "value",
    {Missing, Num(1), Str("300"), Str("plain"), Str("true"), Arr(<<Num(0), Num(1)>>)})
    \cup {[Command("addVariable") EXCEPT !.nodeId = i1, !.datatype = "Double", !.value = Fraction]}
SetValues ==
  With(With({Command("setValue")}, "nodeId", {i1}), "value", Values \cup {Missing})
    \cup With({[Command("setValue") EXCEPT !.nodeId = i1, !.value = v] : v \in {Fraction, Arr(<<Num(1), Fraction>>)}},
              "datatype", {"Double", "String", "DateTime", "ByteString"})
    \cup With({[Command("setValue") EXCEPT !.nodeId = i1, !.value = v] : v \in {Num(1), Carrier}},
              "datatype", {"Int32", "Variant", "Double", "Dubble"})
Structure ==
  With(With({Command(n) : n \in {"addFolder", "addObject", "addVariable"}}, "nodeId", {NoId, i1}),
       "parentNodeId", {NoId, ObjectsFolder, i1, i2})
  \cup With(With(With({Command("addMethod")}, "nodeId", {NoId, i1}), "parentNodeId", {NoId, i1, i2}),
       "func", {NoBody, "valid", "broken"})
  \cup With({Command(n) : n \in {"deleteNode", "setWritable", "raiseEvent", "setValue"}}, "nodeId",
       {NoId, i1, i2, ObjectsFolder})
  \cup With({Command(n) : n \in {"addFolder", "addObject", "addVariable", "addMethod"}}, "named", {FALSE})
  \cup {Command("getServerInfo"), Command("getNamespaceIndex"), Command("typo")}

MCCommands == AddVariables \cup SetValues \cup Structure

(* Bound: three nodes at a time, and an address space is followed while no  *)
(* other node is active.                                                    *)
Followed ==
  /\ task[client] = "new" \/ start[s3] = "none"
  /\ \A s \in Servers : space[s] # StandardSpace => Alone(s) /\ start[s] = "started"
=============================================================================

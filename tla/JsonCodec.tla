----------------------------- MODULE JsonCodec ------------------------------
(***************************************************************************)
(* lib/json-encoder.js: network messages as JSON.  The text stands for the *)
(* object it denotes, if it denotes one.                                   *)
(***************************************************************************)
EXTENDS PubSubValues

Mangled == <<"mangled", 0>>

(* _convertValueForJson() and JSON.stringify(): an object of JavaScript     *)
(* becomes a string, which does not say what it was.                        *)
ScalarToJson(v) ==
  CASE v[1] = "big" -> <<"digits", v[2]>>
    [] v[1] = "buf" -> <<"base64", v[2]>>
    [] v[1] = "date" -> <<"iso", v[2]>>
    [] v[1] = "nodeid" -> <<"nodetext", v[2]>>
    [] v = NaN -> Null
    [] OTHER -> v
ToJson(v) == IF IsArray(v) THEN Arr([i \in DOMAIN v[2] |-> ScalarToJson(v[2][i])]) ELSE ScalarToJson(v)

(* _convertValueFromJson(): the type is looked at before the array is.      *)
ByType == {"DateTime", "ByteString", "NodeId"} \cup Long
FromJsonThrows(t, v) ==
  /\ v # Null
  /\ \/ t \in Long /\ (v[1] \notin {"num", "bool", "str", "digits"} \/ (v[1] = "str" /\ v[2] < 0))
     \/ t = "ByteString" /\ v[1] \in {"num", "bool"}
ScalarFromJson(t, v) ==
  IF v = Null THEN Null
  ELSE CASE t = "DateTime" -> IF v[1] \in {"iso", "num"} THEN Date(v[2]) ELSE Mangled
         [] t = "ByteString" -> IF v[1] = "base64" THEN Buf(v[2]) ELSE Mangled
         [] t = "NodeId" -> IF v[1] = "nodetext" THEN NodeId(v[2]) ELSE Mangled
         [] t \in Long -> Big(v[2])
         [] OTHER -> v
FromJson(t, v) ==
  IF IsArray(v) /\ t \notin ByType THEN Arr([i \in DOMAIN v[2] |-> ScalarFromJson(t, v[2][i])])
  ELSE ScalarFromJson(t, v)

-----------------------------------------------------------------------------
(* A field that is no Variant has no data type.                             *)
JsonType(f) == IF "type" \in DOMAIN f.data THEN f.data.type ELSE "none"

JsonReasons(nm) ==
  LET dsms == ToSet(nm.payload) IN
  Reason(\E d \in dsms : d.messageType \notin {"keyframe", "deltaframe", "event", "keepalive"}, "messageType")
  \cup Reason(\E d \in dsms : \E i \in DOMAIN d.fields : JsonType(d.fields[i]) \notin UA_TYPE, "type")

(* "Payload" is written for every type of message.                          *)
EncodeJsonDataSetMessage(d) ==
  [DataSetWriterId |-> d.dataSetWriterId, DataSetWriterName |-> d.writerName,
   SequenceNumber |-> d.sequenceNumber, MajorVersion |-> d.major, MinorVersion |-> d.minor,
   Timestamp |-> d.timestamp, Status |-> d.status, MessageType |-> d.messageType,
   Payload |-> [i \in DOMAIN d.fields |->
     [name |-> d.fields[i].name, UaType |-> d.fields[i].data.type, Value |-> ToJson(d.fields[i].data.value)]]]

(* A BigInt is written as a string of digits.                               *)
JsonPublisherId(o) == IF Has(o) /\ Get(o)[1] = "big" THEN <<Str(Get(o)[2])>> ELSE o

(* A version without one of its numbers makes a text that is no JSON.       *)
IsJson(nm) == \A i \in DOMAIN nm.payload : Has(nm.payload[i].major) <=> Has(nm.payload[i].minor)

EncodeJson(nm) ==
  LET gh == nm.groupHeader IN
  [format |-> "json", parses |-> IsJson(nm),
   object |->
     [PublisherId |-> JsonPublisherId(nm.publisherId), WriterGroupName |-> nm.groupName,
      DataSetClassId |-> nm.dataSetClassId,
      WriterGroupId |-> When(Has(gh), <<Or(gh, [writerGroupId |-> 0]).writerGroupId>>),
      SequenceNumber |-> When(Has(gh), <<Or(gh, [sequenceNumber |-> 0]).sequenceNumber>>),
      Timestamp |-> nm.timestamp,
      Messages |-> [i \in DOMAIN nm.payload |-> EncodeJsonDataSetMessage(nm.payload[i])]]]

-----------------------------------------------------------------------------
DecodeJsonDataSetMessage(m) ==
  [dataSetWriterId |-> m.DataSetWriterId, writerName |-> m.DataSetWriterName,
   sequenceNumber |-> m.SequenceNumber, major |-> m.MajorVersion, minor |-> m.MinorVersion,
   timestamp |-> m.Timestamp, status |-> m.Status, messageType |-> m.MessageType,
   fields |-> [i \in DOMAIN m.Payload |->
     [name |-> m.Payload[i].name,
      data |-> [type |-> m.Payload[i].UaType, value |-> FromJson(m.Payload[i].UaType, m.Payload[i].Value)]]]]

DecodeJsonFails(wire) ==
  \/ ~wire.parses
  \/ \E m \in ToSet(wire.object.Messages) : \E f \in ToSet(m.Payload) : FromJsonThrows(f.UaType, f.Value)

(* The group header comes back from two fields of the message.              *)
DecodeJson(wire) ==
  LET o == wire.object IN
  [publisherId |-> o.PublisherId, groupName |-> o.WriterGroupName, dataSetClassId |-> o.DataSetClassId,
   groupHeader |-> IF Has(o.WriterGroupId) \/ Has(o.SequenceNumber)
                   THEN <<[writerGroupId |-> Or(o.WriterGroupId, -1), sequenceNumber |-> Or(o.SequenceNumber, -1)]>>
                   ELSE <<>>,
   ids |-> <<>>, timestamp |-> o.Timestamp, chunk |-> <<>>,
   payload |-> [i \in DOMAIN o.Messages |-> DecodeJsonDataSetMessage(o.Messages[i])]]

=============================================================================

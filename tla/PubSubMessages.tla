--------------------------- MODULE PubSubMessages ---------------------------
(***************************************************************************)
(* A message from the configuration of its publisher to the flow of its    *)
(* subscriber: the factories, _buildNetworkMessage(), _buildKeepAlive(),   *)
(* the encoder (in chunks where it is large), the decoder, and the filter. *)
(* The network is a perfect one: its faults are Reassembler's and          *)
(* Publisher's.  Samples are given to the encoders directly, as the tests  *)
(* do.  Operators after "Mutant:" are not used by MessageSpec: they are    *)
(* plausible mistakes the properties must notice.                          *)
(***************************************************************************)
EXTENDS UadpCodec, JsonCodec, PubSubConfig

CONSTANTS Publishers, Readers,  \* configurations
          Samples,              \* messages, each with an encoding and an mtu
          Payloads,             \* of messages to a publisher: fields to values, or Missing
          SeqStarts, MaxPublished

VARIABLES stage,      \* "config", "ready", "built", "sent", "received", "failed", "refused"
          cfg, rd,
          nmSeq, dsmSeq, published,
          values,     \* history: what was published, <<>> for a keep-alive
          nm, mtu, format, wire, reasons,
          got, out

config == <<cfg, rd>>
message == <<nm, mtu, format, values>>
messageVars == <<stage, config, nmSeq, dsmSeq, published, message, wire, reasons, got, out>>

(* Optional settings have one value at most; the names of fields are texts, *)
(* RawData is of scalars, and only the encoder itself makes chunks.         *)
IsSetting(o) == Has(o) => o = <<Get(o)>>
IsOptional(o) == IsSetting(o) /\ (Has(o) => IsScalar(Get(o)))
IsVariant(f) == f = [type |-> f.type, value |-> f.value] /\ IsValue(f.value)
IsDataValue(f) ==
  /\ f = [value |-> f.value, status |-> f.status, source |-> f.source, server |-> f.server,
          sourcePico |-> f.sourcePico, serverPico |-> f.serverPico]
  /\ IsVariant(f.value) /\ \A k \in DOMAIN f \ {"value"} : IsSetting(f[k])
IsField(encoding, f) ==
  /\ f.name[1] = "str" /\ IsScalar(f.name)
  /\ IF encoding = "datavalue" THEN IsDataValue(f.data)
     ELSE IsVariant(f.data) /\ (encoding = "rawdata" => ~IsArray(f.data.value))
IsDsm(d) ==
  /\ d.valid \in BOOLEAN /\ IsSetting(d.sequenceNumber) /\ IsSetting(d.status)
  /\ IsSetting(d.major) /\ IsSetting(d.minor) /\ IsSetting(d.timestamp) /\ IsSetting(d.picoseconds)
  /\ IsSequence(d.fields) /\ \A f \in ToSet(d.fields) : IsField(d.fieldEncoding, f)
IsMessage(m) ==
  /\ IsSequence(m.ids) /\ IsSequence(m.payload) /\ IsOptional(m.publisherId)
  /\ IsSetting(m.timestamp) /\ IsSetting(m.picoseconds) /\ m.chunk = <<>>
  /\ \A d \in ToSet(m.payload) : IsDsm(d)

(* The fields of a payload are the configured ones.  "unfit" are the texts,  *)
(* among "topicPrefix" and "publisherId", that no topic can hold: with a /   *)
(* + # or a control character, or an empty identifier.                      *)
IsPublisher(c) ==
  /\ c.encoding \in {"uadp", "json"} /\ IsSequence(c.writers)
  /\ IsOptional(c.publisherId) /\ IsOptional(c.group.maxNetworkMessageSize) /\ IsScalar(c.group.writerGroupId)
  /\ \A w \in ToSet(c.writers) :
       /\ IsScalar(w.dataSetWriterId) /\ IsSequence(w.publishedDataSet.fields)
       /\ Has(w.publishedDataSet.version) =>
            LET cv == Get(w.publishedDataSet.version) IN IsScalar(cv.major) /\ IsScalar(cv.minor)
       /\ \A f \in ToSet(w.publishedDataSet.fields) :
            IsScalar(f.name) /\ \A p \in Payloads : f.name \in DOMAIN p /\ IsValue(p[f.name])

ASSUME MessagesAssumption ==
  /\ \A c \in Publishers : IsPublisher(c)
  /\ \A s \in Samples : IsMessage(s.nm) /\ s.mtu \in Int /\ s.encoding \in {"uadp", "json"}
  /\ SeqStarts \subseteq 0 .. U16

NoMessage == <<>>
NoResult == [ok |-> FALSE, val |-> <<>>]

MessageInit ==
  /\ published = 0 /\ wire = <<>> /\ reasons = {} /\ got = NoResult /\ out = <<>> /\ values = <<>>
  /\ \/ /\ stage = "config" /\ cfg \in Publishers /\ rd \in Readers
        /\ nmSeq \in SeqStarts /\ dsmSeq = [id \in {w.dataSetWriterId[2] : w \in ToSet(cfg.writers)} |-> nmSeq]
        /\ nm = NoMessage /\ mtu = 0 /\ format = cfg.encoding
     \/ \E s \in Samples :
          /\ stage = "built" /\ nm = s.nm /\ mtu = s.mtu /\ format = s.encoding
          /\ cfg = <<>> /\ rd = <<>> /\ nmSeq = 0 /\ dsmSeq = <<>>

-----------------------------------------------------------------------------
(* The publisher.                                                           *)

UdpJson(transport, encoding) == transport = "udp" /\ encoding = "json"

Accepted(c) ==
  /\ ~UdpJson(c.transport, c.encoding)
  /\ WriterGroupIssues(c.group) = {} /\ c.writers # <<>>
  /\ \A w \in ToSet(c.writers) :
       PublishedDataSetIssues(w.publishedDataSet) = {} /\ DataSetWriterIssues(w) = {}

Validate ==
  /\ stage = "config" /\ stage' = IF Accepted(cfg) THEN "ready" ELSE "refused"
  /\ UNCHANGED <<config, nmSeq, dsmSeq, published, message, wire, reasons, got, out>>

Next16(n) == (n + 1) % (U16 + 1)

(* Every writer of an id counts it; the nth of them is n steps ahead.       *)
Id(c, i) == DataSetWriter(c.writers[i]).dataSetWriterId
Ahead(c, i) == Cardinality({k \in 1 .. i : Id(c, k) = Id(c, i)})
Counted(n, times) == (n + times) % (U16 + 1)

(* Fields that the payload has not got are left out.                        *)
Fields(w, payload) ==
  LET fields == PublishedDataSet(w.publishedDataSet).fields IN
  FlattenSeq([i \in DOMAIN fields |->
    When(payload[fields[i].name] # Missing,
         <<[name |-> fields[i].name,
            data |-> [type |-> Get(fields[i].type), value |-> payload[fields[i].name]]]>>)])

KeyFrame(c, i, payload) ==
  LET w == DataSetWriter(c.writers[i]) IN
  [dataSetWriterId |-> <<w.dataSetWriterId>>, writerName |-> <<>>, valid |-> TRUE,
   fieldEncoding |-> "variant", messageType |-> "keyframe",
   sequenceNumber |-> <<Counted(dsmSeq[Id(c, i)], Ahead(c, i))>>, status |-> <<>>,
   major |-> <<w.publishedDataSet.version.major[2]>>, minor |-> <<w.publishedDataSet.version.minor[2]>>,
   timestamp |-> <<>>, picoseconds |-> <<>>, fields |-> Fields(c.writers[i], payload)]

Nothing == [name \in UNION {DOMAIN p : p \in Payloads} |-> Missing]
KeepAliveFrame(c, i) ==
  [KeyFrame(c, i, Nothing) EXCEPT
     !.messageType = "keepalive", !.major = <<>>, !.minor = <<>>, !.fields = <<>>]

Built(c, frames) ==
  LET group == WriterGroup(c.group) IN
  /\ nmSeq' = Next16(nmSeq)
  /\ dsmSeq' = [id \in DOMAIN dsmSeq |->
                  Counted(dsmSeq[id], Cardinality({i \in DOMAIN c.writers : Id(c, i) = id}))]
  /\ nm' = [publisherId |-> c.publisherId, groupName |-> <<>>, dataSetClassId |-> <<>>,
            groupHeader |-> <<[writerGroupId |-> group.writerGroupId, groupVersion |-> <<>>,
                               networkMessageNumber |-> <<>>, sequenceNumber |-> Next16(nmSeq)]>>,
            ids |-> [i \in DOMAIN c.writers |-> Id(c, i)],
            timestamp |-> <<published>>, picoseconds |-> <<>>, promoted |-> FALSE, chunk |-> <<>>,
            payload |-> frames]
  /\ mtu' = Twice(group.maxNetworkMessageSize) \div 2 /\ published' = published + 1

Idle == stage \in {"ready", "received", "failed"} /\ cfg # <<>> /\ published < MaxPublished

PublishKeyFrame(payload) ==
  /\ Idle /\ Built(cfg, [i \in DOMAIN cfg.writers |-> KeyFrame(cfg, i, payload)])
  /\ values' = <<payload>> /\ stage' = "built" /\ wire' = <<>> /\ reasons' = {}
  /\ got' = NoResult /\ out' = <<>> /\ UNCHANGED <<config, format>>

PublishKeepAlive ==
  /\ Idle /\ Built(cfg, [i \in DOMAIN cfg.writers |-> KeepAliveFrame(cfg, i)])
  /\ values' = <<>> /\ stage' = "built" /\ wire' = <<>> /\ reasons' = {}
  /\ got' = NoResult /\ out' = <<>> /\ UNCHANGED <<config, format>>

(* _buildTopic() of the MQTT transport throws for an identifier that is     *)
(* missing and for a text no topic can hold.                                *)
TopicReasons ==
  Reason(cfg # <<>> /\ cfg.transport = "mqtt" /\ (~Has(cfg.publisherId) \/ cfg.unfit # {}), "topic")

EncoderReasons == IF format = "json" THEN JsonReasons(nm) ELSE UadpReasons(nm, mtu)

(* _emit(): the encoder throws, or send() does, or the message is sent.     *)
Encode ==
  /\ stage = "built"
  /\ reasons' = IF EncoderReasons # {} THEN EncoderReasons ELSE TopicReasons
  /\ IF reasons' # {} THEN stage' = "failed" /\ UNCHANGED wire
     ELSE /\ stage' = "sent"
          /\ wire' = IF format = "json" THEN EncodeJson(nm) ELSE EncodeUadp(nm, mtu)
  /\ UNCHANGED <<config, nmSeq, dsmSeq, published, message, got, out>>

-----------------------------------------------------------------------------
(* The subscriber.                                                          *)

(* Chunks are put together before the message is decoded.                   *)
ChunksOf(parts) == [i \in DOMAIN parts |-> DecodeUadp(parts[i])]
TileTheWhole(chunks) ==
  /\ \A i \in DOMAIN chunks : chunks[i].ok /\ Has(chunks[i].val.chunk)
  /\ LET at(i) == Get(chunks[i].val.chunk) IN
     /\ at(1).offset = 0 /\ at(Len(chunks)).offset + at(Len(chunks)).len = at(1).total
     /\ \A i \in 2 .. Len(chunks) : at(i).offset = at(i - 1).offset + at(i - 1).len

Result(d) == IF d.ok THEN [ok |-> TRUE, val |-> d.val] ELSE NoResult

Decoded(w, encoding) ==
  IF w.format # encoding THEN NoResult
  ELSE IF encoding = "json"
  THEN IF DecodeJsonFails(w) THEN NoResult ELSE [ok |-> TRUE, val |-> DecodeJson(w)]
  ELSE IF w.parts # <<>> /\ ~TileTheWhole(ChunksOf(w.parts)) THEN NoResult
  ELSE Result(DecodeUadp(w.whole))

ReaderAccepted == DataSetReaderIssues(rd) = {} /\ ~UdpJson(cfg.transport, rd.encoding)

(* String(publisherId): a number and its digits look the same.              *)
Text(o) == IF Has(o) THEN <<"text", Get(o)[2]>> ELSE <<"undefined", 0>>

(* Mutant: by position in the header only.                                  *)
Positional(m, i) == When(i \in DOMAIN m.ids, <<m.ids[i]>>)

WriterOf(m, i) ==
  IF Has(m.payload[i].dataSetWriterId) THEN m.payload[i].dataSetWriterId
  ELSE When(i \in DOMAIN m.ids, <<m.ids[i]>>)

Passes(r, m, i) ==
  /\ Has(r.publisherId) => Text(r.publisherId) = Text(m.publisherId)
  /\ Has(r.writerGroupId) => Has(m.groupHeader) /\ Get(r.writerGroupId) = Num(Get(m.groupHeader).writerGroupId)
  /\ Has(r.dataSetWriterId) => Has(WriterOf(m, i)) /\ Get(r.dataSetWriterId) = Num(Get(WriterOf(m, i)))

(* Such a message is dropped with an error.                                 *)
VersionMismatch(r, d) ==
  /\ Has(r.expected) /\ (Has(d.major) \/ Has(d.minor))
  /\ d.major # <<Get(r.expected).major>> \/ d.minor # <<Get(r.expected).minor>>

(* A Variant or a DataValue; one without a value comes as it is.  A Variant *)
(* whose value has a value itself is taken for a DataValue: of a NodeId,    *)
(* which only JSON can carry, the identifier is left.                       *)
BareIdentifier(v) == IF v[1] = "nodeid" THEN <<"identifier", v[2]>> ELSE v

Unwrapped(data) ==
  IF "type" \in DOMAIN data THEN BareIdentifier(data.value)
  ELSE IF data.value # NoVariant THEN data.value.value ELSE data

Message(m, i) ==
  LET d == m.payload[i] IN
  [payload |-> [k \in DOMAIN d.fields |-> [name |-> d.fields[k].name, value |-> Unwrapped(d.fields[k].data)]],
   publisherId |-> m.publisherId,
   writerGroupId |-> When(Has(m.groupHeader), <<Or(m.groupHeader, [writerGroupId |-> 0]).writerGroupId>>),
   dataSetWriterId |-> WriterOf(m, i),
   sequenceNumber |-> IF Has(m.groupHeader) THEN <<Get(m.groupHeader).sequenceNumber>> ELSE d.sequenceNumber,
   timestamp |-> IF Has(d.timestamp) THEN d.timestamp ELSE m.timestamp,
   statusCode |-> Or(d.status, 0)]

HandleNetworkMessage(r, m) ==
  LET matching == FlattenSeq([i \in DOMAIN m.payload |->
                    When(Passes(r, m, i) /\ ~VersionMismatch(r, m.payload[i]), <<i>>)])
  IN [k \in DOMAIN matching |-> Message(m, matching[k])]

Receive ==
  /\ stage = "sent" /\ stage' = "received"
  /\ got' = Decoded(wire, IF rd = <<>> THEN format ELSE rd.encoding)
  /\ out' = IF rd # <<>> /\ ReaderAccepted /\ got'.ok THEN HandleNetworkMessage(rd, got'.val) ELSE <<>>
  /\ UNCHANGED <<config, nmSeq, dsmSeq, published, message, wire, reasons>>

MessageNext ==
  \/ Validate \/ PublishKeepAlive \/ Encode \/ Receive
  \/ \E payload \in Payloads : PublishKeyFrame(payload)

MessageSpec == MessageInit /\ [][MessageNext]_messageVars

-----------------------------------------------------------------------------
(* Properties.                                                              *)

(* JSON arrays of the types that FromJson tells apart do not survive.       *)
Survives(encoding, data) ==
  /\ "type" \in DOMAIN data /\ data # NoVariant
  /\ WellTyped(data.type, data.value)
  /\ encoding = "json" => ~(IsArray(data.value) /\ data.type \in ByType)

(* A DataValue may have no value.                                           *)
Carried(encoding, data) ==
  IF "type" \in DOMAIN data THEN Survives(encoding, data)
  ELSE data.value = NoVariant \/ Survives(encoding, data.value)

SameVariant(f, g) == f.type = g.type /\ SameValue(f.type, f.value, g.value)
SameField(f, g) ==
  /\ f.name = g.name
  /\ IF "type" \in DOMAIN f.data THEN SameVariant(f.data, g.data)
     ELSE /\ DOMAIN f.data = DOMAIN g.data /\ SameVariant(f.data.value, g.data.value)
          /\ \A k \in DOMAIN f.data \ {"value"} : f.data[k] = g.data[k]
SameFields(fs, gs) == Len(fs) = Len(gs) /\ \A k \in DOMAIN fs : SameField(fs[k], gs[k])

SameDsm(d, e) ==
  /\ d.messageType = e.messageType /\ d.sequenceNumber = e.sequenceNumber /\ d.status = e.status
  /\ d.major = e.major /\ d.minor = e.minor /\ d.timestamp = e.timestamp
  /\ SameFields(IF d.messageType = "keepalive" /\ format = "uadp" THEN <<>> ELSE d.fields, e.fields)
  /\ format = "uadp" => d.valid = e.valid /\ d.fieldEncoding = e.fieldEncoding
  /\ format = "json" => d.dataSetWriterId = e.dataSetWriterId /\ d.writerName = e.writerName

SamePayload(ds, es) == Len(ds) = Len(es) /\ \A i \in DOMAIN ds : SameDsm(ds[i], es[i])
GroupOf(gh) == IF Has(gh) THEN <<Get(gh).writerGroupId, Get(gh).sequenceNumber>> ELSE <<>>

(* A UADP message names its writers, or has one data set message at most.   *)
Consistent(m) == Len(m.ids) = Len(m.payload) \/ (m.ids = <<>> /\ Len(m.payload) <= 1)

(* What is encoded comes back the same from the decoder: no header field    *)
(* and no field is lost, exchanged or added, in one piece or in chunks,     *)
(* whatever is present - for messages of well-typed Variants and            *)
(* DataValues; RawData cannot be decoded.                                   *)
RoundTrip ==
  (/\ stage = "received" /\ (rd # <<>> => rd.encoding = format)
   /\ format = "uadp" => Consistent(nm)
   /\ format = "json" => wire.parses
   /\ \A d \in ToSet(nm.payload) :
        d.fieldEncoding # "rawdata" /\ \A f \in ToSet(d.fields) : Carried(format, f.data)) =>
    /\ got.ok /\ Text(nm.publisherId) = Text(got.val.publisherId)
    /\ format = "uadp" => nm.publisherId = got.val.publisherId /\ nm.ids = got.val.ids
    /\ Has(nm.dataSetClassId) <=> Has(got.val.dataSetClassId)
    /\ GroupOf(nm.groupHeader) = GroupOf(got.val.groupHeader)
    /\ nm.timestamp = got.val.timestamp
    /\ SamePayload(nm.payload, got.val.payload)

(* No chunk is larger than the mtu, and together they are the message.      *)
ChunksFit ==
  stage = "sent" /\ format = "uadp" =>
    /\ wire.parts # <<>> => TileTheWhole(ChunksOf(wire.parts))
    /\ \A i \in DOMAIN wire.parts : Bytes(wire.parts[i]) <= mtu

(* What a reader should get: by configuration, not by message.              *)
Meant(i) ==
  /\ Has(rd.publisherId) => Text(rd.publisherId) = Text(cfg.publisherId)
  /\ Has(rd.writerGroupId) => Get(rd.writerGroupId) = cfg.group.writerGroupId
  /\ Has(rd.dataSetWriterId) => Get(rd.dataSetWriterId) = cfg.writers[i].dataSetWriterId
  /\ values # <<>> /\ Has(rd.expected) =>
       LET cv == PublishedDataSet(cfg.writers[i].publishedDataSet).version IN
       Num(Get(rd.expected).major) = cv.major /\ Num(Get(rd.expected).minor) = cv.minor

Asked(i) == IF values = <<>> THEN <<>> ELSE Fields(cfg.writers[i], Get(values))

(* A reader gets the messages that are meant for it, in order, each with    *)
(* the values that were published, under the writer's id and the group's    *)
(* sequence number, over JSON too (CR-02, json-encoder.js:302-305); any     *)
(* other reader gets nothing, nor does one with another encoding.  Of a     *)
(* NodeId only the identifier arrives.                                      *)
Delivered ==
  stage = "received" /\ rd # <<>> /\ (\A d \in ToSet(nm.payload) : \A f \in ToSet(d.fields) : Survives(format, f.data)) =>
    LET meant == FlattenSeq([i \in DOMAIN cfg.writers |-> When(Meant(i), <<i>>)]) IN
    IF ~ReaderAccepted \/ rd.encoding # format THEN out = <<>>
    ELSE /\ Len(out) = Len(meant)
         /\ \A k \in DOMAIN meant :
              LET asked == Asked(meant[k]) IN
              /\ Num(Or(out[k].dataSetWriterId, -1)) = cfg.writers[meant[k]].dataSetWriterId
              /\ out[k].sequenceNumber = <<nmSeq>> /\ out[k].timestamp = <<published - 1>>
              /\ Num(Or(out[k].writerGroupId, -1)) = cfg.group.writerGroupId
              /\ Len(out[k].payload) = Len(asked)
              /\ \A n \in DOMAIN asked :
                   /\ out[k].payload[n].name = asked[n].name
                   /\ SameValue(asked[n].data.type, BareIdentifier(asked[n].data.value), out[k].payload[n].value)

(* A configuration that was accepted can be published, whatever well-typed  *)
(* values there are: only for a publisher's identifier that is none, a data *)
(* type the encoder does not know, a version that is no UInt32, or too      *)
(* large a message, with more writers or fields than can be counted, or     *)
(* with longer names - and over MQTT without an identifier, or with a text  *)
(* that no topic can hold, neither of which a validator looks at.           *)
AcceptedIsSent ==
  stage = "failed" /\ cfg # <<>> /\ (\A d \in ToSet(nm.payload) : \A f \in ToSet(d.fields) : Survives(format, f.data)) =>
    /\ reasons \subseteq {"publisherId", "type", "version", "mtu", "size", "writers", "fields", "name", "topic"}
    /\ "topic" \in reasons => cfg.transport = "mqtt" /\ (cfg.publisherId = <<>> \/ cfg.unfit # {})

(* The same without the exception for a version: "configurationVersion:     *)
(* optional { major: UInt32, minor: UInt32 }".                              *)
AcceptedVersionIsSent == stage = "failed" /\ cfg # <<>> => "version" \notin reasons

=============================================================================

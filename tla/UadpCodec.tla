----------------------------- MODULE UadpCodec ------------------------------
(***************************************************************************)
(* lib/uadp-encoder.js: network messages as bytes.                         *)
(*                                                                         *)
(* The wire is a sequence of tokens, each of a kind and with a content; a  *)
(* flag byte is the set of its bits by name.  What the writer puts on it,  *)
(* and what the reader takes off, are stated separately, each from its own *)
(* function: a reader that meets another kind than it expects has lost     *)
(* track, and what it returns is garbled.                                  *)
(***************************************************************************)
EXTENDS PubSubValues

TokenBytes(tok) ==
  LET k == tok[1] c == tok[2] IN
  CASE k \in {"flags", "u8", "variant"} -> 1
    [] k = "u16" -> 2
    [] k \in {"u32", "i32"} -> 4
    [] k \in {"u64", "date"} -> 8
    [] k = "guid" -> 16
    [] k = "string" -> 4 + BytesOf(c)
    [] k = "name" -> 2 + BytesOf(c)
    [] k = "ids" -> 1 + 2 * Len(c)
    [] k = "sizes" -> 2 * Len(c)
    [] k = "chunk" -> 14 + c.len
    [] OTHER -> ScalarBytes(k, c)
Bytes(tokens) ==
  LET upTo[n \in 0 .. Len(tokens)] == IF n = 0 THEN 0 ELSE upTo[n - 1] + TokenBytes(tokens[n])
  IN upTo[Len(tokens)]

(* Reading: what is left, whether the reader is still on track, and the     *)
(* value read last.                                                         *)
From(tokens) == [rest |-> tokens, ok |-> TRUE, val |-> Null]
Read(p, kind) ==
  IF p.ok /\ p.rest # <<>> /\ p.rest[1][1] = kind
  THEN [rest |-> Tail(p.rest), ok |-> TRUE, val |-> p.rest[1][2]]
  ELSE [p EXCEPT !.ok = FALSE]
ReadIf(p, c, kind) ==
  LET q == Read(p, kind) IN
  IF ~c THEN [p EXCEPT !.val = <<>>]
  ELSE IF q.ok THEN [q EXCEPT !.val = <<@>>] ELSE q

(* A header is read part by part.  A part is <<name, kind, byte, bit>>: it   *)
(* is there if that bit is set in that flag byte, itself an earlier part.   *)
Opened(p, names, first) ==
  LET q == Read(p, "flags") IN
  [q EXCEPT !.val = [n \in names |-> IF n = first /\ q.ok THEN <<@>> ELSE <<>>]]
ReadPart(q, part, kind) ==
  LET r == ReadIf(q, part[4] \in Or(q.val[part[3]], {}), kind) IN
  [r EXCEPT !.val = IF r.ok THEN [q.val EXCEPT ![part[1]] = r.val] ELSE q.val]
ReadParts(p, parts, Kind(_, _)) ==
  LET upTo[n \in 0 .. Len(parts)] ==
        IF n = 0 THEN p ELSE ReadPart(upTo[n - 1], parts[n], Kind(parts[n], upTo[n - 1].val))
  IN upTo[Len(parts)]
OwnKind(part, header) == part[2]

-----------------------------------------------------------------------------
(* Variants and data values.  A data type is its name, for its number too.  *)

NoVariant == [type |-> "none", value |-> Null]
ValueReasons(t, v) ==
  LET scalars == IF IsArray(v) THEN v[2] ELSE <<v>> IN
  IF t \notin BUILTIN_TYPE THEN {"type"}
  ELSE Reason(\E i \in DOMAIN scalars : Throws(t, scalars[i]), "value")
VariantReasons(f) == IF f = NoVariant THEN {} ELSE ValueReasons(f.type, f.value)

WriteVariant(f) ==
  LET scalars == IF IsArray(f.value) THEN f.value[2] ELSE <<f.value>> IN
  IF f = NoVariant THEN <<<<"variant", <<"none", FALSE>>>>>>
  ELSE <<<<"variant", <<f.type, IsArray(f.value)>>>>>>
       \o When(IsArray(f.value), <<<<"i32", Len(scalars)>>>>)
       \o [i \in DOMAIN scalars |-> <<f.type, Written(f.type, scalars[i])>>]

ReadScalar(q, t) ==
  LET r == Read(q, t) IN [r EXCEPT !.val = IF r.ok THEN Append(q.val, ReadBack(t, r.val)) ELSE <<>>]
ReadScalars(p, t, n) ==
  LET upTo[i \in 0 .. n] == IF i = 0 THEN [p EXCEPT !.val = <<>>] ELSE ReadScalar(upTo[i - 1], t)
  IN upTo[n]
ReadVariant(p) ==
  LET q == Read(p, "variant") t == q.val[1] IN
  IF ~q.ok THEN q
  ELSE IF t = "none" THEN [q EXCEPT !.val = NoVariant]
  ELSE IF q.val[2]
  THEN LET n == Read(q, "i32") r == ReadScalars(n, t, n.val) IN
       IF n.ok THEN [r EXCEPT !.val = [type |-> t, value |-> Arr(@)]] ELSE n
  ELSE LET r == ReadScalars(q, t, 1) IN
       [r EXCEPT !.val = IF r.ok THEN [type |-> t, value |-> @[1]] ELSE NoVariant]

(* The parts of a DataValue after its value, in the order of the wire.      *)
DataValueParts ==
  <<<<"status", "u32", "mask", "status">>, <<"source", "date", "mask", "source">>,
    <<"server", "date", "mask", "server">>, <<"sourcePico", "u16", "mask", "sourcePico">>,
    <<"serverPico", "u16", "mask", "serverPico">>>>
DataValueMask(dv) == {k \in DOMAIN dv : k # "value" /\ Has(dv[k])} \cup Reason(dv.value # NoVariant, "value")
WriteDataValue(dv) ==
  LET mask == DataValueMask(dv) IN
  <<<<"flags", mask>>>> \o When("value" \in mask, WriteVariant(dv.value))
  \o FlattenSeq([i \in DOMAIN DataValueParts |->
       LET part == DataValueParts[i] IN When(part[1] \in mask, <<<<part[2], dv[part[1]][1]>>>>)])

ReadValuePart(q) ==
  IF ~q.ok \/ "value" \notin q.val.mask[1] THEN [q EXCEPT !.val.value = NoVariant]
  ELSE LET r == ReadVariant(q) IN [r EXCEPT !.val = [q.val EXCEPT !.value = r.val]]
WithoutMask(q) == [q EXCEPT !.val = [k \in DOMAIN @ \ {"mask"} |-> @[k]]]
DataValueNames == {"mask", "value", "status", "source", "server", "sourcePico", "serverPico"}
ReadDataValue(p) ==
  WithoutMask(ReadParts(ReadValuePart(Opened(p, DataValueNames, "mask")), DataValueParts, OwnKind))

-----------------------------------------------------------------------------
(* Data set messages.                                                       *)

FieldEncodings == {"variant", "rawdata", "datavalue"}
MessageTypes == {"keyframe", "deltaframe", "event", "keepalive"}
Above(o, g) == Has(o) /\ Get(o) \notin 0 .. g

FieldReasons(encoding, f) ==
  Reason(BytesOf(f.name) > U16, "name")
  \cup CASE encoding = "variant" -> VariantReasons(f.data)
         [] encoding = "datavalue" -> VariantReasons(f.data.value)
         [] encoding = "rawdata" -> ValueReasons(f.data.type, f.data.value)
DsmReasons(d) ==
  IF d.fieldEncoding \notin FieldEncodings THEN {"encoding"}
  ELSE IF d.messageType \notin MessageTypes THEN {"messageType"}
  ELSE Reason(Above(d.sequenceNumber, U16) \/ Above(d.status, U16), "header")
       \cup Reason(Above(d.major, U32) \/ Above(d.minor, U32), "version")
       \cup IF d.messageType = "keepalive" THEN {}
            ELSE Reason(Len(d.fields) > U16, "fields")
                 \cup UNION {FieldReasons(d.fieldEncoding, d.fields[i]) : i \in DOMAIN d.fields}

DataSetFlags2(d) ==
  Reason(d.messageType # "keyframe", d.messageType) \cup Reason(Has(d.timestamp), "timestamp")
  \cup Reason(Has(d.timestamp) /\ Has(d.picoseconds), "picoseconds")
DataSetFlags1(d, f2) ==
  Reason(d.valid, "valid") \cup Reason(d.fieldEncoding # "variant", d.fieldEncoding)
  \cup Reason(Has(d.sequenceNumber), "sequenceNumber") \cup Reason(Has(d.status), "status")
  \cup Reason(Has(d.major), "major") \cup Reason(Has(d.minor), "minor") \cup Reason(f2 # {}, "flags2")

WriteField(encoding, f) ==
  <<<<"name", f.name>>>>
  \o CASE encoding = "variant" -> WriteVariant(f.data)
       [] encoding = "datavalue" -> WriteDataValue(f.data)
       [] encoding = "rawdata" -> <<<<f.data.type, Written(f.data.type, f.data.value)>>>>

EncodeDataSetMessage(d) ==
  LET f2 == DataSetFlags2(d) f1 == DataSetFlags1(d, f2) IN
  <<<<"flags", f1>>>> \o When("flags2" \in f1, <<<<"flags", f2>>>>)
  \o When("sequenceNumber" \in f1, <<<<"u16", Or(d.sequenceNumber, 0)>>>>)
  \o When("status" \in f1, <<<<"u16", Or(d.status, 0)>>>>)
  \o When("major" \in f1, <<<<"u32", Or(d.major, 0)>>>>)
  \o When("minor" \in f1, <<<<"u32", Or(d.minor, 0)>>>>)
  \o When("timestamp" \in f2, <<<<"date", Or(d.timestamp, 0)>>>>)
  \o When("picoseconds" \in f2, <<<<"u16", Or(d.picoseconds, 0)>>>>)
  \o When(d.messageType # "keepalive",
          <<<<"u16", Len(d.fields)>>>>
          \o FlattenSeq([i \in DOMAIN d.fields |-> WriteField(d.fieldEncoding, d.fields[i])]))

ReadField(q, encoding) ==
  LET name == Read(q, "name")
      data == IF encoding = "datavalue" THEN ReadDataValue(name) ELSE ReadVariant(name)
  IN [data EXCEPT !.val = Append(q.val, [name |-> name.val, data |-> data.val])]
ReadFields(p, encoding, n) ==
  LET upTo[i \in 0 .. n] == IF i = 0 THEN [p EXCEPT !.val = <<>>] ELSE ReadField(upTo[i - 1], encoding)
  IN upTo[n]

DsmParts ==
  <<<<"flags2", "flags", "flags1", "flags2">>, <<"sequenceNumber", "u16", "flags1", "sequenceNumber">>,
    <<"status", "u16", "flags1", "status">>, <<"major", "u32", "flags1", "major">>,
    <<"minor", "u32", "flags1", "minor">>, <<"timestamp", "date", "flags2", "timestamp">>,
    <<"picoseconds", "u16", "flags2", "picoseconds">>>>
DsmNames == {"flags1", "flags2", "sequenceNumber", "status", "major", "minor", "timestamp", "picoseconds"}

MessageType(h) ==
  LET types == Or(h.flags2, {}) \cap MessageTypes IN
  IF types = {} THEN "keyframe" ELSE CHOOSE t \in types : TRUE
FieldEncoding(h) == IF "datavalue" \in Get(h.flags1) THEN "datavalue" ELSE "variant"

CountedFields(n, encoding) == IF n.ok THEN ReadFields(n, encoding, n.val) ELSE n
DsmBody(q) ==
  IF MessageType(q.val) = "keepalive" THEN [q EXCEPT !.val = <<>>]
  ELSE CountedFields(Read(q, "u16"), FieldEncoding(q.val))

(* RawData needs metadata that the decoder has not got.                     *)
DsmAfter(q) ==
  IF ~q.ok THEN q
  ELSE IF "rawdata" \in Get(q.val.flags1) THEN [q EXCEPT !.ok = FALSE]
  ELSE LET h == q.val IN
       [DsmBody(q) EXCEPT !.val =
          [valid |-> "valid" \in Get(h.flags1), fieldEncoding |-> FieldEncoding(h),
           messageType |-> MessageType(h), dataSetWriterId |-> <<>>, writerName |-> <<>>,
           sequenceNumber |-> h.sequenceNumber, status |-> h.status, major |-> h.major,
           minor |-> h.minor, timestamp |-> h.timestamp, picoseconds |-> h.picoseconds,
           fields |-> @]]
DecodeDataSetMessage(p) == DsmAfter(ReadParts(Opened(p, DsmNames, "flags1"), DsmParts, OwnKind))

-----------------------------------------------------------------------------
(* The header of a network message, and its flags.                          *)

PublisherIdReasons(o) ==
  IF ~Has(o) THEN {}
  ELSE Reason(CASE Get(o)[1] \in {"str", "guid"} -> FALSE
                [] Get(o)[1] = "big" -> Get(o)[2] \notin 0 .. U64
                [] Get(o)[1] = "num" -> Get(o)[2] \notin 0 .. U32
                [] OTHER -> TRUE, "publisherId")
PublisherIdType(v) ==
  CASE v[1] \in {"str", "guid"} -> "string"
    [] v[1] = "big" -> "u64"
    [] OTHER -> IF v[2] <= U8 THEN "u8" ELSE IF v[2] <= U16 THEN "u16" ELSE "u32"

(* Of a BYTE there is no bit in ExtendedFlags1.                             *)
TypeBits(o) == IF Has(o) THEN {PublisherIdType(Get(o))} \ {"u8"} ELSE {}

ExtendedFlags2(nm) == Reason(Has(nm.chunk), "chunk") \cup Reason(nm.promoted, "promoted")
ExtendedFlags1(nm, f2) ==
  TypeBits(nm.publisherId) \cup Reason(Has(nm.dataSetClassId), "classId")
  \cup Reason(Has(nm.timestamp), "timestamp")
  \cup Reason(Has(nm.timestamp) /\ Has(nm.picoseconds), "picoseconds")
  \cup Reason(f2 # {}, "ext2")
UADPFlags(nm, f1) ==
  {"version"} \cup Reason(Has(nm.publisherId), "publisherId")
  \cup Reason(Has(nm.groupHeader), "groupHeader") \cup Reason(nm.ids # <<>>, "payloadHeader")
  \cup Reason(f1 # {}, "ext1")

(* Mutant: the numbers in another order than they are read.                 *)
SwappedGroupHeader(gh) ==
  <<<<"u16", gh.writerGroupId>>, <<"u16", Or(gh.networkMessageNumber, 0)>>,
    <<"u32", Or(gh.groupVersion, 0)>>, <<"u16", gh.sequenceNumber>>>>

WriteGroupHeader(gh) ==
  <<<<"u16", gh.writerGroupId>>, <<"u32", Or(gh.groupVersion, 0)>>,
    <<"u16", Or(gh.networkMessageNumber, 0)>>, <<"u16", gh.sequenceNumber>>>>

(* The integers of a publisher id go on the wire without their JavaScript type. *)
WriteHeader(nm) ==
  LET f2 == ExtendedFlags2(nm) f1 == ExtendedFlags1(nm, f2) f0 == UADPFlags(nm, f1)
      ext == "ext1" \in f0
      id == IF Has(nm.publisherId) THEN Get(nm.publisherId) ELSE Null
      type == IF ext /\ TypeBits(nm.publisherId) # {} THEN PublisherIdType(id) ELSE "u8" IN
  <<<<"flags", f0>>>> \o When(ext, <<<<"flags", f1>>>>)
  \o When(ext /\ "ext2" \in f1, <<<<"flags", f2>>>>)
  \o When("publisherId" \in f0, <<<<type, IF type = "string" THEN id ELSE id[2]>>>>)
  \o When(ext /\ "classId" \in f1, <<<<"guid", Or(nm.dataSetClassId, Null)>>>>)
  \o When("groupHeader" \in f0, WriteGroupHeader(nm.groupHeader[1]))
  \o When("payloadHeader" \in f0, <<<<"ids", nm.ids>>>>)
  \o When(ext /\ "timestamp" \in f1, <<<<"date", Or(nm.timestamp, 0)>>>>)
  \o When(ext /\ "picoseconds" \in f1, <<<<"u16", Or(nm.picoseconds, 0)>>>>)

HeaderReasons(nm) ==
  PublisherIdReasons(nm.publisherId)
  \cup Reason(Has(nm.dataSetClassId) /\ Get(nm.dataSetClassId)[1] # "guid", "classId")
  \cup Reason(\E gh \in ToSet(nm.groupHeader) :
                \/ gh.writerGroupId \notin 0 .. U16 \/ gh.sequenceNumber \notin 0 .. U16, "groupHeader")
  \cup Reason(Len(nm.ids) > U8, "writers") \cup Reason(\E i \in DOMAIN nm.ids : nm.ids[i] \notin 0 .. U16, "ids")
  \cup Reason(Has(nm.timestamp) /\ Above(nm.picoseconds, U16), "picoseconds")
  \cup Reason(nm.promoted, "promoted")

-----------------------------------------------------------------------------
(* Network messages, in one piece or in chunks.                             *)

SizeArray(nm, bodies) ==
  When(nm.ids # <<>> /\ Len(bodies) > 1, <<<<"sizes", [i \in DOMAIN bodies |-> Bytes(bodies[i])]>>>>)
Whole(nm) ==
  LET bodies == [i \in DOMAIN nm.payload |-> EncodeDataSetMessage(nm.payload[i])] IN
  WriteHeader(nm) \o SizeArray(nm, bodies) \o FlattenSeq(bodies)

ChunkHeader(nm, chunk) ==
  WriteHeader([publisherId |-> nm.publisherId, dataSetClassId |-> nm.dataSetClassId,
               groupHeader |-> nm.groupHeader, timestamp |-> nm.timestamp, picoseconds |-> nm.picoseconds,
               ids |-> <<IF nm.ids = <<>> THEN 0 ELSE nm.ids[1]>>, promoted |-> FALSE, chunk |-> <<chunk>>])
EncodeChunk(nm, chunk) == ChunkHeader(nm, chunk) \o <<<<"chunk", chunk>>>>

ChunkAt(nm, total, offset, len) ==
  [seq |-> IF Has(nm.groupHeader) THEN nm.groupHeader[1].sequenceNumber ELSE 0,
   offset |-> offset, total |-> total, len |-> len]

(* _splitIntoChunks(): an empty chunk shows what the header takes, and      *)
(* another 12 bytes are set aside.                                          *)
Overhead(nm, total) == Bytes(EncodeChunk(nm, ChunkAt(nm, total, 0, 0))) + 12

(* Mutant: what the header takes is not subtracted.                         *)
PayloadSize(nm, mtu, total) == mtu - 12

ChunkSize(nm, mtu, total) == mtu - Overhead(nm, total)
Pieces(nm, total, most) ==
  [i \in 1 .. (total + most - 1) \div most |->
     ChunkAt(nm, total, (i - 1) * most, Min({most, total - (i - 1) * most}))]
SplitIntoChunks(nm, mtu, total) == Pieces(nm, total, ChunkSize(nm, mtu, total))

IsSplit(nm, mtu) == nm.payload # <<>> /\ Bytes(Whole(nm)) > mtu

(* Everything that makes encodeNetworkMessage() throw.                      *)
UadpReasons(nm, mtu) ==
  LET early == HeaderReasons(nm) \cup UNION {DsmReasons(nm.payload[i]) : i \in DOMAIN nm.payload} IN
  IF early # {} THEN early
  ELSE Reason(/\ nm.ids # <<>> /\ Len(nm.payload) > 1
              /\ \E i \in DOMAIN nm.payload : Bytes(EncodeDataSetMessage(nm.payload[i])) > U16, "size")
       \cup Reason(IsSplit(nm, mtu) /\ ChunkSize(nm, mtu, Bytes(Whole(nm))) <= 0, "mtu")

EncodeChunks(nm, chunks) == [i \in DOMAIN chunks |-> EncodeChunk(nm, chunks[i])]
EncodeUadp(nm, mtu) ==
  [format |-> "uadp", whole |-> Whole(nm),
   parts |-> IF IsSplit(nm, mtu) THEN EncodeChunks(nm, SplitIntoChunks(nm, mtu, Bytes(Whole(nm)))) ELSE <<>>]

-----------------------------------------------------------------------------
NmParts ==
  <<<<"ext1", "flags", "flags", "ext1">>, <<"ext2", "flags", "ext1", "ext2">>,
    <<"publisherId", "by type", "flags", "publisherId">>, <<"classId", "guid", "ext1", "classId">>,
    <<"writerGroupId", "u16", "flags", "groupHeader">>, <<"groupVersion", "u32", "flags", "groupHeader">>,
    <<"networkMessageNumber", "u16", "flags", "groupHeader">>,
    <<"sequenceNumber", "u16", "flags", "groupHeader">>, <<"ids", "ids", "flags", "payloadHeader">>,
    <<"timestamp", "date", "ext1", "timestamp">>, <<"picoseconds", "u16", "ext1", "picoseconds">>,
    <<"chunk", "chunk", "ext2", "chunk">>>>
NmNames == {"flags"} \cup {NmParts[i][1] : i \in DOMAIN NmParts}

IdType(h) ==
  LET bits == Or(h.ext1, {}) \cap {"u16", "u32", "u64", "string"} IN
  IF bits = {} THEN "u8" ELSE CHOOSE b \in bits : TRUE
NmKind(part, h) == IF part[1] = "publisherId" THEN IdType(h) ELSE part[2]

ReadPublisherId(h) ==
  IF ~Has(h.publisherId) \/ IdType(h) = "string" THEN h.publisherId
  ELSE IF IdType(h) = "u64" THEN <<Big(Get(h.publisherId))>>
  ELSE <<Num(Get(h.publisherId))>>

ReadGroupHeader(h) ==
  When(Has(h.writerGroupId),
       <<[writerGroupId |-> Or(h.writerGroupId, 0), groupVersion |-> h.groupVersion,
          networkMessageNumber |-> h.networkMessageNumber, sequenceNumber |-> Or(h.sequenceNumber, 0)]>>)

(* The bytes of a message of the given size.                                *)
Cut(tokens, n) ==
  LET fits == {k \in 0 .. Len(tokens) : Bytes(SubSeq(tokens, 1, k)) = n} IN
  IF fits = {} THEN <<>> ELSE SubSeq(tokens, 1, Max(fits))

WithDsm(q, tokens, d) ==
  [rest |-> SubSeq(q.rest, Len(tokens) + 1, Len(q.rest)), ok |-> q.ok /\ d.ok, val |-> Append(q.val, d.val)]
ReadSized(q, size) ==
  LET tokens == Cut(q.rest, size) IN WithDsm(q, tokens, DecodeDataSetMessage(From(tokens)))
ReadAll(sizes) ==
  LET upTo[i \in 0 .. Len(sizes.val)] ==
        IF i = 0 THEN [sizes EXCEPT !.val = <<>>] ELSE ReadSized(upTo[i - 1], sizes.val[i])
  IN IF ~sizes.ok THEN sizes ELSE upTo[Len(sizes.val)]
ReadPayload(p, n) ==
  IF n > 1 THEN ReadAll(Read(p, "sizes"))
  ELSE IF p.rest = <<>> THEN [p EXCEPT !.val = <<>>]
  ELSE [DecodeDataSetMessage(p) EXCEPT !.val = <<@>>]

NmBody(q) == IF Has(q.val.chunk) THEN [q EXCEPT !.val = <<>>] ELSE ReadPayload(q, Len(Or(q.val.ids, <<>>)))
NmAfter(q) ==
  LET h == q.val IN
  IF ~q.ok \/ "version" \notin Get(h.flags) \/ "promoted" \in Or(h.ext2, {}) THEN [q EXCEPT !.ok = FALSE]
  ELSE [NmBody(q) EXCEPT !.val =
          [publisherId |-> ReadPublisherId(h), groupName |-> <<>>,
           dataSetClassId |-> When(Has(h.classId), <<Guid("upper")>>),
           groupHeader |-> ReadGroupHeader(h), ids |-> Or(h.ids, <<>>), timestamp |-> h.timestamp,
           picoseconds |-> h.picoseconds, promoted |-> FALSE, chunk |-> h.chunk, payload |-> @]]
DecodeUadp(tokens) == NmAfter(ReadParts(Opened(From(tokens), NmNames, "flags"), NmParts, NmKind))

=============================================================================

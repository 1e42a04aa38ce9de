--------------------------- MODULE MCPubSubMessages ---------------------------
EXTENDS PubSubMessages

A == Str(-1)
B == Str(-2)

Values == {Missing, Null, NaN, Num(0), Num(5), Num(200), Num(70000), Half, Big(7), Big(-7), Bool(1), Str(5), Str(-30),
           Date(3), Buf(4), Guid("lower"), NodeId(9), Arr(<<>>), Arr(<<Num(1), Num(2)>>),
           Arr(<<Date(1), Date(2)>>), Arr(<<Buf(1), Buf(2)>>), Arr(<<Big(1), Big(2)>>), Arr(<<Guid("lower"), Guid("upper")>>)}
MCPayloads == {[n \in {A, B} |-> IF n = A THEN v ELSE w] : v \in Values, w \in {Missing, Num(1)}}

Field(n, t) == [name |-> n, type |-> <<t>>]
Writer(id, fields) ==
  [dataSetWriterId |-> id, dataSetName |-> <<>>,
   publishedDataSet |-> [named |-> TRUE, fields |-> fields, version |-> <<>>]]
Group == [publishingInterval |-> Num(4), keepAliveTime |-> <<>>, maxNetworkMessageSize |-> <<>>,
          priority |-> <<>>, writerGroupId |-> Num(1)]
Base == [encoding |-> "uadp", transport |-> "mqtt", publisherId |-> <<Str(5)>>, unfit |-> {}, group |-> Group,
         writers |-> <<Writer(Num(1), <<Field(A, "Int32")>>)>>]
Encodings == {"uadp", "json"}
Versions == {[major |-> m, minor |-> n] : m \in {Num(2), Num(-1), Half}, n \in {Num(0), NaN}}

(* One thing at a time is other than usual.                                 *)
MCPublishers ==
  {[Base EXCEPT !.encoding = e, !.writers = <<Writer(Num(1), <<Field(A, t)>>), Writer(Num(2), <<Field(B, "Byte")>>)>>] :
     e \in Encodings, t \in UA_TYPE \cup {"LocalizedText"}}
  \cup {[Base EXCEPT !.encoding = e, !.publisherId = p] :
     e \in Encodings, p \in {<<>>, <<Num(5)>>, <<Num(-1)>>, <<Num(300)>>, <<Num(70000)>>, <<Big(5)>>, <<Str(-3)>>}}
  \cup {[Base EXCEPT !.encoding = e, !.transport = t, !.publisherId = p] :
     e \in Encodings, t \in {"udp", "mqtt"}, p \in {<<>>, <<Str(5)>>}}
  \cup {[Base EXCEPT !.transport = t, !.publisherId = <<Str(-3)>>, !.unfit = u] :
     t \in {"udp", "mqtt"}, u \in {{"topicPrefix"}, {"publisherId"}}}
  \cup {[Base EXCEPT !.group.writerGroupId = v] : v \in {Num(0), Num(65535), Num(70000), NaN, Half}}
  \cup {[Base EXCEPT !.group.maxNetworkMessageSize = <<v>>] : v \in {Num(0), Num(30), Num(60), Half, NaN}}
  \cup {[Base EXCEPT !.group.keepAliveTime = <<v>>] : v \in {Num(3), Num(4), NaN}}
  \cup {[Base EXCEPT !.group.priority = <<v>>] : v \in {Num(255), Num(256), Half}}
  \cup {[Base EXCEPT !.group.publishingInterval = v] : v \in {Num(0), NaN, Half}}
  \cup {[Base EXCEPT !.encoding = e, !.writers = ws] : e \in Encodings,
     ws \in {<<>>, <<Writer(Num(0), <<Field(A, "Int32")>>)>>, <<Writer(Num(65536), <<Field(A, "Int32")>>)>>,
             <<Writer(Num(1), <<>>)>>,
             <<Writer(Num(1), <<Field(A, "Int32"), Field(B, "Byte")>>), Writer(Num(1), <<Field(B, "Double")>>)>>,
             <<Writer(Num(2), <<Field(B, "Byte")>>), Writer(Num(1), <<Field(A, "String")>>), Writer(Num(2), <<Field(A, "Int16")>>)>>}}
  \cup {[Base EXCEPT !.encoding = e, !.writers[1].publishedDataSet.version = <<v>>] : e \in Encodings, v \in Versions}
  \cup {[Base EXCEPT !.writers[1].publishedDataSet.named = FALSE],
        [Base EXCEPT !.writers[1].publishedDataSet.fields[1].type = <<>>],
        [Base EXCEPT !.writers[1].dataSetName = <<Num(1)>>]}

Reader(e) == [encoding |-> e, publisherId |-> <<>>, writerGroupId |-> <<>>, dataSetWriterId |-> <<>>, expected |-> <<>>]
MCReaders ==
  UNION {{Reader(e), [Reader(e) EXCEPT !.publisherId = <<Str(5)>>], [Reader(e) EXCEPT !.writerGroupId = <<Num(1)>>],
          [Reader(e) EXCEPT !.writerGroupId = <<NaN>>], [Reader(e) EXCEPT !.dataSetWriterId = <<Num(2)>>],
          [Reader(e) EXCEPT !.publisherId = <<Str(-3)>>, !.dataSetWriterId = <<Num(1)>>],
          [Reader(e) EXCEPT !.writerGroupId = <<Num(1)>>, !.expected = <<[major |-> 1, minor |-> 0]>>],
          [Reader(e) EXCEPT !.dataSetWriterId = <<Num(1)>>, !.expected = <<[major |-> 2, minor |-> 0]>>]} : e \in Encodings}

-----------------------------------------------------------------------------
Opt(v) == {<<>>, <<v>>}
Dsm == [dataSetWriterId |-> <<>>, writerName |-> <<>>, valid |-> TRUE, fieldEncoding |-> "variant",
        messageType |-> "keyframe", sequenceNumber |-> <<>>, status |-> <<>>, major |-> <<>>, minor |-> <<>>,
        timestamp |-> <<>>, picoseconds |-> <<>>,
        fields |-> <<[name |-> A, data |-> [type |-> "String", value |-> Str(-30)]]>>]
DataValues ==
  {[value |-> v, status |-> s, source |-> a, server |-> b, sourcePico |-> c, serverPico |-> <<>>] :
     v \in {NoVariant, [type |-> "Byte", value |-> Num(5)], [type |-> "Guid", value |-> Guid("lower")],
            [type |-> "Int64", value |-> Arr(<<Num(1), Big(-2)>>)]}, s \in Opt(3), a \in Opt(4), b \in Opt(5), c \in Opt(6)}
Dsms ==
  {[Dsm EXCEPT !.valid = v, !.messageType = t, !.sequenceNumber = s, !.status = st, !.timestamp = time, !.picoseconds = p] :
     v \in BOOLEAN, t \in MessageTypes \cup {"other"}, s \in Opt(7), st \in Opt(70000), time \in Opt(8), p \in Opt(9)}
  \cup {[Dsm EXCEPT !.major = a, !.minor = b, !.writerName = w] : a \in Opt(1), b \in Opt(2), w \in Opt(Str(-4))}
  \cup {[Dsm EXCEPT !.fieldEncoding = "datavalue", !.fields[1].data = d] : d \in DataValues}
  \cup {[Dsm EXCEPT !.fieldEncoding = e] : e \in {"rawdata", "other"}}
  \cup {[Dsm EXCEPT !.fields = <<[name |-> B, data |-> NoVariant]>>], [Dsm EXCEPT !.fields = <<>>],
        [Dsm EXCEPT !.fields[1].data.value = Str(-70000)], [Dsm EXCEPT !.fields[1].name = Str(-70000)]}
Nm == [publisherId |-> <<Num(5)>>, groupName |-> <<>>, dataSetClassId |-> <<>>, groupHeader |-> <<>>, ids |-> <<1>>,
       timestamp |-> <<>>, picoseconds |-> <<>>, promoted |-> FALSE, chunk |-> <<>>, payload |-> <<Dsm>>]
GroupHeaders ==
  Opt([writerGroupId |-> 65535, groupVersion |-> <<2>>, networkMessageNumber |-> <<3>>, sequenceNumber |-> 4])
  \cup {<<[writerGroupId |-> 1, groupVersion |-> <<>>, networkMessageNumber |-> <<>>, sequenceNumber |-> 65536]>>}
Nms ==
  {[Nm EXCEPT !.payload = <<d>>, !.ids = i] : d \in Dsms, i \in {<<>>, <<1>>}}
  \cup {[Nm EXCEPT !.payload = <<d, Dsm>>, !.ids = i] : d \in Dsms, i \in {<<>>, <<1>>, <<1, 2>>}}
  \cup {[Nm EXCEPT !.publisherId = p, !.groupHeader = g, !.dataSetClassId = c, !.timestamp = t, !.picoseconds = q, !.groupName = n] :
     p \in {<<>>, <<Num(-1)>>, <<Num(255)>>, <<Num(256)>>, <<Num(65536)>>, <<Num(200000)>>, <<Big(255)>>, <<Big(2000000)>>,
            <<Str(5)>>, <<Str(-3)>>, <<Bool(1)>>},
     g \in GroupHeaders, c \in Opt(Guid("lower")), t \in Opt(6), q \in Opt(7), n \in Opt(Str(-5))}
  \cup {[Nm EXCEPT !.payload = <<>>], [Nm EXCEPT !.promoted = TRUE],
        [Nm EXCEPT !.ids = [i \in 1 .. 256 |-> i], !.payload = [i \in 1 .. 256 |-> [Dsm EXCEPT !.messageType = "keepalive"]]]}
MCSamples ==
  [nm : Nms, mtu : {1400}, encoding : Encodings]
  \cup [nm : {[Nm EXCEPT !.groupHeader = g, !.publisherId = p, !.dataSetClassId = c] :
                g \in GroupHeaders, p \in {<<Num(5)>>, <<Str(-9)>>}, c \in Opt(Guid("lower"))},
        mtu : {20, 30, 34, 35, 40, 50, 51}, encoding : {"uadp"}]
===============================================================================
